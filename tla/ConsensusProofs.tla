-------------------------- MODULE ConsensusProofs ---------------------------
(***************************************************************************)
(* What holds of SnapshotWalk, and then of Bootstrap, for every validator  *)
(* set, fork table, checkpoint, chain and upstream.                        *)
(***************************************************************************)
EXTENDS SnapshotWalk, Bootstrap, FiniteSetTheorems, TLAPS

-----------------------------------------------------------------------------
(* Lemmas about the operators of Snapshot. *)

\* The check length is a block count.
LEMMA CheckLenIsNat ==
  ASSUME NEW n \in Nat, NEW turn \in Nat \ {0}
  PROVE  MinerHistoryCheckLen(n, turn) \in Nat
<1>1. CASE n = 0
  BY <1>1 DEF MinerHistoryCheckLen
<1>2. CASE n # 0
  <2>. DEFINE k == n \div 2 + 1
  <2>1. k \in Nat \ {0}
    OBVIOUS
  <2>. HIDE DEF k
  <2>2. k * turn \in Nat /\ k * turn >= 1
    BY <2>1
  <2>3. MinerHistoryCheckLen(n, turn) = k * turn - 1
    BY <1>2 DEF MinerHistoryCheckLen, k
  <2>. QED BY <2>2, <2>3
<1>. QED BY <1>1, <1>2

\* A snapshot of the right shape has a delay that is a block count.
LEMMA DelayIsNat ==
  ASSUME NEW s, IsSnapshot(s)
  PROVE  Delay(s) \in Nat
<1>1. s.validators \subseteq Validator /\ s.turn_length \in Nat \ {0}
  BY DEF IsSnapshot, ValidatorSet
<1>2. Cardinality(s.validators) \in Nat
  BY <1>1, FS_Subset, FS_CardinalityType, SnapshotConstants
<1>. QED BY <1>1, <1>2, CheckLenIsNat DEF Delay

\* Forgetting a sealer keeps the shape.
LEMMA ForgetType ==
  ASSUME NEW s, IsSnapshot(s)
  PROVE  IsSnapshot(Forget(s))
BY DEF IsSnapshot, Forget

\* A seeded snapshot has the right shape.
LEMMA SeededType ==
  ASSUME NEW s, Seeded(s)
  PROVE  IsSnapshot(s)
<1>1. s.recents = [b \in {} |-> 0] /\ s.ancestors = [b \in {s.number} |-> s.hash]
  BY DEF Seeded, FromCheckpoint
<1>2. s \in [number : Nat, hash : Hash, epoch_length : EpochLengths,
             turn_length : Nat \ {0}, validators : ValidatorSet \ {{}},
             pending : PendingEpoch \cup {None}, recents : {s.recents},
             vote_set : ValidatorSet, prev_vote_set : ValidatorSet, set_changed_at : Nat,
             attestation : VoteData \cup {None}, milli_known : BOOLEAN,
             walk_start : Nat, ancestors : {s.ancestors}]
  <2>. DEFINE n == s.number
              x == s.hash
              e == s.epoch_length
              S == s.validators
              V == s.vote_set
              t == s.turn_length
  <2>1. s = FromCheckpoint(n, x, e, S, V, t)
    BY DEF Seeded
  <2>2. n \in Nat /\ x \in Hash /\ e \in EpochLengths /\ S \in ValidatorSet \ {{}}
        /\ V \in ValidatorSet /\ t \in Nat \ {0} /\ {} \in ValidatorSet
    BY DEF Seeded, ValidatorSet
  <2>. HIDE DEF n, x, e, S, V, t
  <2>. QED BY <2>1, <2>2 DEF FromCheckpoint
<1>. QED BY <1>1, <1>2 DEF Seeded, IsSnapshot

\* The fields of an advanced snapshot.
LEMMA AdvanceFields ==
  ASSUME NEW s, NEW h, IsSnapshot(s)
  PROVE  LET a == Advance(s, h)
         IN  /\ a.number = h.number /\ a.hash = h.hash
             /\ a.pending = PendingAfter(s, h) /\ a.attestation = AttestationAfter(s, h)
             /\ a.recents = RecentsAfter(s, h) /\ a.ancestors = AncestorsAfter(s, h)
             /\ a.epoch_length = EpochLengthAfter(s, h) /\ a.milli_known = TRUE
             /\ a.turn_length = s.turn_length /\ a.validators = s.validators
             /\ a.vote_set = s.vote_set /\ a.prev_vote_set = s.prev_vote_set
             /\ a.set_changed_at = s.set_changed_at /\ a.walk_start = s.walk_start
BY DEF IsSnapshot, Advance

\* Advancing keeps the shape when the new parts have theirs.
LEMMA AdvanceType ==
  ASSUME NEW s, NEW h, IsSnapshot(s), h.number \in Nat, h.hash \in Hash,
         PendingAfter(s, h) \in PendingEpoch \cup {None},
         AttestationAfter(s, h) \in VoteData \cup {None},
         EpochLengthAfter(s, h) \in EpochLengths,
         RecentsAfter(s, h) \in [DOMAIN RecentsAfter(s, h) -> Validator],
         DOMAIN RecentsAfter(s, h) \subseteq Nat,
         AncestorsAfter(s, h) \in [DOMAIN AncestorsAfter(s, h) -> Hash],
         DOMAIN AncestorsAfter(s, h) \subseteq Nat
  PROVE  IsSnapshot(Advance(s, h))
BY AdvanceFields DEF IsSnapshot, Advance

\* So does switching to an announced set.
LEMMA SwitchType ==
  ASSUME NEW s, IsSnapshot(s), NEW p \in PendingEpoch
  PROVE  IsSnapshot(Switch(s, p))
BY DEF IsSnapshot, Switch, PendingEpoch

\* An adopted vote is well formed, newer than what it builds on, and names a block of
\* the walk below the header that carries it.
LEMMA AdoptedVote ==
  ASSUME NEW s, NEW h \in Header, IsSnapshot(s), Accepts(s, h), AttestationAdopted(s, h)
  PROVE  LET data == h.attestation.data
         IN  /\ data \in VoteData
             /\ data.source_number < data.target_number
             /\ data.target_number < h.number
             /\ TargetIsWalked(s, data)
             /\ SourceIsJustified(s, data)
<1>1. h.attestation \in Attestation
  BY DEF AttestationAdopted, AttestationIgnored, Header
<1>2. h.attestation.data \in VoteData
  BY <1>1 DEF Attestation
<1>3. h.attestation.data.target_number <= Monus(h.number, 1)
  BY <1>2 DEF AttestationAdopted, AttestationTargetWindow
<1>4. h.number \in Nat /\ s.number \in Nat /\ h.number = s.number + 1
  BY DEF Header, IsSnapshot, Accepts, ReachesHistory, Links
<1>5. h.attestation.data.target_number \in Nat
  BY <1>2 DEF VoteData
<1>6. h.attestation.data.target_number < h.number
  BY <1>3, <1>4, <1>5 DEF Monus
<1>. QED BY <1>2, <1>6 DEF AttestationAdopted

\* The vote a snapshot holds after a header.
LEMMA AttestationAfterType ==
  ASSUME NEW s, NEW h \in Header, IsSnapshot(s), Accepts(s, h)
  PROVE  AttestationAfter(s, h) \in VoteData \cup {None}
<1>1. CASE ~AttestationAdopted(s, h)
  BY <1>1 DEF AttestationAfter, IsSnapshot
<1>2. CASE AttestationAdopted(s, h)
  <2>. DEFINE data == h.attestation.data
  <2>1. data \in VoteData
    BY <1>2, AdoptedVote
  <2>2. s.attestation \in VoteData \cup {None}
    BY DEF IsSnapshot
  <2>. HIDE DEF data
  <2>3. Adopt(s.attestation, data) \in VoteData
    BY <2>1, <2>2 DEF Adopt, VoteData
  <2>. QED BY <1>2, <2>3 DEF AttestationAfter, data
<1>. QED BY <1>1, <1>2

LEMMA PendingAfterType ==
  ASSUME NEW s, NEW h \in Header, IsSnapshot(s), Accepts(s, h)
  PROVE  PendingAfter(s, h) \in PendingEpoch \cup {None}
<1>1. CASE ~IsEpoch(s, h.number)
  BY <1>1 DEF PendingAfter, IsSnapshot
<1>2. CASE IsEpoch(s, h.number)
  <2>1. h.number \in Nat /\ h.number + Delay(s) \in Nat
    BY DelayIsNat DEF Header
  <2>2. h.validators \in ValidatorSet \ {{}} /\ h.turn_length \in Nat \ {0}
    BY <1>2 DEF Header, Accepts, EpochExtraPresent
  <2>. QED BY <1>2, <2>1, <2>2 DEF PendingAfter, PendingEpoch
<1>. QED BY <1>1, <1>2

LEMMA MapsAfterType ==
  ASSUME NEW s, NEW h \in Header, IsSnapshot(s)
  PROVE  /\ RecentsAfter(s, h) \in [DOMAIN RecentsAfter(s, h) -> Validator]
         /\ DOMAIN RecentsAfter(s, h) \subseteq Nat
         /\ AncestorsAfter(s, h) \in [DOMAIN AncestorsAfter(s, h) -> Hash]
         /\ DOMAIN AncestorsAfter(s, h) \subseteq Nat
<1>1. h.number \in Nat /\ h.signer \in Validator /\ h.hash \in Hash
  BY DEF Header
<1>2. /\ s.recents \in [DOMAIN s.recents -> Validator] /\ DOMAIN s.recents \subseteq Nat
      /\ s.ancestors \in [DOMAIN s.ancestors -> Hash] /\ DOMAIN s.ancestors \subseteq Nat
  BY DEF IsSnapshot
<1>3. /\ RecentsAfter(s, h) \in [DOMAIN RecentsAfter(s, h) -> Validator]
      /\ DOMAIN RecentsAfter(s, h) \subseteq Nat
  BY <1>1, <1>2 DEF RecentsAfter
<1>4. /\ AncestorsAfter(s, h) \in [DOMAIN AncestorsAfter(s, h) -> Hash]
      /\ DOMAIN AncestorsAfter(s, h) \subseteq Nat
  BY <1>1, <1>2 DEF AncestorsAfter
<1>. QED BY <1>3, <1>4

\* An accepted header leaves a snapshot of the right shape.
LEMMA ApplyType ==
  ASSUME NEW s, NEW h \in Header, IsSnapshot(s), Accepts(s, h)
  PROVE  IsSnapshot(Apply(s, h))
<1>1. EpochLengthAfter(s, h) \in EpochLengths
  BY DEF EpochLengthAfter, EpochLengths, IsSnapshot
<1>2. IsSnapshot(Advance(s, h))
  <2>1. h.number \in Nat /\ h.hash \in Hash
    BY DEF Header
  <2>. QED BY <1>1, <2>1, AdvanceType, PendingAfterType, AttestationAfterType, MapsAfterType
<1>3. SwitchDue(s, h) => PendingAfter(s, h) \in PendingEpoch
  BY PendingAfterType DEF SwitchDue
<1>. QED BY <1>2, <1>3, SwitchType DEF Apply

-----------------------------------------------------------------------------
(* The type invariant. *)

\* The snapshot keeps the shape the struct promises, whatever checkpoint it starts from
\* and whatever headers it is offered: in particular the sealing set is never empty.
THEOREM TypeCorrect == WalkSpec => []TypeOK
<1>1. WalkInit => TypeOK
  BY CheckpointsSeeded, SeededType DEF WalkInit, TypeOK
<1>2. TypeOK /\ [WalkNext]_walkVars => TypeOK'
  <2>. SUFFICES ASSUME TypeOK, [WalkNext]_walkVars
                PROVE  TypeOK'
    OBVIOUS
  <2>1. CASE UNCHANGED walkVars
    BY <2>1 DEF walkVars, TypeOK
  <2>2. ASSUME NEW h \in Offered(snap), h \in Header, AcceptHeader(h)
        PROVE  TypeOK'
    BY <2>2, ApplyType DEF AcceptHeader, TypeOK
  <2>3. ASSUME NEW h \in Offered(snap), h \in Header, RefuseHeader(h)
        PROVE  TypeOK'
    BY <2>3, ForgetType DEF RefuseHeader, Refuse, TypeOK
  <2>. QED BY <2>1, <2>2, <2>3 DEF WalkNext
<1>. QED BY <1>1, <1>2, PTL DEF WalkSpec

-----------------------------------------------------------------------------
(* Fast finality. *)

\* The hashes the snapshot compares votes with are the hashes of the blocks it walked.
AncestorsOnWalk ==
  /\ DOMAIN history \subseteq 0 .. snap.number
  /\ DOMAIN snap.ancestors \subseteq 0 .. snap.number
  /\ \A b \in DOMAIN snap.ancestors \cap DOMAIN history : snap.ancestors[b] = history[b].hash

\* The inductive invariant under the two theorems on finality.
WalkInv == TypeOK /\ AncestorsOnWalk /\ JustifiedIsWalked

\* The fields of the snapshot an accepted header leaves, the ones a switch of the
\* sealing set does not touch.
LEMMA ApplyFields ==
  ASSUME NEW s, NEW h \in Header, IsSnapshot(s), Accepts(s, h)
  PROVE  LET a == Apply(s, h)
         IN  /\ a.number = h.number /\ a.hash = h.hash
             /\ a.attestation = AttestationAfter(s, h)
             /\ a.ancestors = AncestorsAfter(s, h)
             /\ h.number = s.number + 1
<1>1. h.number = s.number + 1
  BY DEF Accepts, ReachesHistory, Links
<1>. DEFINE a == Advance(s, h)
            b == Switch(a, PendingAfter(s, h))
            c == Apply(s, h)
<1>2. /\ a.number = h.number /\ a.hash = h.hash
      /\ a.attestation = AttestationAfter(s, h) /\ a.ancestors = AncestorsAfter(s, h)
  BY ONLY IsSnapshot(s), AdvanceFields, ZenonT(60)
<1>3. /\ b.number = a.number /\ b.hash = a.hash
      /\ b.attestation = a.attestation /\ b.ancestors = a.ancestors
  BY DEF Switch, Advance, IsSnapshot
<1>4. c = a \/ c = b
  BY DEF Apply
<1>. HIDE DEF a, b, c
<1>5. /\ c.number = h.number /\ c.hash = h.hash
      /\ c.attestation = AttestationAfter(s, h) /\ c.ancestors = AncestorsAfter(s, h)
  BY ONLY <1>2, <1>3, <1>4
<1>. QED BY <1>1, <1>5 DEF c

\* What a header does to the vote: nothing, or the adoption of its own.
LEMMA AttestationStep ==
  ASSUME NEW s, NEW h \in Header, IsSnapshot(s), Accepts(s, h)
  PROVE  \/ AttestationAfter(s, h) = s.attestation
         \/ /\ AttestationAdopted(s, h)
            /\ AttestationAfter(s, h) \in VoteData
            /\ AttestationAfter(s, h).target_number = h.attestation.data.target_number
            /\ AttestationAfter(s, h).target_hash = h.attestation.data.target_hash
            /\ \/ AttestationAfter(s, h) = h.attestation.data
               \/ /\ s.attestation # None
                  /\ AttestationAfter(s, h).source_number = s.attestation.source_number
                  /\ AttestationAfter(s, h).source_hash = s.attestation.source_hash
<1>1. CASE ~AttestationAdopted(s, h)
  BY <1>1 DEF AttestationAfter
<1>2. CASE AttestationAdopted(s, h)
  <2>1. h.attestation.data \in VoteData
    BY <1>2, AdoptedVote
  <2>2. s.attestation \in VoteData \cup {None}
    BY DEF IsSnapshot
  <2>3. AttestationAfter(s, h) = Adopt(s.attestation, h.attestation.data)
    BY <1>2 DEF AttestationAfter
  <2>. QED BY <1>2, <2>1, <2>2, <2>3 DEF Adopt, VoteData
<1>. QED BY <1>1, <1>2

\* Refusing a header touches recents only.
LEMMA RefuseFields ==
  ASSUME NEW s, NEW h, IsSnapshot(s)
  PROVE  LET r == Refuse(s, h)
         IN  /\ r.number = s.number /\ r.attestation = s.attestation
             /\ r.ancestors = s.ancestors
BY DEF IsSnapshot, Refuse, Forget

\* An accepted header preserves the facts about hashes and the justified block.
LEMMA AcceptPreserves ==
  ASSUME WalkInv, NEW h \in Header, AcceptHeader(h)
  PROVE  (AncestorsOnWalk /\ JustifiedIsWalked)'
<1>. DEFINE n == snap.number
            att == AttestationAfter(snap, h)
<1>1. IsSnapshot(snap) /\ Accepts(snap, h)
  BY DEF WalkInv, TypeOK, AcceptHeader
<1>2. /\ snap'.number = h.number /\ snap'.attestation = att
      /\ snap'.ancestors = AncestorsAfter(snap, h) /\ h.number = n + 1
  BY <1>1, ApplyFields DEF AcceptHeader
<1>3. n \in Nat /\ Horizon \in Nat /\ K_ANCESTOR_GENERATION_DEPTH \in Nat \ {0}
  BY <1>1, WalkConstants, SnapshotConstants DEF IsSnapshot
<1>4. /\ DOMAIN history' \subseteq DOMAIN history \cup {n + 1}
      /\ \A b \in DOMAIN history' \ {n + 1} : history'[b] = history[b]
      /\ n + 1 \in DOMAIN history' => history'[n + 1].hash = h.hash
  BY <1>2 DEF AcceptHeader, Remember
<1>5. /\ DOMAIN snap'.ancestors \subseteq DOMAIN snap.ancestors \cup {n + 1}
      /\ \A b \in DOMAIN snap'.ancestors \ {n + 1} : snap'.ancestors[b] = snap.ancestors[b]
      /\ n + 1 \in DOMAIN snap'.ancestors => snap'.ancestors[n + 1] = h.hash
  BY <1>2 DEF AncestorsAfter
<1>6. AncestorsOnWalk'
  BY <1>2, <1>3, <1>4, <1>5 DEF WalkInv, AncestorsOnWalk
<1>7. JustifiedIsWalked'
  <2>1. att \in VoteData \cup {None} /\ snap.attestation \in VoteData \cup {None}
    BY <1>1, AttestationAfterType DEF IsSnapshot
  <2>2. CASE att = snap.attestation
    BY <1>2, <1>3, <1>4, <2>1, <2>2 DEF WalkInv, JustifiedIsWalked, VoteData
  <2>3. CASE att # snap.attestation
    <3>. DEFINE data == h.attestation.data
    <3>1. /\ AttestationAdopted(snap, h)
          /\ att.target_number = data.target_number /\ att.target_hash = data.target_hash
          /\ \/ att = data
             \/ /\ snap.attestation # None
                /\ att.source_number = snap.attestation.source_number
      BY <1>1, <2>3, AttestationStep
    <3>2. /\ data \in VoteData /\ data.source_number < data.target_number
          /\ data.target_number < h.number /\ TargetIsWalked(snap, data)
          /\ SourceIsJustified(snap, data)
      BY <1>1, <3>1, AdoptedVote
    <3>. HIDE DEF data
    <3>3. att.source_number < att.target_number
      <4>1. CASE att = data
        BY <3>2, <4>1
      <4>2. CASE snap.attestation # None /\ att.source_number = snap.attestation.source_number
        <5>1. /\ snap.attestation.source_number < snap.attestation.target_number
              /\ data.source_number = snap.attestation.target_number
          BY <3>2, <4>2 DEF WalkInv, JustifiedIsWalked, SourceIsJustified
        <5>. QED BY <2>1, <3>1, <3>2, <4>2, <5>1 DEF VoteData
      <4>. QED BY <3>1, <4>1, <4>2
    <3>4. att.target_number < n + 1 /\ att.target_number \in Nat
      BY <1>2, <3>1, <3>2 DEF VoteData
    <3>5. att.target_number \in DOMAIN history' =>
            att.target_hash = history'[att.target_number].hash
      BY <1>3, <1>4, <3>1, <3>2, <3>4 DEF TargetIsWalked, WalkInv, AncestorsOnWalk
    <3>. QED BY <1>2, <3>3, <3>4, <3>5 DEF JustifiedIsWalked
  <2>. QED BY <2>2, <2>3
<1>. QED BY <1>6, <1>7

\* WalkInv is inductive.
LEMMA WalkInvStep == WalkInv /\ TypeOK' /\ [WalkNext]_walkVars => WalkInv'
<1>. SUFFICES ASSUME WalkInv, TypeOK', [WalkNext]_walkVars
              PROVE  (AncestorsOnWalk /\ JustifiedIsWalked)'
  BY DEF WalkInv
<1>1. CASE UNCHANGED walkVars
  BY <1>1 DEF walkVars, WalkInv, AncestorsOnWalk, JustifiedIsWalked
<1>2. ASSUME NEW h \in Offered(snap), h \in Header, AcceptHeader(h)
      PROVE  (AncestorsOnWalk /\ JustifiedIsWalked)'
  BY <1>2, AcceptPreserves
<1>3. ASSUME NEW h \in Offered(snap), h \in Header, RefuseHeader(h)
      PROVE  (AncestorsOnWalk /\ JustifiedIsWalked)'
  <2>1. /\ snap'.number = snap.number /\ snap'.attestation = snap.attestation
        /\ snap'.ancestors = snap.ancestors /\ history' = history
    BY <1>3, RefuseFields DEF RefuseHeader, WalkInv, TypeOK
  <2>. QED BY <2>1 DEF WalkInv, AncestorsOnWalk, JustifiedIsWalked
<1>. QED BY <1>1, <1>2, <1>3 DEF WalkNext

LEMMA WalkInvInit == WalkInit => WalkInv
<1>. SUFFICES ASSUME WalkInit PROVE WalkInv
  OBVIOUS
<1>1. Seeded(snap) /\ IsSnapshot(snap)
  BY CheckpointsSeeded, SeededType DEF WalkInit
<1>2. snap.attestation = None /\ snap.ancestors = [b \in {snap.number} |-> snap.hash]
  BY <1>1 DEF Seeded, FromCheckpoint
<1>3. snap.number \in Nat
  BY <1>1 DEF Seeded
<1>. QED BY <1>1, <1>2, <1>3 DEF WalkInit, WalkInv, TypeOK, AncestorsOnWalk, JustifiedIsWalked

\* The block the client calls justified is always one it verified itself, and the
\* finalized block lies below it: no vote can name a block off the walk.
THEOREM JustifiedOnWalk == WalkSpec => []JustifiedIsWalked
<1>1. WalkInv => JustifiedIsWalked
  BY DEF WalkInv
<1>. QED BY <1>1, WalkInvInit, WalkInvStep, TypeCorrect, PTL DEF WalkSpec

\* Finality never goes back, and only ever moves onto the block that was justified
\* before, for every upstream and across every switch of the sealing set.
THEOREM FinalityNeverRegresses == WalkSpec => FinalityAdvances
<1>1. WalkInv /\ TypeOK' /\ [WalkNext]_walkVars => [FinalityStep]_walkVars
  <2>. SUFFICES ASSUME WalkInv, WalkNext, snap.attestation # None
                PROVE  FinalityStep
    BY DEF FinalityStep
  <2>1. IsSnapshot(snap) /\ snap.attestation \in VoteData
    BY DEF WalkInv, TypeOK, IsSnapshot
  <2>2. ASSUME NEW h \in Offered(snap), h \in Header, AcceptHeader(h)
        PROVE  FinalityStep
    <3>. DEFINE att == AttestationAfter(snap, h)
                data == h.attestation.data
    <3>1. snap'.attestation = att /\ Accepts(snap, h)
      BY <2>1, <2>2, ApplyFields DEF AcceptHeader
    <3>2. CASE att = snap.attestation
      BY <2>1, <3>1, <3>2 DEF FinalityStep, JustifiedNumber, VoteData
    <3>3. CASE att # snap.attestation
      <4>1. AttestationAdopted(snap, h) /\ att \in VoteData
        BY <2>1, <2>2, <3>1, <3>3, AttestationStep
      <4>2. /\ data \in VoteData /\ data.source_number < data.target_number
            /\ data.source_number = snap.attestation.target_number
            /\ data.source_hash = snap.attestation.target_hash
        BY <2>1, <2>2, <3>1, <4>1, AdoptedVote DEF SourceIsJustified
      <4>3. att = Adopt(snap.attestation, data)
        BY <4>1 DEF AttestationAfter
      <4>. HIDE DEF data, att
      <4>4. CASE data.source_number + 1 = data.target_number
        BY <2>1, <3>1, <4>1, <4>2, <4>3, <4>4, NoneIsNoRecord
           DEF Adopt, FinalityStep, JustifiedNumber, VoteData
      <4>5. CASE data.source_number + 1 # data.target_number
        <5>1. /\ att.source_number = snap.attestation.source_number
              /\ att.source_hash = snap.attestation.source_hash
              /\ att.target_number = data.target_number
          BY <2>1, <4>3, <4>5 DEF Adopt, VoteData
        <5>. QED BY <2>1, <3>1, <4>1, <4>2, <5>1, NoneIsNoRecord
                 DEF FinalityStep, JustifiedNumber, VoteData
      <4>. QED BY <4>4, <4>5
    <3>. QED BY <3>2, <3>3
  <2>3. ASSUME NEW h \in Offered(snap), h \in Header, RefuseHeader(h)
        PROVE  FinalityStep
    <3>1. snap'.attestation = snap.attestation
      BY <2>1, <2>3, RefuseFields DEF RefuseHeader
    <3>. QED BY <2>1, <3>1 DEF FinalityStep, JustifiedNumber, VoteData
  <2>. QED BY <2>2, <2>3 DEF WalkNext
<1>. QED BY <1>1, WalkInvInit, WalkInvStep, TypeCorrect, PTL DEF WalkSpec, FinalityAdvances

-----------------------------------------------------------------------------
(* Switches of the sealing set. *)

\* A header that brings no switch leaves the sets alone.
LEMMA ApplyKeeps ==
  ASSUME NEW s, NEW h \in Header, IsSnapshot(s), Accepts(s, h), ~SwitchDue(s, h)
  PROVE  LET a == Apply(s, h)
         IN  /\ a.pending = PendingAfter(s, h) /\ a.recents = RecentsAfter(s, h)
             /\ a.turn_length = s.turn_length /\ a.validators = s.validators
             /\ a.vote_set = s.vote_set /\ a.prev_vote_set = s.prev_vote_set
             /\ a.set_changed_at = s.set_changed_at /\ a.walk_start = s.walk_start
             /\ a.epoch_length = EpochLengthAfter(s, h) /\ Delay(a) = Delay(s)
<1>. DEFINE b == Advance(s, h)
            c == Apply(s, h)
<1>1. c = b
  BY DEF Apply
<1>2. /\ b.pending = PendingAfter(s, h) /\ b.recents = RecentsAfter(s, h)
      /\ b.turn_length = s.turn_length /\ b.validators = s.validators
      /\ b.vote_set = s.vote_set /\ b.prev_vote_set = s.prev_vote_set
      /\ b.set_changed_at = s.set_changed_at /\ b.walk_start = s.walk_start
      /\ b.epoch_length = EpochLengthAfter(s, h)
  BY ONLY IsSnapshot(s), AdvanceFields, ZenonT(60)
<1>. HIDE DEF b
<1>3. Delay(b) = Delay(s)
  BY ONLY <1>2 DEF Delay
<1>. HIDE DEF c
<1>. QED BY ONLY <1>1, <1>2, <1>3 DEF c

\* A header that brings a switch installs the announced set and starts a new history.
LEMMA ApplySwitches ==
  ASSUME NEW s, NEW h \in Header, IsSnapshot(s), Accepts(s, h), SwitchDue(s, h)
  PROVE  LET a == Apply(s, h)
         IN  /\ a.pending = None /\ a.recents = [b \in {} |-> 0]
             /\ a.vote_set = PendingAfter(s, h).validators /\ a.prev_vote_set = s.vote_set
             /\ a.set_changed_at = h.number /\ a.walk_start = s.walk_start
             /\ a.epoch_length = EpochLengthAfter(s, h)
<1>. DEFINE a == Advance(s, h)
            b == Switch(a, PendingAfter(s, h))
<1>1. /\ b.pending = None /\ b.recents = [c \in {} |-> 0]
      /\ b.vote_set = PendingAfter(s, h).validators /\ b.prev_vote_set = a.vote_set
      /\ b.set_changed_at = a.number /\ b.walk_start = a.walk_start
      /\ b.epoch_length = a.epoch_length
  BY DEF Switch, Advance, IsSnapshot
<1>2. /\ a.number = h.number /\ a.vote_set = s.vote_set /\ a.walk_start = s.walk_start
      /\ a.epoch_length = EpochLengthAfter(s, h)
  BY ONLY IsSnapshot(s), AdvanceFields, ZenonT(60)
<1>3. Apply(s, h) = b
  BY DEF Apply
<1>. HIDE DEF a, b
<1>. QED BY ONLY <1>1, <1>2, <1>3

\* What a refused header leaves alone.
LEMMA RefuseKeeps ==
  ASSUME NEW s, NEW h, IsSnapshot(s)
  PROVE  LET r == Refuse(s, h)
         IN  /\ r.number = s.number /\ r.pending = s.pending
             /\ r.turn_length = s.turn_length /\ r.validators = s.validators
             /\ r.vote_set = s.vote_set /\ r.prev_vote_set = s.prev_vote_set
             /\ r.set_changed_at = s.set_changed_at /\ r.walk_start = s.walk_start
             /\ r.epoch_length = s.epoch_length /\ r.attestation = s.attestation
             /\ Delay(r) = Delay(s)
BY DEF IsSnapshot, Refuse, Forget, Delay

\* Where a block is in its epoch follows from where its parent is.
LEMMA NextInEpoch ==
  ASSUME NEW n \in Nat, NEW k \in Nat \ {0}
  PROVE  /\ (n + 1) % k # 0 => (n + 1) - ((n + 1) % k) = n - (n % k)
         /\ n % k \in 0 .. k - 1
         /\ n - (n % k) \in 0 .. n
<1>1. n % k \in 0 .. k - 1 /\ (n + 1) % k \in 0 .. k - 1
  OBVIOUS
<1>2. n = k * (n \div k) + (n % k) /\ n \div k \in Nat
  OBVIOUS
<1>3. n + 1 = k * ((n + 1) \div k) + ((n + 1) % k) /\ (n + 1) \div k \in Nat
  OBVIOUS
<1>. DEFINE q == n \div k
            r == n % k
            p == (n + 1) \div k
            t == (n + 1) % k
<1>. HIDE DEF q, r, p, t
<1>4. /\ q \in Nat /\ p \in Nat /\ r \in 0 .. k - 1 /\ t \in 0 .. k - 1
      /\ n = k * q + r /\ n + 1 = k * p + t
  BY <1>1, <1>2, <1>3 DEF q, r, p, t
<1>5. k * (p - q) = r + 1 - t
  BY <1>4
<1>6. t # 0 => p = q
  <2>1. p - q >= 1 => k * (p - q) >= k
    BY <1>4
  <2>2. p - q <= -1 => k * (p - q) <= -k
    BY <1>4
  <2>. QED BY <1>4, <1>5, <2>1, <2>2
<1>7. t # 0 => (n + 1) - t = n - r
  BY <1>4, <1>6
<1>8. n - r \in 0 .. n
  <2>1. k * q \in Nat
    BY <1>4
  <2>. QED BY <1>4, <2>1
<1>. QED BY <1>1, <1>7, <1>8 DEF r, t

\* The epoch length changes only under a block that is an epoch block by the new length.
LEMMA EpochLengthStep ==
  ASSUME NEW s, NEW h
  PROVE  \/ EpochLengthAfter(s, h) = s.epoch_length
         \/ (h.number + 1) % EpochLengthAfter(s, h) = 0
BY DEF EpochLengthAfter

\* The switch the snapshot holds is the one of the epoch it is in, and in an epoch whose
\* first block it has walked it holds one until the switch is made.
PendingOnSchedule ==
  /\ snap.set_changed_at <= snap.number
  /\ snap.walk_start <= snap.number + 1
  /\ snap.pending # None =>
       /\ snap.pending.epoch_block \in snap.walk_start .. snap.number
       /\ snap.set_changed_at < snap.pending.epoch_block
       /\ snap.pending.activate_at = snap.pending.epoch_block + Delay(snap)
       /\ (snap.number + 1) % snap.epoch_length # 0 =>
            snap.pending.epoch_block = EpochStart(snap.number)
  /\ /\ (snap.number + 1) % snap.epoch_length # 0
     /\ snap.walk_start <= EpochStart(snap.number)
     /\ snap.set_changed_at < EpochStart(snap.number)
     => snap.pending # None

\* The inductive invariant under the theorems on switches.
ScheduleInv == TypeOK /\ PendingOnSchedule

\* The numbers a well-formed snapshot is made of.
LEMMA SnapshotNumbers ==
  ASSUME NEW s, IsSnapshot(s)
  PROVE  /\ s.number \in Nat /\ s.set_changed_at \in Nat /\ s.walk_start \in Nat
         /\ s.epoch_length \in Nat \ {0} /\ s.turn_length \in Nat \ {0} /\ Delay(s) \in Nat
         /\ s.pending # None => s.pending.epoch_block \in Nat /\ s.pending.activate_at \in Nat
BY DelayIsNat, SnapshotConstants DEF IsSnapshot, EpochLengths, PendingEpoch

\* A switch is made by exactly the headers the schedule names.
LEMMA SwitchIsScheduled ==
  ASSUME ScheduleInv, NEW h \in Header, Accepts(snap, h)
  PROVE  SwitchDue(snap, h) <=> SwitchScheduled(h.number)
<1>. DEFINE n == snap.number
            k == snap.epoch_length
            d == Delay(snap)
<1>1. /\ n \in Nat /\ k \in Nat \ {0} /\ d \in Nat /\ h.number = n + 1
      /\ snap.set_changed_at \in Nat /\ snap.walk_start \in Nat
      /\ snap.pending # None => snap.pending.epoch_block \in Nat
  BY SnapshotNumbers, ApplyFields DEF ScheduleInv, TypeOK
<1>2. /\ snap.set_changed_at <= n /\ snap.walk_start <= n + 1
  BY DEF ScheduleInv, PendingOnSchedule
<1>3. CASE (n + 1) % k = 0
  <2>. DEFINE p == [epoch_block |-> n + 1, activate_at |-> n + 1 + d,
                    validators |-> h.validators, turn_length |-> h.turn_length]
  <2>1. PendingAfter(snap, h) = p
    BY <1>1, <1>3 DEF PendingAfter, IsEpoch
  <2>2. PendingAfter(snap, h) \in PendingEpoch \cup {None}
    BY PendingAfterType DEF ScheduleInv, TypeOK
  <2>3. p # None
    <3>1. h.validators \in ValidatorSet \ {{}} /\ h.turn_length \in Nat \ {0}
      BY <1>1, <1>3 DEF Header, Accepts, EpochExtraPresent, IsEpoch
    <3>2. p \in PendingEpoch
      BY <1>1, <3>1 DEF PendingEpoch
    <3>. QED BY <3>2, NoneIsNoRecord
  <2>4. SwitchDue(snap, h) <=> d = 0
    BY <1>1, <2>1, <2>3 DEF SwitchDue
  <2>5. SwitchScheduled(n + 1) <=> d = 0
    BY <1>1, <1>2, <1>3 DEF SwitchScheduled, EpochStart
  <2>. QED BY <1>1, <2>4, <2>5
<1>4. CASE (n + 1) % k # 0
  <2>1. PendingAfter(snap, h) = snap.pending
    BY <1>1, <1>4 DEF PendingAfter, IsEpoch
  <2>. DEFINE e == EpochStart(n)
  <2>2. EpochStart(n + 1) = e /\ e \in Nat /\ (n + 1) % k = n + 1 - e
    <3>1. EpochStart(n + 1) = (n + 1) - ((n + 1) % k) /\ EpochStart(n) = n - (n % k)
      BY Zenon DEF EpochStart
    <3>2. (n + 1) - ((n + 1) % k) = n - (n % k) /\ n - (n % k) \in 0 .. n
      BY <1>1, <1>4, NextInEpoch
    <3>3. (n + 1) % k \in Nat
      BY <1>1
    <3>. HIDE DEF n, k
    <3>. QED BY <1>1, <3>1, <3>2, <3>3 DEF e
  <2>3. /\ snap.pending # None => /\ snap.pending.activate_at = e + d
                                  /\ snap.walk_start <= e /\ snap.set_changed_at < e
        /\ snap.walk_start <= e /\ snap.set_changed_at < e => snap.pending # None
    BY <1>1, <1>4 DEF ScheduleInv, PendingOnSchedule
  <2>. HIDE DEF e
  <2>4. SwitchDue(snap, h) <=> snap.pending # None /\ e + d = n + 1
    BY <1>1, <2>1, <2>3 DEF SwitchDue
  <2>5. SwitchScheduled(n + 1) <=>
          n + 1 - e = d /\ snap.walk_start <= e /\ snap.set_changed_at < e
    BY <2>2 DEF SwitchScheduled
  <2>. QED BY <1>1, <2>2, <2>3, <2>4, <2>5
<1>. QED BY <1>3, <1>4

LEMMA ScheduleInvStep == ScheduleInv /\ TypeOK' /\ [WalkNext]_walkVars => ScheduleInv'
<1>. SUFFICES ASSUME ScheduleInv, TypeOK', [WalkNext]_walkVars
              PROVE  PendingOnSchedule'
  BY DEF ScheduleInv
<1>1. CASE UNCHANGED walkVars
  BY <1>1 DEF walkVars, ScheduleInv, PendingOnSchedule, EpochStart, Delay
<1>2. ASSUME NEW h \in Offered(snap), h \in Header, RefuseHeader(h)
      PROVE  PendingOnSchedule'
  <2>1. /\ snap'.number = snap.number /\ snap'.pending = snap.pending
        /\ snap'.set_changed_at = snap.set_changed_at /\ snap'.walk_start = snap.walk_start
        /\ snap'.epoch_length = snap.epoch_length /\ Delay(snap)' = Delay(snap)
    BY <1>2, RefuseKeeps DEF RefuseHeader, ScheduleInv, TypeOK, Delay
  <2>. QED BY <2>1 DEF ScheduleInv, PendingOnSchedule, EpochStart
<1>3. ASSUME NEW h \in Offered(snap), h \in Header, AcceptHeader(h)
      PROVE  PendingOnSchedule'
  <2>. DEFINE n == snap.number
              k == snap.epoch_length
  <2>1. /\ IsSnapshot(snap) /\ Accepts(snap, h) /\ snap' = Apply(snap, h) /\ IsSnapshot(snap')
    BY <1>3 DEF AcceptHeader, ScheduleInv, TypeOK
  <2>2. snap'.number = n + 1 /\ h.number = n + 1
    BY <1>3, <2>1, ApplyFields
  <2>3. /\ n \in Nat /\ k \in Nat \ {0} /\ snap.set_changed_at \in Nat /\ snap.walk_start \in Nat
        /\ snap.set_changed_at <= n /\ snap.walk_start <= n + 1 /\ Delay(snap) \in Nat
        /\ snap'.epoch_length \in Nat \ {0}
    BY <2>1, SnapshotNumbers DEF ScheduleInv, PendingOnSchedule
  <2>4. CASE SwitchDue(snap, h)
    <3>1. /\ snap'.pending = None /\ snap'.set_changed_at = n + 1
          /\ snap'.walk_start = snap.walk_start
      BY <1>3, <2>1, <2>2, <2>4, ApplySwitches
    <3>2. EpochStart(snap.number)' \in 0 .. snap'.number
      <4>1. snap'.number \in Nat
        BY <2>2, <2>3
      <4>. QED BY <2>3, <4>1, NextInEpoch DEF EpochStart
    <3>. QED BY <2>2, <2>3, <3>1, <3>2 DEF PendingOnSchedule
  <2>5. CASE ~SwitchDue(snap, h)
    <3>1. /\ snap'.pending = PendingAfter(snap, h) /\ snap'.walk_start = snap.walk_start
          /\ snap'.set_changed_at = snap.set_changed_at
          /\ snap'.epoch_length = EpochLengthAfter(snap, h) /\ Delay(snap)' = Delay(snap)
      BY <1>3, <2>1, <2>5, ApplyKeeps DEF Delay
    <3>2. snap'.epoch_length = k \/ (n + 2) % snap'.epoch_length = 0
      BY <2>2, <2>3, <3>1, EpochLengthStep
    <3>3. n + 1 + 1 = n + 2
      BY <2>3
    <3>4. CASE (n + 1) % k = 0
      <4>1. PendingAfter(snap, h) = [epoch_block |-> n + 1, activate_at |-> n + 1 + Delay(snap),
                                     validators |-> h.validators, turn_length |-> h.turn_length]
        BY <2>2, <3>4 DEF PendingAfter, IsEpoch
      <4>2. h.validators \in ValidatorSet \ {{}} /\ h.turn_length \in Nat \ {0}
        BY <1>3, <2>1, <2>2, <3>4 DEF Header, Accepts, EpochExtraPresent, IsEpoch
      <4>3. PendingAfter(snap, h) # None
        <5>1. PendingAfter(snap, h) \in PendingEpoch
          BY <2>3, <4>1, <4>2 DEF PendingEpoch
        <5>. QED BY <5>1, NoneIsNoRecord
      <4>4. /\ snap'.pending.epoch_block = n + 1 /\ snap'.pending.activate_at = n + 1 + Delay(snap)
            /\ snap'.pending # None
        BY <3>1, <4>1, <4>3
      <4>5. (snap'.number + 1) % snap'.epoch_length # 0 => EpochStart(snap.number)' = n + 1
        BY <2>2, <2>3, <3>2, <3>3, <3>4 DEF EpochStart
      <4>. QED BY <2>2, <2>3, <3>1, <4>4, <4>5 DEF PendingOnSchedule
    <3>5. CASE (n + 1) % k # 0
      <4>1. snap'.pending = snap.pending
        BY <2>2, <3>1, <3>5 DEF PendingAfter, IsEpoch
      <4>2. (snap'.number + 1) % snap'.epoch_length # 0 =>
              EpochStart(snap.number)' = EpochStart(snap.number)
        BY <2>2, <2>3, <3>2, <3>3, <3>5, NextInEpoch DEF EpochStart
      <4>3. snap.pending # None => snap.pending.epoch_block \in Nat
        BY <2>1, SnapshotNumbers
      <4>. QED BY <2>2, <2>3, <3>1, <3>5, <4>1, <4>2, <4>3 DEF ScheduleInv, PendingOnSchedule
    <3>. QED BY <3>4, <3>5
  <2>. QED BY <2>4, <2>5
<1>. QED BY <1>1, <1>2, <1>3 DEF WalkNext

LEMMA ScheduleInvInit == WalkInit => ScheduleInv
<1>. SUFFICES ASSUME WalkInit PROVE ScheduleInv
  OBVIOUS
<1>1. Seeded(snap) /\ IsSnapshot(snap)
  BY CheckpointsSeeded, SeededType DEF WalkInit
<1>2. /\ snap.pending = None /\ snap.set_changed_at = 0 /\ snap.walk_start = snap.number + 1
  BY <1>1 DEF Seeded, FromCheckpoint
<1>3. snap.number \in Nat /\ EpochStart(snap.number) \in 0 .. snap.number
  BY <1>1, SnapshotNumbers, NextInEpoch DEF EpochStart
<1>. QED BY <1>1, <1>2, <1>3 DEF ScheduleInv, TypeOK, PendingOnSchedule

\* For every sequence of sets, sizes, turn lengths and fork-time changes of the epoch
\* length, the client switches at exactly the blocks Parlia's own rule names, although it
\* fixes the height when it reads the epoch header (Snapshot::apply_header).
THEOREM SwitchesOnSchedule == WalkSpec => ActivationOnSchedule
<1>. DEFINE OnSchedule == snap'.number # snap.number =>
              (snap'.set_changed_at = snap'.number <=> SwitchScheduled(snap'.number))
<1>1. ScheduleInv /\ TypeOK' /\ [WalkNext]_walkVars => [OnSchedule]_walkVars
  <2>. SUFFICES ASSUME ScheduleInv, TypeOK', WalkNext, snap'.number # snap.number
                PROVE  snap'.set_changed_at = snap'.number <=> SwitchScheduled(snap'.number)
    OBVIOUS
  <2>1. IsSnapshot(snap)
    BY DEF ScheduleInv, TypeOK
  <2>2. PICK h \in Offered(snap) : h \in Header /\ AcceptHeader(h)
    BY <2>1, RefuseKeeps DEF WalkNext, RefuseHeader
  <2>3. /\ Accepts(snap, h) /\ snap' = Apply(snap, h)
        /\ snap'.number = h.number /\ h.number = snap.number + 1
    BY <2>1, <2>2, ApplyFields DEF AcceptHeader
  <2>4. SwitchDue(snap, h) => snap'.set_changed_at = h.number
    BY <2>1, <2>2, <2>3, ApplySwitches
  <2>5. ~SwitchDue(snap, h) => snap'.set_changed_at = snap.set_changed_at
    BY <2>1, <2>2, <2>3, ApplyKeeps
  <2>6. snap.set_changed_at <= snap.number /\ snap.number \in Nat /\ snap.set_changed_at \in Nat
    BY <2>1, SnapshotNumbers DEF ScheduleInv, PendingOnSchedule
  <2>7. SwitchDue(snap, h) <=> SwitchScheduled(h.number)
    BY <2>2, <2>3, SwitchIsScheduled
  <2>. QED BY <2>3, <2>4, <2>5, <2>6, <2>7
<1>. QED BY <1>1, ScheduleInvInit, ScheduleInvStep, TypeCorrect, PTL DEF WalkSpec, ActivationOnSchedule

-----------------------------------------------------------------------------
(* Quorums. *)

\* In a set of addresses, a higher one has a higher rank.
LEMMA RankGrows ==
  ASSUME NEW S \in ValidatorSet, NEW v \in S, NEW w \in S, v < w
  PROVE  Rank(S, v) < Rank(S, w)
<1>. DEFINE A == {x \in S : x < v}
            B == {x \in S : x < w}
<1>1. IsFiniteSet(S) /\ S \subseteq Nat
  BY FS_Subset, SnapshotConstants DEF ValidatorSet
<1>2. IsFiniteSet(B) /\ A \in SUBSET B /\ v \in B /\ v \notin A
  <2>1. B \in SUBSET S
    OBVIOUS
  <2>2. IsFiniteSet(B)
    BY <1>1, <2>1, FS_Subset
  <2>3. v \in Nat /\ w \in Nat /\ \A x \in S : x \in Nat
    BY <1>1
  <2>4. \A x \in S : x < v => x < w
    BY <2>3
  <2>5. A \in SUBSET B
    BY <2>4
  <2>. QED BY <2>2, <2>3, <2>5
<1>. HIDE DEF A, B
<1>3. IsFiniteSet(A) /\ Cardinality(A) <= Cardinality(B) /\ Cardinality(A) # Cardinality(B)
  BY <1>2, FS_Subset
<1>4. Cardinality(A) \in Nat /\ Cardinality(B) \in Nat
  BY <1>2, <1>3, FS_CardinalityType
<1>5. Cardinality(A) < Cardinality(B)
  BY <1>3, <1>4
<1>. QED BY <1>5 DEF Rank, A, B

\* Every rank below the size of a set belongs to one of its members.
LEMMA RankIsOnto ==
  ASSUME NEW S \in ValidatorSet, NEW i \in 0 .. Cardinality(S) - 1
  PROVE  AtRank(S, i) \in S /\ Rank(S, AtRank(S, i)) = i
<1>. DEFINE n == Cardinality(S)
            f == [v \in S |-> Rank(S, v)]
<1>1. IsFiniteSet(S) /\ S \subseteq Nat /\ n \in Nat
  BY FS_Subset, FS_CardinalityType, SnapshotConstants DEF ValidatorSet
<1>2. \A v \in S : Rank(S, v) \in 0 .. n - 1
  <2>. SUFFICES ASSUME NEW v \in S PROVE Rank(S, v) \in 0 .. n - 1
    OBVIOUS
  <2>. DEFINE A == {x \in S : x < v}
  <2>1. A \in SUBSET S /\ v \notin A
    BY <1>1
  <2>2. IsFiniteSet(A) /\ Cardinality(A) <= n /\ Cardinality(A) # n
    BY <1>1, <2>1, FS_Subset
  <2>3. Cardinality(A) \in Nat
    BY <2>2, FS_CardinalityType
  <2>4. Rank(S, v) = Cardinality(A)
    BY DEF Rank
  <2>. QED BY <1>1, <2>2, <2>3, <2>4
<1>3. f \in Injection(S, 0 .. n - 1)
  <2>1. f \in [S -> 0 .. n - 1]
    BY <1>2
  <2>2. \A v, w \in S : f[v] = f[w] => v = w
    <3>. SUFFICES ASSUME NEW v \in S, NEW w \in S, f[v] = f[w], v # w
                  PROVE  FALSE
      OBVIOUS
    <3>1. v < w \/ w < v
      BY <1>1
    <3>2. Rank(S, v) = Rank(S, w) /\ Rank(S, v) \in Int
      BY <1>1, <1>2
    <3>. QED BY <3>1, <3>2, RankGrows
  <2>. HIDE DEF f
  <2>. QED BY <2>1, <2>2 DEF Injection, IsInjective
<1>4. IsFiniteSet(0 .. n - 1) /\ Cardinality(0 .. n - 1) = n
  BY <1>1, FS_Interval
<1>5. f \in Surjection(S, 0 .. n - 1)
  <2>. HIDE DEF f
  <2>. QED BY <1>3, <1>4, FS_Injection
<1>6. \E v \in S : f[v] = i
  BY <1>5 DEF Surjection
<1>7. \E v \in S : Rank(S, v) = i
  BY <1>6
<1>. QED BY <1>7 DEF AtRank

\* An aggregate that verifies is by members of the set, and by two thirds of them.
LEMMA VerifiedIsQuorum ==
  ASSUME NEW S \in ValidatorSet, NEW att \in Attestation, SignatureVerifies(att, S)
  PROVE  /\ att.voters \subseteq S
         /\ 3 * Cardinality(att.voters) >= 2 * Cardinality(S)
<1>. DEFINE n == Cardinality(S)
            B == att.bits
            V == att.voters
            g == [i \in B |-> AtRank(S, i)]
<1>1. /\ B \subseteq 0 .. n - 1 /\ Cardinality(B) >= MinVotesForFinality(n)
      /\ {AtRank(S, i) : i \in B} = V
  BY DEF SignatureVerifies
<1>2. n \in Nat
  BY FS_Subset, FS_CardinalityType, SnapshotConstants DEF ValidatorSet
<1>3. \A i \in B : AtRank(S, i) \in S /\ Rank(S, AtRank(S, i)) = i
  BY <1>1, RankIsOnto
<1>4. V \subseteq S
  BY <1>1, <1>3
<1>5. IsFiniteSet(B)
  <2>1. IsFiniteSet(0 .. n - 1)
    BY <1>2, FS_Interval
  <2>. QED BY <1>1, <2>1, FS_Subset
<1>. HIDE DEF B, V, n
<1>6. g \in Surjection(B, V) /\ g \in Injection(B, V)
  <2>1. g \in [B -> V] /\ \A v \in V : \E i \in B : g[i] = v
    BY <1>1
  <2>2. \A i, j \in B : g[i] = g[j] => i = j
    BY <1>3
  <2>. HIDE DEF g
  <2>. QED BY <2>1, <2>2 DEF Surjection, Injection, IsInjective
<1>7. Cardinality(V) = Cardinality(B) /\ Cardinality(B) \in Nat
  <2>. HIDE DEF g
  <2>. QED BY <1>5, <1>6, FS_Surjection, FS_CardinalityType
<1>8. 3 * Cardinality(V) >= 2 * n
  BY <1>1, <1>2, <1>7 DEF MinVotesForFinality
<1>. QED BY <1>4, <1>8 DEF V, n

\* The delay of the set in force covers the generations a vote may reach back over.
DelayCoversVotes == Delay(snap) + 1 >= K_ANCESTOR_GENERATION_DEPTH

\* The snapshot has the vote sets of the blocks it may be asked about: the present one
\* from the last switch on, the one kept aside for the generations before it.
VoteSetsKept ==
  /\ DOMAIN history \subseteq 0 .. snap.number
  /\ \A b \in DOMAIN history :
       /\ b >= snap.set_changed_at => history[b].vote_set = snap.vote_set
       /\ /\ b < snap.set_changed_at
          /\ b + K_ANCESTOR_GENERATION_DEPTH >= snap.set_changed_at
          => history[b].vote_set = snap.prev_vote_set

\* Two switches are as far apart as a vote can reach.
LEMMA SwitchesApart ==
  ASSUME ScheduleInv, DelayCoversVotes, NEW h \in Header, Accepts(snap, h), SwitchDue(snap, h)
  PROVE  h.number >= snap.set_changed_at + K_ANCESTOR_GENERATION_DEPTH
<1>1. /\ snap.number \in Nat /\ snap.set_changed_at \in Nat /\ Delay(snap) \in Nat
      /\ snap.set_changed_at <= snap.number /\ h.number = snap.number + 1
      /\ K_ANCESTOR_GENERATION_DEPTH \in Nat
  BY SnapshotNumbers, ApplyFields, SnapshotConstants DEF ScheduleInv, TypeOK, PendingOnSchedule
<1>2. CASE IsEpoch(snap, h.number)
  <2>1. h.number + Delay(snap) = h.number
    BY <1>2 DEF SwitchDue, PendingAfter
  <2>. QED BY <1>1, <2>1 DEF DelayCoversVotes
<1>3. CASE ~IsEpoch(snap, h.number)
  <2>1. snap.pending # None /\ snap.pending.activate_at = h.number
    BY <1>3 DEF SwitchDue, PendingAfter
  <2>2. /\ snap.pending.epoch_block \in Nat /\ snap.set_changed_at < snap.pending.epoch_block
        /\ h.number = snap.pending.epoch_block + Delay(snap)
    BY <2>1, SnapshotNumbers DEF ScheduleInv, TypeOK, PendingOnSchedule
  <2>. QED BY <1>1, <2>2 DEF DelayCoversVotes
<1>. QED BY <1>2, <1>3

LEMMA VoteSetsStep ==
  ScheduleInv /\ DelayCoversVotes /\ VoteSetsKept /\ [WalkNext]_walkVars => VoteSetsKept'
<1>. SUFFICES ASSUME ScheduleInv, DelayCoversVotes, VoteSetsKept, [WalkNext]_walkVars
              PROVE  VoteSetsKept'
  OBVIOUS
<1>1. CASE UNCHANGED walkVars
  BY <1>1 DEF walkVars, VoteSetsKept
<1>2. ASSUME NEW h \in Offered(snap), h \in Header, RefuseHeader(h)
      PROVE  VoteSetsKept'
  <2>1. /\ snap'.number = snap.number /\ snap'.set_changed_at = snap.set_changed_at
        /\ snap'.vote_set = snap.vote_set /\ snap'.prev_vote_set = snap.prev_vote_set
        /\ history' = history
    BY <1>2, RefuseKeeps DEF RefuseHeader, ScheduleInv, TypeOK
  <2>. QED BY <2>1 DEF VoteSetsKept
<1>3. ASSUME NEW h \in Offered(snap), h \in Header, AcceptHeader(h)
      PROVE  VoteSetsKept'
  <2>. DEFINE n == snap.number
              K == K_ANCESTOR_GENERATION_DEPTH
              c == snap.set_changed_at
  <2>1. IsSnapshot(snap) /\ Accepts(snap, h) /\ snap' = Apply(snap, h)
    BY <1>3 DEF AcceptHeader, ScheduleInv, TypeOK
  <2>2. snap'.number = n + 1 /\ h.number = n + 1
    BY <1>3, <2>1, ApplyFields
  <2>3. n \in Nat /\ c \in Nat /\ c <= n /\ K \in Nat
    BY <2>1, SnapshotNumbers, SnapshotConstants DEF ScheduleInv, PendingOnSchedule
  <2>4. /\ DOMAIN history' \subseteq DOMAIN history \cup {n + 1}
        /\ \A b \in DOMAIN history' \ {n + 1} : history'[b] = history[b]
        /\ n + 1 \in DOMAIN history' => history'[n + 1].vote_set = snap'.vote_set
    BY <1>3, <2>2 DEF AcceptHeader, Remember
  <2>5. DOMAIN history \subseteq 0 .. n /\ DOMAIN history' \subseteq 0 .. n + 1
    BY <2>3, <2>4 DEF VoteSetsKept
  <2>6. CASE SwitchDue(snap, h)
    <3>1. snap'.set_changed_at = n + 1 /\ snap'.prev_vote_set = snap.vote_set
      BY <1>3, <2>1, <2>2, <2>6, ApplySwitches
    <3>2. n + 1 >= c + K
      BY <1>3, <2>1, <2>2, <2>6, SwitchesApart
    <3>3. \A b \in DOMAIN history : b + K >= n + 1 => history[b].vote_set = snap.vote_set
      <4>. SUFFICES ASSUME NEW b \in DOMAIN history, b + K >= n + 1
                    PROVE  history[b].vote_set = snap.vote_set
        OBVIOUS
      <4>1. b \in Nat
        BY <2>5
      <4>2. b >= c
        BY <2>3, <3>2, <4>1
      <4>. QED BY <4>2 DEF VoteSetsKept
    <3>. HIDE DEF n, K, c
    <3>. QED BY <2>2, <2>3, <2>4, <2>5, <3>1, <3>3 DEF VoteSetsKept, K
  <2>7. CASE ~SwitchDue(snap, h)
    <3>1. /\ snap'.set_changed_at = c /\ snap'.prev_vote_set = snap.prev_vote_set
          /\ snap'.vote_set = snap.vote_set
      BY <1>3, <2>1, <2>7, ApplyKeeps
    <3>. QED BY <2>2, <2>3, <2>4, <2>5, <3>1 DEF VoteSetsKept
  <2>. QED BY <2>6, <2>7
<1>. QED BY <1>1, <1>2, <1>3 DEF WalkNext

LEMMA VoteSetsInit == WalkInit => VoteSetsKept
<1>. SUFFICES ASSUME WalkInit PROVE VoteSetsKept
  OBVIOUS
<1>1. Seeded(snap)
  BY CheckpointsSeeded DEF WalkInit
<1>2. snap.number \in Nat /\ snap.set_changed_at = 0
  BY <1>1 DEF Seeded, FromCheckpoint
<1>. QED BY <1>2 DEF WalkInit, VoteSetsKept

\* The struct keeps one generation of vote sets ("keeping one generation of history is
\* enough", snapshot.rs).  It is, for every upstream, as long as the activation delay of
\* the sets in force covers the generations a vote may reach back over: every vote the
\* client adopts was signed by two thirds of the set in force below its target.
THEOREM OneGenerationIsEnough == WalkSpec /\ []DelayCoversVotes => []AdoptedVotesAreQuorum
<1>1. ScheduleInv /\ VoteSetsKept => AdoptedVotesAreQuorum
  <2>. DEFINE K == K_ANCESTOR_GENERATION_DEPTH
              n == snap.number
              c == snap.set_changed_at
  <2>. SUFFICES ASSUME ScheduleInv, VoteSetsKept, NEW h \in Offered(snap), h \in Header,
                       Accepts(snap, h), AttestationAdopted(snap, h),
                       h.attestation.data.target_number - 1 \in DOMAIN history
                PROVE  LET set == history[h.attestation.data.target_number - 1].vote_set
                       IN  /\ h.attestation.voters \subseteq set
                           /\ 3 * Cardinality(h.attestation.voters) >= 2 * Cardinality(set)
    BY DEF AdoptedVotesAreQuorum
  <2>. DEFINE t == h.attestation.data.target_number
              S == AttestationSet(snap, t)
  <2>1. IsSnapshot(snap)
    BY DEF ScheduleInv, TypeOK
  <2>2. /\ n \in Nat /\ c \in Nat /\ c <= n /\ h.number = n + 1
        /\ K \in Nat \ {0} /\ h.time \in Nat
        /\ snap.vote_set \in ValidatorSet /\ snap.prev_vote_set \in ValidatorSet
    BY <2>1, SnapshotNumbers, ApplyFields, SnapshotConstants
       DEF ScheduleInv, PendingOnSchedule, IsSnapshot, Header
  <2>3. h.attestation \in Attestation
    BY DEF AttestationAdopted, AttestationIgnored, Header
  <2>4. t \in Nat /\ t >= 1
    <3>1. h.attestation.data \in VoteData /\ h.attestation.data.source_number < t
      BY <2>1, AdoptedVote
    <3>. QED BY <3>1 DEF VoteData
  <2>5. t + K >= n + 1
    <3>1. t \in AttestationTargetWindow(n + 1, h.time)
      BY <2>2 DEF AttestationAdopted
    <3>2. AncestorGenerationDepth(n + 1, h.time) \in 1 .. K
      BY <2>2 DEF AncestorGenerationDepth
    <3>3. Monus(n + 1, 1) = n
      BY <2>2 DEF Monus
    <3>4. t \in Monus(n, AncestorGenerationDepth(n + 1, h.time) - 1) .. n
      BY <3>1, <3>3 DEF AttestationTargetWindow
    <3>. HIDE DEF n, t, K
    <3>. QED BY <2>2, <2>4, <3>2, <3>4 DEF Monus
  <2>6. SignatureVerifies(h.attestation, S) /\ S \in ValidatorSet
    BY <2>2 DEF AttestationAdopted, AttestationSet
  <2>7. history[t - 1].vote_set = S
    <3>1. Monus(t, 1) = t - 1
      BY <2>4 DEF Monus
    <3>2. CASE c > t - 1
      <4>1. S = snap.prev_vote_set
        BY <3>1, <3>2 DEF AttestationSet
      <4>2. t - 1 < c /\ (t - 1) + K >= c /\ t - 1 \in DOMAIN history
        BY <2>2, <2>4, <2>5, <3>2
      <4>. HIDE DEF t, S
      <4>. QED BY <4>1, <4>2 DEF VoteSetsKept
    <3>3. CASE ~(c > t - 1)
      <4>1. S = snap.vote_set
        BY <3>1, <3>3 DEF AttestationSet
      <4>2. t - 1 >= c /\ t - 1 \in DOMAIN history
        BY <2>2, <2>4, <3>3
      <4>. HIDE DEF t, S
      <4>. QED BY <4>1, <4>2 DEF VoteSetsKept
    <3>. QED BY <3>2, <3>3
  <2>8. h.attestation.voters \subseteq S /\ 3 * Cardinality(h.attestation.voters) >= 2 * Cardinality(S)
    <3>. HIDE DEF S
    <3>. QED BY <2>3, <2>6, VerifiedIsQuorum
  <2>. QED BY <2>7, <2>8
<1>. QED BY <1>1, ScheduleInvInit, ScheduleInvStep, VoteSetsInit, VoteSetsStep, TypeCorrect, PTL DEF WalkSpec

-----------------------------------------------------------------------------
(* The sealing limit. *)

\* The finalized block only moves up.
LEMMA FinalizedGrows ==
  ASSUME WalkInv, NEW h \in Header, Accepts(snap, h)
  PROVE  /\ FinalizedNumber(snap) \in Nat /\ FinalizedAfter(snap, h) \in Nat
         /\ FinalizedNumber(snap) <= FinalizedAfter(snap, h)
<1>. DEFINE att == AttestationAfter(snap, h)
            data == h.attestation.data
<1>1. IsSnapshot(snap) /\ snap.attestation \in VoteData \cup {None} /\ att \in VoteData \cup {None}
  BY AttestationAfterType DEF WalkInv, TypeOK, IsSnapshot
<1>2. FinalizedNumber(snap) \in Nat /\ FinalizedAfter(snap, h) \in Nat
  BY <1>1 DEF FinalizedNumber, FinalizedAfter, VoteData
<1>3. CASE att = snap.attestation
  BY <1>1, <1>2, <1>3 DEF FinalizedNumber, FinalizedAfter
<1>4. CASE att # snap.attestation
  <2>1. /\ AttestationAdopted(snap, h) /\ att \in VoteData
        /\ \/ att = data
           \/ snap.attestation # None /\ att.source_number = snap.attestation.source_number
    BY <1>1, <1>4, AttestationStep
  <2>2. FinalizedAfter(snap, h) = att.source_number
    BY <2>1, NoneIsNoRecord DEF FinalizedAfter
  <2>3. CASE snap.attestation = None
    BY <1>2, <2>3 DEF FinalizedNumber
  <2>4. CASE snap.attestation # None
    <3>1. /\ snap.attestation \in VoteData /\ FinalizedNumber(snap) = snap.attestation.source_number
          /\ snap.attestation.source_number < snap.attestation.target_number
      BY <1>1, <2>4 DEF FinalizedNumber, WalkInv, JustifiedIsWalked
    <3>2. data.source_number = snap.attestation.target_number /\ data \in VoteData
      BY <1>1, <2>1, <2>4, AdoptedVote DEF SourceIsJustified
    <3>. QED BY <2>1, <2>2, <3>1, <3>2 DEF VoteData
  <2>. QED BY <2>3, <2>4
<1>. QED BY <1>2, <1>3, <1>4

\* What is above the newest of four blocks is above each of them.
LEMMA AboveNewest ==
  ASSUME NEW a \in Int, NEW b \in Int, NEW c \in Int, NEW d \in Int, NEW x \in Int
  PROVE  x > Newest({a, b, c, d}) <=> x > a /\ x > b /\ x > c /\ x > d
<1>. DEFINE S == {a, b, c, d}
<1>1. \E n \in S : \A m \in S : m <= n
  <2>1. PICK p \in {a, b} : a <= p /\ b <= p
    OBVIOUS
  <2>2. PICK q \in {c, d} : c <= q /\ d <= q
    OBVIOUS
  <2>3. CASE p <= q
    BY <2>1, <2>2, <2>3
  <2>4. CASE q <= p
    BY <2>1, <2>2, <2>4
  <2>. QED BY <2>1, <2>2, <2>3, <2>4
<1>2. Newest(S) \in S /\ \A m \in S : m <= Newest(S)
  BY <1>1 DEF Newest
<1>. QED BY <1>2

\* The floor of the blocks that count, without the maximum.
LEMMA AboveFloor ==
  ASSUME NEW x \in Nat, NEW floor \in Nat, NEW c \in Nat, NEW f \in Nat, NEW w \in Nat
  PROVE  x > Newest({floor, c, f, w - 1}) <=> x > floor /\ x > c /\ x > f /\ x >= w
<1>. DEFINE u == w - 1
<1>1. u \in Int /\ (x > u <=> x >= w)
  OBVIOUS
<1>. HIDE DEF u
<1>2. x > Newest({floor, c, f, u}) <=> x > floor /\ x > c /\ x > f /\ x > u
  BY <1>1, AboveNewest
<1>. QED BY <1>1, <1>2 DEF u

\* The blocks that count.
LEMMA CountedSealsAre ==
  ASSUME NEW v, NEW floor \in Nat, DOMAIN history \subseteq Nat,
         snap.set_changed_at \in Nat, snap.walk_start \in Nat, history[snap.number].settled \in Nat
  PROVE  \A b : b \in CountedSeals(v, floor) <=>
                  /\ b \in DOMAIN history
                  /\ b > floor /\ b > snap.set_changed_at /\ b > history[snap.number].settled
                  /\ b >= snap.walk_start /\ history[b].signer = v
<1>1. \A b \in DOMAIN history :
        b > Newest({floor, snap.set_changed_at, history[snap.number].settled, snap.walk_start - 1})
          <=> /\ b > floor /\ b > snap.set_changed_at /\ b > history[snap.number].settled
              /\ b >= snap.walk_start
  <2>. DEFINE c == snap.set_changed_at
              f == history[snap.number].settled
              w == snap.walk_start
  <2>1. c \in Nat /\ f \in Nat /\ w \in Nat
    OBVIOUS
  <2>. HIDE DEF c, f, w
  <2>2. \A b \in DOMAIN history :
          b > Newest({floor, c, f, w - 1}) <=> b > floor /\ b > c /\ b > f /\ b >= w
    BY <2>1, AboveFloor
  <2>. QED BY <2>2 DEF c, f, w
<1>. QED BY <1>1 DEF CountedSeals

\* The observer has the last Horizon blocks of the walk, and what it calls settled is
\* finalized.
HistoryFull ==
  /\ DOMAIN history \subseteq 0 .. snap.number
  /\ snap.number + 1 >= snap.walk_start
  /\ \A b \in Nat : snap.walk_start <= b + 1 /\ b <= snap.number /\ b + Horizon > snap.number
                     => b \in DOMAIN history
  /\ history[snap.number].settled \in 0 .. FinalizedNumber(snap)

\* recents has blocks that count only, with the one who sealed them, and it has all of
\* those of the window.
RecentsExact ==
  /\ \A b \in DOMAIN snap.recents :
       /\ b <= snap.number /\ b > snap.set_changed_at /\ b > history[snap.number].settled
       /\ b >= snap.walk_start
       /\ b \in DOMAIN history => snap.recents[b] = history[b].signer
  /\ \A b \in DOMAIN history :
       /\ b > Monus(snap.number, Delay(snap)) /\ b > snap.set_changed_at
       /\ b > history[snap.number].settled /\ b >= snap.walk_start
       => b \in DOMAIN snap.recents

SealInv == WalkInv /\ ScheduleInv /\ HistoryFull /\ RecentsExact /\ NoOverSealing

\* Part of a window in which there is room for one more, and one more.
LEMMA OneMore ==
  ASSUME NEW n \in Nat, NEW t \in Nat, NEW W \in SUBSET (0 .. n), ~(Cardinality(W) >= t),
         NEW C, C \subseteq W \cup {n + 1}
  PROVE  Cardinality(C) <= t
<1>1. IsFiniteSet(W) /\ Cardinality(W) \in Nat
  <2>1. IsFiniteSet(0 .. n)
    BY FS_Interval
  <2>. QED BY <2>1, FS_Subset, FS_CardinalityType
<1>2. IsFiniteSet(W \cup {n + 1}) /\ Cardinality(W \cup {n + 1}) <= Cardinality(W) + 1
  BY <1>1, FS_AddElement
<1>3. IsFiniteSet(C) /\ Cardinality(C) <= Cardinality(W \cup {n + 1})
  BY <1>2, FS_Subset
<1>4. Cardinality(C) \in Nat /\ Cardinality(W \cup {n + 1}) \in Nat
  BY <1>2, <1>3, FS_CardinalityType
<1>. QED BY <1>1, <1>2, <1>3, <1>4

\* Part of a window that is within a bound.
LEMMA NoMore ==
  ASSUME NEW n \in Nat, NEW t \in Nat, NEW W \in SUBSET (0 .. n), Cardinality(W) <= t,
         NEW C, C \subseteq W
  PROVE  Cardinality(C) <= t
<1>1. IsFiniteSet(W)
  <2>1. IsFiniteSet(0 .. n)
    BY FS_Interval
  <2>. QED BY <2>1, FS_Subset
<1>2. IsFiniteSet(C) /\ Cardinality(C) <= Cardinality(W)
  BY <1>1, FS_Subset
<1>3. Cardinality(C) \in Nat /\ Cardinality(W) \in Nat
  BY <1>1, <1>2, FS_CardinalityType
<1>. QED BY <1>2, <1>3

LEMMA MonusType ==
  ASSUME NEW a \in Nat, NEW b \in Nat
  PROVE  Monus(a, b) \in Nat
BY DEF Monus

LEMMA SealInvInit == WalkInit => SealInv
<1>. SUFFICES ASSUME WalkInit PROVE HistoryFull /\ RecentsExact /\ NoOverSealing
  BY WalkInvInit, ScheduleInvInit DEF SealInv
<1>1. Seeded(snap) /\ IsSnapshot(snap)
  BY CheckpointsSeeded, SeededType DEF WalkInit
<1>2. /\ snap.number \in Nat /\ snap.walk_start = snap.number + 1 /\ snap.attestation = None
      /\ DOMAIN history = {snap.number} /\ DOMAIN snap.recents = {}
      /\ history[snap.number].settled = 0
  BY <1>1 DEF Seeded, FromCheckpoint, WalkInit
<1>3. HistoryFull /\ RecentsExact
  BY <1>2 DEF HistoryFull, RecentsExact, FinalizedNumber
<1>4. ASSUME NEW v \in Validator
      PROVE  Cardinality(CountedSeals(v, Monus(snap.number, Delay(snap) + 1))) <= snap.turn_length
  <2>1. /\ snap.number \in Nat /\ Delay(snap) + 1 \in Nat /\ snap.turn_length \in Nat
        /\ snap.set_changed_at \in Nat
    BY <1>1, SnapshotNumbers
  <2>2. Monus(snap.number, Delay(snap) + 1) \in Nat
    BY <2>1, MonusType
  <2>3. CountedSeals(v, Monus(snap.number, Delay(snap) + 1)) = {}
    BY <1>2, <2>1, <2>2, CountedSealsAre
  <2>. QED BY <2>1, <2>3, FS_EmptySet
<1>. QED BY <1>3, <1>4 DEF NoOverSealing

\* What a refused header forgets is outside the window.
LEMMA SealRefuse ==
  ASSUME SealInv, NEW h \in Header, RefuseHeader(h)
  PROVE  (HistoryFull /\ RecentsExact /\ NoOverSealing)'
<1>1. IsSnapshot(snap) /\ snap' = Refuse(snap, h) /\ history' = history
  BY DEF SealInv, WalkInv, TypeOK, RefuseHeader
<1>2. /\ snap'.number = snap.number /\ snap'.attestation = snap.attestation
      /\ snap'.set_changed_at = snap.set_changed_at /\ snap'.walk_start = snap.walk_start
      /\ snap'.turn_length = snap.turn_length /\ Delay(snap)' = Delay(snap)
      /\ FinalizedNumber(snap)' = FinalizedNumber(snap)
  BY <1>1, RefuseKeeps DEF Delay, FinalizedNumber
<1>3. snap.number \in Nat /\ Delay(snap) \in Nat
  BY <1>1, SnapshotNumbers
<1>4. /\ DOMAIN snap.recents \ Forgotten(snap) \subseteq DOMAIN snap'.recents
      /\ DOMAIN snap'.recents \subseteq DOMAIN snap.recents
      /\ \A b \in DOMAIN snap'.recents : snap'.recents[b] = snap.recents[b]
  BY <1>1 DEF Refuse, Forget, IsSnapshot
<1>5. \A b \in 0 .. snap.number : b > Monus(snap.number, Delay(snap)) => b \notin Forgotten(snap)
  BY <1>3 DEF Monus, Forgotten
<1>6. HistoryFull'
  BY <1>1, <1>2 DEF SealInv, HistoryFull
<1>7. RecentsExact'
  BY <1>1, <1>2, <1>4, <1>5 DEF SealInv, HistoryFull, RecentsExact
<1>8. NoOverSealing'
  BY <1>1, <1>2 DEF SealInv, NoOverSealing, CountedSeals
<1>. QED BY <1>6, <1>7, <1>8

\* An accepted header adds its sealer to the window, who had less than its share of it.
LEMMA SealAccept ==
  ASSUME SealInv, TypeOK', NEW h \in Header, AcceptHeader(h)
  PROVE  (HistoryFull /\ RecentsExact /\ NoOverSealing)'
<1>. DEFINE n == snap.number
            d == Delay(snap)
            G == FinalizedAfter(snap, h)
            P == history[snap.number].settled
            Q == history'[snap'.number].settled
            c == snap.set_changed_at
            w == snap.walk_start
            low == Monus(n, d)
            Counted(v) == CountedSeals(v, Monus(snap.number, Delay(snap) + 1))
<1>1. IsSnapshot(snap) /\ Accepts(snap, h) /\ snap' = Apply(snap, h) /\ WalkInv
  BY DEF SealInv, WalkInv, TypeOK, AcceptHeader
<1>2. /\ snap'.number = n + 1 /\ h.number = n + 1 /\ FinalizedNumber(snap)' = G
      /\ snap'.walk_start = w
  <2>1. snap'.walk_start = w
    BY <1>1, ApplyKeeps, ApplySwitches
  <2>. QED BY <1>1, <2>1, ApplyFields DEF FinalizedNumber, FinalizedAfter
<1>3. /\ n \in Nat /\ d \in Nat /\ snap.turn_length \in Nat /\ c \in Nat /\ w \in Nat
      /\ Horizon \in Nat \ {0}
  BY <1>1, SnapshotNumbers, WalkConstants
<1>4. /\ snap'.turn_length \in Nat /\ Delay(snap)' \in Nat /\ snap'.set_changed_at \in Nat
  BY SnapshotNumbers DEF TypeOK, Delay
<1>5. P \in Nat /\ G \in Nat /\ P <= G /\ P < n + 1 /\ G < n + 1
  <2>1. P \in 0 .. FinalizedNumber(snap)
    BY DEF SealInv, HistoryFull
  <2>2. FinalizedNumber(snap) \in Nat /\ G \in Nat /\ FinalizedNumber(snap) <= G
    BY <1>1, FinalizedGrows
  <2>3. G < n + 1
    <3>1. JustifiedIsWalked' /\ IsSnapshot(snap')
      BY <1>1, AcceptPreserves DEF TypeOK
    <3>2. snap'.attestation # None => /\ snap'.attestation \in VoteData
                                      /\ snap'.attestation.source_number < n + 1
      BY <1>2, <1>3, <3>1 DEF JustifiedIsWalked, IsSnapshot, VoteData
    <3>. QED BY <1>2, <1>3, <3>2 DEF FinalizedNumber
  <2>. HIDE DEF P, G, n
  <2>. QED BY <1>3, <2>1, <2>2, <2>3
<1>6. DOMAIN history' = {b \in DOMAIN history \cup {n + 1} : b + Horizon > n + 1}
  BY <1>2 DEF AcceptHeader, Remember
<1>7. /\ n + 1 \in DOMAIN history'
      /\ \A b \in DOMAIN history' \ {n + 1} : b \in DOMAIN history /\ history'[b] = history[b]
      /\ history'[n + 1].signer = h.signer
      /\ Q = IF h.time >= MAXWELL_TIME THEN G ELSE P
  <2>1. n + 1 \in DOMAIN history'
    BY <1>3, <1>6
  <2>2. history'[n + 1] = [hash |-> h.hash, signer |-> h.signer, vote_set |-> snap'.vote_set,
                           settled |-> IF h.time >= MAXWELL_TIME THEN FinalizedNumber(snap')
                                       ELSE history[snap.number].settled]
    BY <1>2, <2>1, <1>6 DEF AcceptHeader, Remember
  <2>3. \A b \in DOMAIN history' \ {n + 1} : b \in DOMAIN history /\ history'[b] = history[b]
    BY <1>2 DEF AcceptHeader, Remember
  <2>4. FinalizedNumber(snap') = G
    BY <1>2 DEF FinalizedNumber
  <2>. QED BY <1>2, <2>1, <2>2, <2>3, <2>4
<1>8. Q \in Nat /\ P <= Q /\ Q < n + 1 /\ Q \in 0 .. G
  BY <1>5, <1>7
<1>9. DOMAIN history \subseteq 0 .. n /\ DOMAIN history' \subseteq 0 .. n + 1
  BY <1>3, <1>6 DEF SealInv, HistoryFull
<1>10. HistoryFull'
  <2>1. n + 1 + 1 >= w
    BY <1>3 DEF SealInv, HistoryFull
  <2>2. ASSUME NEW b \in Nat, w <= b + 1, b <= n + 1, b + Horizon > n + 1
        PROVE  b \in DOMAIN history'
    BY <1>3, <1>6, <2>2 DEF SealInv, HistoryFull
  <2>. HIDE DEF Q, G, n, w
  <2>. QED BY <1>2, <1>8, <1>9, <2>1, <2>2 DEF HistoryFull, Q
<1>11. ASSUME NEW v
       PROVE  \A b : b \in Counted(v)' <=>
                       /\ b \in DOMAIN history'
                       /\ b > Monus(n + 1, Delay(snap)' + 1) /\ b > snap'.set_changed_at /\ b > Q
                       /\ b >= w /\ history'[b].signer = v
  <2>. DEFINE floor == Monus(n + 1, Delay(snap)' + 1)
              e == snap'.set_changed_at
              D == DOMAIN history'
  <2>1. floor \in Nat
    <3>1. n + 1 \in Nat /\ Delay(snap)' + 1 \in Nat
      BY <1>3, <1>4
    <3>. QED BY <3>1, MonusType
  <2>2. e \in Nat /\ w \in Nat /\ Q \in Nat /\ \A b \in D : b \in Nat
    BY <1>3, <1>4, <1>8, <1>9
  <2>. HIDE DEF floor, e, D, Q, w
  <2>3. \A b \in D : b > Newest({floor, e, Q, w - 1}) <=> b > floor /\ b > e /\ b > Q /\ b >= w
    BY <2>1, <2>2, AboveFloor
  <2>. QED BY <1>2, <2>3 DEF CountedSeals, floor, e, D, Q, w
<1>12. CASE SwitchDue(snap, h)
  <2>1. snap'.set_changed_at = n + 1 /\ DOMAIN snap'.recents = {}
    BY <1>1, <1>2, <1>12, ApplySwitches
  <2>2. RecentsExact'
    BY <1>2, <1>3, <1>9, <2>1 DEF RecentsExact
  <2>3. ASSUME NEW v \in Validator
        PROVE  Cardinality(Counted(v)') <= snap'.turn_length
    <3>1. Counted(v)' \subseteq {}
      BY <1>3, <1>9, <1>11, <2>1
    <3>2. Cardinality({}) <= snap'.turn_length /\ 0 \in Nat /\ {} \in SUBSET (0 .. 0)
      BY <1>4, FS_EmptySet
    <3>. QED BY <1>4, <3>1, <3>2, NoMore
  <2>. QED BY <1>10, <2>2, <2>3 DEF NoOverSealing
<1>13. CASE ~SwitchDue(snap, h)
  <2>1. /\ snap'.recents = RecentsAfter(snap, h) /\ snap'.turn_length = snap.turn_length
        /\ snap'.set_changed_at = c /\ Delay(snap)' = d
    BY <1>1, <1>13, ApplyKeeps DEF Delay
  <2>2. /\ \A b : b \in DOMAIN snap'.recents <=>
                   /\ b = n + 1 \/ b \in DOMAIN snap.recents \ Forgotten(snap)
                   /\ h.time >= MAXWELL_TIME => b > G
        /\ \A b \in DOMAIN snap'.recents :
              snap'.recents[b] = IF b = n + 1 THEN h.signer ELSE snap.recents[b]
    BY <1>2, <2>1 DEF RecentsAfter
  <2>3. \A b \in 0 .. n : b > low => b \notin Forgotten(snap)
    BY <1>3 DEF Monus, Forgotten
  <2>4. low \in Nat /\ Monus(n + 1, d) >= low /\ Monus(n + 1, d) \in Nat /\ Monus(n + 1, d + 1) = low
    BY <1>3 DEF Monus
  <2>5. \A b \in DOMAIN history :
          b > low /\ b > c /\ b > P /\ b >= w =>
            b \in DOMAIN snap.recents /\ snap.recents[b] = history[b].signer
    BY DEF SealInv, RecentsExact
  <2>6. \A b \in DOMAIN snap.recents :
          /\ b \in Nat /\ b <= n /\ b > c /\ b > P /\ b >= w
          /\ b \in DOMAIN history => snap.recents[b] = history[b].signer
    BY <1>1 DEF SealInv, RecentsExact, IsSnapshot
  <2>7. c < n + 1 /\ w <= n + 1
    <3>1. w <= n + 1
      BY DEF SealInv, HistoryFull
    <3>. QED BY <3>1, <1>3 DEF SealInv, ScheduleInv, PendingOnSchedule
  <2>. HIDE DEF low, d, G, P, Q, n, c, w
  <2>8. RecentsExact'
    <3>1. ASSUME NEW b \in DOMAIN snap'.recents
          PROVE  /\ b <= n + 1 /\ b > c /\ b > Q /\ b >= w
                 /\ b \in DOMAIN history' => snap'.recents[b] = history'[b].signer
      <4>1. CASE b = n + 1
        <5>1. n + 1 <= n + 1 /\ n + 1 > c /\ n + 1 > Q /\ n + 1 >= w
          BY <1>3, <1>8, <2>7
        <5>2. snap'.recents[b] = h.signer /\ history'[b].signer = h.signer
          <6>1. snap'.recents[b] = h.signer
            BY <2>2, <4>1, Zenon
          <6>2. history'[b].signer = h.signer
            BY <1>7, <4>1, Zenon
          <6>. QED BY <6>1, <6>2
        <5>. QED BY <4>1, <5>1, <5>2, Zenon
      <4>2. CASE b # n + 1
        <5>1. b \in DOMAIN snap.recents /\ snap'.recents[b] = snap.recents[b]
          BY <2>2, <4>2
        <5>2. b > Q
          BY <1>7, <2>2, <2>6, <5>1
        <5>. QED BY <1>3, <1>7, <2>6, <4>2, <5>1, <5>2
      <4>. QED BY <4>1, <4>2
    <3>2. ASSUME NEW b \in DOMAIN history', b > Monus(n + 1, d), b > c, b > Q, b >= w
          PROVE  b \in DOMAIN snap'.recents
      <4>1. h.time >= MAXWELL_TIME => b > G
        BY <1>7, <3>2
      <4>2. CASE b = n + 1
        BY <2>2, <4>1, <4>2
      <4>3. CASE b # n + 1
        <5>1. b \in DOMAIN history /\ b \in 0 .. n
          BY <1>7, <1>9, <4>3
        <5>2. b > low /\ b > P
          BY <1>5, <1>8, <2>4, <3>2, <5>1
        <5>. QED BY <2>2, <2>3, <2>5, <3>2, <4>1, <5>1, <5>2
      <4>. QED BY <4>2, <4>3
    <3>. QED BY <1>2, <2>1, <3>1, <3>2 DEF RecentsExact, Q, n, c, w
  <2>9. ASSUME NEW v \in Validator
        PROVE  Cardinality(Counted(v)') <= snap'.turn_length
    <3>1. \A b \in Counted(v)' : \/ b = n + 1 /\ h.signer = v
                                 \/ /\ b \in DOMAIN history /\ b \in 0 .. n /\ b > low
                                    /\ b > c /\ b > P /\ b >= w /\ history[b].signer = v
      <4>. SUFFICES ASSUME NEW b \in Counted(v)'
                    PROVE  \/ b = n + 1 /\ h.signer = v
                           \/ /\ b \in DOMAIN history /\ b \in 0 .. n /\ b > low
                              /\ b > c /\ b > P /\ b >= w /\ history[b].signer = v
        OBVIOUS
      <4>1. /\ b \in DOMAIN history' /\ b > low /\ b > c /\ b > Q
            /\ b >= w /\ history'[b].signer = v
        BY <1>11, <2>1, <2>4
      <4>. QED BY <1>3, <1>5, <1>7, <1>8, <1>9, <4>1
    <3>2. CASE h.signer = v
      <4>. DEFINE W == SealedInWindow(Forget(snap), v)
      <4>1. ~(Cardinality(W) >= snap.turn_length)
        <5>1. ~(Cardinality(W) >= Forget(snap).turn_length)
          BY <1>1, <3>2 DEF Accepts, WithinSealLimit, SignRecently
        <5>2. Forget(snap).turn_length = snap.turn_length
          BY <1>1 DEF Forget, IsSnapshot
        <5>. QED BY <5>1, <5>2
      <4>2. W = {b \in DOMAIN snap.recents \ Forgotten(snap) : b > low /\ snap.recents[b] = v}
        <5>1. Forget(snap).number = n /\ Delay(Forget(snap)) = d
          BY <1>1 DEF Forget, IsSnapshot, Delay, d, n
        <5>2. Forget(snap).recents = [b \in DOMAIN snap.recents \ Forgotten(snap) |-> snap.recents[b]]
          BY <1>1 DEF Forget, IsSnapshot
        <5>. QED BY <5>1, <5>2 DEF SealedInWindow, low
      <4>3. W \in SUBSET (0 .. n)
        BY <1>3, <2>6, <4>2
      <4>4. Counted(v)' \subseteq W \cup {n + 1}
        BY <2>3, <2>5, <3>1, <4>2
      <4>. HIDE DEF W
      <4>. QED BY <1>3, <2>1, <4>1, <4>3, <4>4, OneMore
    <3>3. CASE h.signer # v
      <4>1. Cardinality(Counted(v)) <= snap.turn_length
        BY DEF SealInv, NoOverSealing
      <4>2. \A b : b \in Counted(v) <=>
                     /\ b \in DOMAIN history
                     /\ b > Monus(n, d + 1) /\ b > c /\ b > P
                     /\ b >= w /\ history[b].signer = v
        <5>1. DOMAIN history \subseteq Nat /\ Monus(n, d + 1) \in Nat
          BY <1>3, <1>9 DEF Monus
        <5>. QED BY <1>3, <1>5, <5>1, CountedSealsAre DEF d, n, c, w, P
      <4>3. Monus(n, d + 1) <= low /\ Monus(n, d + 1) \in Nat
        BY <1>3 DEF Monus, low
      <4>4. Counted(v)' \subseteq Counted(v)
        BY <1>3, <2>4, <3>1, <3>3, <4>2, <4>3
      <4>5. Counted(v) \in SUBSET (0 .. n)
        BY <1>9, <4>2
      <4>. QED BY <1>3, <2>1, <4>1, <4>4, <4>5, NoMore
    <3>. QED BY <3>2, <3>3
  <2>. QED BY <1>10, <2>8, <2>9 DEF NoOverSealing
<1>. QED BY <1>12, <1>13

LEMMA SealInvStep == SealInv /\ WalkInv' /\ ScheduleInv' /\ [WalkNext]_walkVars => SealInv'
<1>. SUFFICES ASSUME SealInv, WalkInv', ScheduleInv', [WalkNext]_walkVars
              PROVE  (HistoryFull /\ RecentsExact /\ NoOverSealing)'
  BY DEF SealInv
<1>1. CASE UNCHANGED walkVars
  BY <1>1 DEF walkVars, SealInv, HistoryFull, RecentsExact, NoOverSealing, CountedSeals, Delay, FinalizedNumber
<1>2. ASSUME NEW h \in Offered(snap), h \in Header, AcceptHeader(h)
      PROVE  (HistoryFull /\ RecentsExact /\ NoOverSealing)'
  BY <1>2, SealAccept DEF WalkInv
<1>3. ASSUME NEW h \in Offered(snap), h \in Header, RefuseHeader(h)
      PROVE  (HistoryFull /\ RecentsExact /\ NoOverSealing)'
  BY <1>3, SealRefuse
<1>. QED BY <1>1, <1>2, <1>3 DEF WalkNext

\* The observer remembers the whole sealing window of the set in force.
HorizonCoversWindow == Delay(snap) <= Horizon

\* For every validator set, turn length and upstream: who may seal next, read off a map
\* that is trimmed in four places and by headers that are refused, is what the blocks of
\* the walk say, and no validator gets more than its turn of any window of it
\* (Snapshot::sign_recently).
THEOREM SealLimitHolds == WalkSpec /\ []HorizonCoversWindow => []SealLimit
<1>1. SealInv /\ HorizonCoversWindow => SealLimit
  <2>. SUFFICES ASSUME SealInv, HorizonCoversWindow, NEW v \in Validator
                PROVE  SealedInWindow(snap, v) = CountedSeals(v, Monus(snap.number, Delay(snap)))
    BY DEF SealLimit, RecentsFaithful, SignRecently, SealInv
  <2>. DEFINE n == snap.number
              low == Monus(snap.number, Delay(snap))
  <2>1. /\ IsSnapshot(snap) /\ n \in Nat /\ Delay(snap) \in Nat /\ snap.set_changed_at \in Nat
        /\ snap.walk_start \in Nat /\ Horizon \in Nat /\ low \in Nat
    BY SnapshotNumbers, WalkConstants, MonusType DEF SealInv, WalkInv, TypeOK
  <2>2. DOMAIN history \subseteq Nat /\ history[snap.number].settled \in Nat
    <3>1. FinalizedNumber(snap) \in Nat
      BY <2>1 DEF FinalizedNumber, IsSnapshot, VoteData
    <3>. QED BY <2>1, <3>1 DEF SealInv, HistoryFull
  <2>3. \A b : b \in CountedSeals(v, low) <=>
                 /\ b \in DOMAIN history
                 /\ b > low /\ b > snap.set_changed_at /\ b > history[snap.number].settled
                 /\ b >= snap.walk_start /\ history[b].signer = v
    BY <2>1, <2>2, CountedSealsAre
  <2>4. \A b \in DOMAIN snap.recents :
          b > low => b \in DOMAIN history /\ snap.recents[b] = history[b].signer
    <3>. SUFFICES ASSUME NEW b \in DOMAIN snap.recents, b > low
                  PROVE  b \in DOMAIN history
      BY DEF SealInv, RecentsExact
    <3>1. b \in Nat /\ b <= n /\ b >= snap.walk_start
      BY <2>1 DEF SealInv, RecentsExact, IsSnapshot
    <3>2. b + Horizon > n
      BY <2>1, <3>1 DEF Monus, HorizonCoversWindow
    <3>. QED BY <2>1, <3>1, <3>2 DEF SealInv, HistoryFull
  <2>5. \A b \in DOMAIN history :
          /\ b > low /\ b > snap.set_changed_at /\ b > history[snap.number].settled
          /\ b >= snap.walk_start
          => b \in DOMAIN snap.recents
    BY DEF SealInv, RecentsExact
  <2>6. \A b : b \in SealedInWindow(snap, v) <=>
                 b \in DOMAIN snap.recents /\ b > low /\ snap.recents[b] = v
    BY DEF SealedInWindow
  <2>7. \A b \in DOMAIN snap.recents :
          b > snap.set_changed_at /\ b > history[snap.number].settled /\ b >= snap.walk_start
    BY DEF SealInv, RecentsExact
  <2>. HIDE DEF low
  <2>8. \A b : b \in SealedInWindow(snap, v) <=> b \in CountedSeals(v, low)
    BY <2>3, <2>4, <2>5, <2>6, <2>7
  <2>. QED BY <2>8 DEF low
<1>. QED BY <1>1, SealInvInit, SealInvStep, WalkInvInit, WalkInvStep, ScheduleInvInit, ScheduleInvStep,
            TypeCorrect, PTL DEF WalkSpec

-----------------------------------------------------------------------------
(* Bootstrap. *)

\* The length of an epoch has reached its last value, as on mainnet since Maxwell.
LengthSettled == full.epoch_length = MAXWELL_EPOCH_LENGTH

\* A set takes over before the next is announced.
DelayWithinEpoch == Delay(full) < full.epoch_length

-----------------------------------------------------------------------------
(* The inductive invariant. *)

Fields ==
  {"number", "hash", "epoch_length", "turn_length", "validators", "pending", "recents", "vote_set", "prev_vote_set",
   "set_changed_at", "attestation", "milli_known", "walk_start", "ancestors"}

\* How many blocks a set announced by an epoch header waits for the one announced by e.
DelayOf(e) == MinerHistoryCheckLen(Cardinality(e.validators), e.turn_length)

\* The snapshot s, after the epoch headers at d and e: the newest set seals, or it is due.
OnSchedule(s, d, e, eps) ==
  /\ d \in Nat /\ e \in Nat /\ d < e /\ eps \in [{d, e} -> Epoch]
  /\ s.pending = None =>
       /\ s.number >= e + DelayOf(eps[d])
       /\ s.validators = eps[e].validators /\ s.turn_length = eps[e].turn_length
  /\ s.pending # None =>
       /\ s.number < e + DelayOf(eps[d])
       /\ s.validators = eps[d].validators /\ s.turn_length = eps[d].turn_length
       /\ s.pending = [epoch_block |-> e, activate_at |-> e + DelayOf(eps[d]),
                       validators |-> eps[e].validators, turn_length |-> eps[e].turn_length]

FullSound ==
  /\ DOMAIN full = Fields
  /\ full.number \in Nat /\ full.epoch_length \in Nat \ {0}
  /\ OnSchedule(full, PrevEpochBlock, EpochBlock, epochs)

\* A client is never ahead of the chain.
BootSound == boot # None => DOMAIN boot = Fields /\ boot.number \in Nat /\ boot.number <= full.number

BootstrapInv == FullSound /\ BootSound /\ SameSchedule


-----------------------------------------------------------------------------
(* Lemmas. *)

LEMMA DelayOfIsNat ==
  ASSUME NEW e \in Epoch
  PROVE  DelayOf(e) \in Nat
<1>1. e.validators \subseteq Validator /\ e.turn_length \in Nat \ {0}
  BY DEF Epoch, ValidatorSet
<1>2. Cardinality(e.validators) \in Nat
  BY <1>1, FS_Subset, FS_CardinalityType, SnapshotConstants
<1> QED BY <1>1, <1>2, CheckLenIsNat DEF DelayOf

\* The epoch block of block n, and how far into the epoch n is.
EpochOf(n, k) == (n \div k) * k
Into(n, k) == n % k

\* The epoch of a block, from the one before it.
LEMMA EpochStep ==
  ASSUME NEW n \in Nat, NEW k \in Nat \ {0}
  PROVE  /\ EpochOf(n, k) \in Nat /\ EpochOf(n, k) <= n /\ n < EpochOf(n, k) + k
         /\ Into(n + 1, k) = 0 => EpochOf(n + 1, k) = n + 1 /\ EpochOf(n + 1, k) = EpochOf(n, k) + k
         /\ Into(n + 1, k) # 0 => EpochOf(n + 1, k) = EpochOf(n, k)
<1> DEFINE e == EpochOf(n, k)
           f == EpochOf(n + 1, k)
           t == Into(n + 1, k)
           q == n \div k
           r == n % k
           p == (n + 1) \div k
<1>1. r \in 0 .. k - 1 /\ t \in 0 .. k - 1
  BY DEF Into
<1>2. n = k * q + r /\ q \in Nat
  OBVIOUS
<1>3. n + 1 = k * p + t /\ p \in Nat
  BY DEF Into
<1>4. e = q * k /\ f = p * k
  BY DEF EpochOf
<1> HIDE DEF q, r, p, e, f, t
<1>5. k * (p - q) = r + 1 - t
  BY <1>1, <1>2, <1>3
<1>6. t # 0 => p = q
  <2>1. p - q >= 1 => k * (p - q) >= k
    BY <1>2, <1>3
  <2>2. p - q <= -1 => k * (p - q) <= -k
    BY <1>2, <1>3
  <2> QED BY <1>1, <1>2, <1>3, <1>5, <2>1, <2>2
<1>7. t = 0 => p = q + 1
  <2>1. p - q >= 2 => k * (p - q) >= 2 * k
    BY <1>2, <1>3
  <2>2. p - q <= 0 => k * (p - q) <= 0
    BY <1>2, <1>3
  <2> QED BY <1>1, <1>2, <1>3, <1>5, <2>1, <2>2
<1>8. q * k = k * q /\ q * k \in Nat /\ (q + 1) * k = q * k + k /\ p * k = k * p
  BY <1>2, <1>3
<1>9. e \in Nat /\ e <= n /\ n < e + k
  BY <1>1, <1>2, <1>4, <1>8
<1>10. t = 0 => f = n + 1
  BY <1>3, <1>4, <1>8
<1>11. t = 0 => f = e + k
  BY <1>4, <1>7, <1>8
<1>12. t # 0 => f = e
  BY <1>4, <1>6
<1> QED BY <1>9, <1>10, <1>11, <1>12 DEF e, f, t

\* The fields of a snapshot that has applied a header.
LEMMA Applied ==
  ASSUME NEW s, DOMAIN s = Fields, NEW h, NEW p, p = PendingAfter(s, h), NEW a, a = Apply(s, h)
  PROVE  /\ DOMAIN a = Fields /\ a.number = h.number /\ a.hash = h.hash /\ a.epoch_length = EpochLengthAfter(s, h)
         /\ p # None /\ p.activate_at = h.number =>
              a.pending = None /\ a.validators = p.validators /\ a.turn_length = p.turn_length
         /\ ~(p # None /\ p.activate_at = h.number) =>
              a.pending = p /\ a.validators = s.validators /\ a.turn_length = s.turn_length
<1> DEFINE m == Advance(s, h)
<1>1. /\ DOMAIN m = Fields /\ m.number = h.number /\ m.hash = h.hash /\ m.epoch_length = EpochLengthAfter(s, h)
      /\ m.pending = p /\ m.validators = s.validators /\ m.turn_length = s.turn_length
  BY DEF Advance, Fields
<1>2. SwitchDue(s, h) <=> (p # None /\ p.activate_at = h.number)
  BY DEF SwitchDue
<1>3. CASE SwitchDue(s, h)
  <2>1. a = Switch(m, p)
    BY <1>3 DEF Apply
  <2> HIDE DEF m
  <2>2. /\ DOMAIN a = Fields /\ a.number = m.number /\ a.hash = m.hash /\ a.epoch_length = m.epoch_length
        /\ a.pending = None /\ a.validators = p.validators /\ a.turn_length = p.turn_length
    BY <1>1, <2>1 DEF Switch, Fields
  <2> QED BY <1>1, <1>2, <1>3, <2>2
<1>4. CASE ~SwitchDue(s, h)
  <2>1. a = m
    BY <1>4 DEF Apply
  <2> HIDE DEF m
  <2> QED BY <1>1, <1>2, <1>4, <2>1
<1> QED BY <1>3, <1>4

\* A refused header leaves the schedule alone.
LEMMA Refused ==
  ASSUME NEW s, DOMAIN s = Fields, NEW h, NEW a, a = Refuse(s, h)
  PROVE  DOMAIN a = Fields /\ a.number = s.number
BY DEF Refuse, Forget, Fields

-----------------------------------------------------------------------------
(* The full node. *)

LEMMA FullStep ==
  ASSUME FullSound, LengthSettled, LengthSettled', DelayWithinEpoch, NEW h \in Header, Seal(h)
  PROVE  FullSound'
<1> DEFINE n == full.number
           k == full.epoch_length
           e == EpochBlock
           d == PrevEpochBlock
           p == PendingAfter(full, h)
           D == DelayOf(epochs[d])
<1>1. /\ DOMAIN full = Fields /\ n \in Nat /\ k \in Nat \ {0} /\ e = (n \div k) * k /\ d = e - k
      /\ OnSchedule(full, d, e, epochs)
  BY DEF FullSound, EpochBlock, PrevEpochBlock
<1>2. h.number = n + 1 /\ full' = Apply(full, h)
  BY DEF Seal, Accepts, ReachesHistory, Links
<1>3. /\ h.validators \in ValidatorSet /\ h.turn_length \in Nat \ {0}
      /\ (n + 1) % k = 0 => h.validators # {}
  BY <1>2 DEF Header, Seal, Accepts, EpochExtraPresent, IsEpoch
<1>4. /\ DOMAIN full' = Fields /\ full'.number = n + 1 /\ full'.epoch_length = k
      /\ p # None /\ p.activate_at = n + 1 =>
           full'.pending = None /\ full'.validators = p.validators /\ full'.turn_length = p.turn_length
      /\ ~(p # None /\ p.activate_at = n + 1) =>
           full'.pending = p /\ full'.validators = full.validators /\ full'.turn_length = full.turn_length
  <2>1. full'.epoch_length = k
    BY DEF LengthSettled
  <2> HIDE DEF p
  <2>2. p = PendingAfter(full, h)
    BY DEF p
  <2> QED BY <1>1, <1>2, <2>1, <2>2, Applied
<1> DEFINE f == ((n + 1) \div k) * k
<1>5. EpochBlock' = f /\ PrevEpochBlock' = f - k
  BY <1>4 DEF EpochBlock, PrevEpochBlock
<1>6. /\ e \in Nat /\ e <= n /\ n < e + k
      /\ (n + 1) % k = 0 => f = n + 1 /\ f = e + k
      /\ (n + 1) % k # 0 => f = e
  <2> HIDE DEF n, k, e, f
  <2>1. f = ((n + 1) \div k) * k
    BY DEF f
  <2>2. n \in Nat /\ k \in Nat \ {0} /\ e = (n \div k) * k
    BY <1>1
  <2>3. e = EpochOf(n, k) /\ f = EpochOf(n + 1, k) /\ (n + 1) % k = Into(n + 1, k)
    BY <2>1, <2>2 DEF EpochOf, Into
  <2>4. e \in Nat /\ e <= n /\ n < e + k
    BY ONLY <2>2, <2>3, EpochStep
  <2>5. (n + 1) % k = 0 => f = n + 1 /\ f = e + k
    BY ONLY <2>2, <2>3, EpochStep
  <2>6. (n + 1) % k # 0 => f = e
    BY ONLY <2>2, <2>3, EpochStep
  <2> QED BY <2>4, <2>5, <2>6
<1>7. /\ d \in Nat /\ d < e /\ epochs \in [{d, e} -> Epoch] /\ D \in Nat
      /\ full.pending = None => n >= e + D /\ full.validators = epochs[e].validators /\ full.turn_length = epochs[e].turn_length
      /\ full.pending # None =>
           /\ n < e + D /\ full.validators = epochs[d].validators /\ full.turn_length = epochs[d].turn_length
           /\ full.pending = [epoch_block |-> e, activate_at |-> e + D,
                              validators |-> epochs[e].validators, turn_length |-> epochs[e].turn_length]
  <2>1. epochs \in [{d, e} -> Epoch]
    BY <1>1 DEF OnSchedule
  <2>2. D \in Nat
    BY <2>1, DelayOfIsNat
  <2> HIDE DEF e, d
  <2> QED BY <1>1, <2>1, <2>2 DEF OnSchedule
<1>8. CASE (n + 1) % k = 0
  <2>1. full.pending = None
    <3> SUFFICES ASSUME full.pending # None
                 PROVE  FALSE
      OBVIOUS
    <3>1. D = Delay(full)
      BY <1>7 DEF DelayOf, Delay
    <3>2. D < k
      BY <3>1 DEF DelayWithinEpoch
    <3>3. n < e + D /\ n + 1 = e + k
      BY <1>6, <1>7, <1>8
    <3> HIDE DEF n, k, e, D
    <3> QED BY <1>1, <1>6, <1>7, <3>2, <3>3
  <2> DEFINE new == [validators |-> h.validators, turn_length |-> h.turn_length]
             C == DelayOf(epochs[e])
             eps == [x \in {e, n + 1} |-> IF x = n + 1 THEN new ELSE epochs[x]]
  <2>2. C = Delay(full) /\ C \in Nat
    <3>1. C = Delay(full)
      BY <1>7, <2>1 DEF DelayOf, Delay
    <3> QED BY <1>7, <3>1, DelayOfIsNat
  <2>3. p = [epoch_block |-> n + 1, activate_at |-> n + 1 + C, validators |-> h.validators, turn_length |-> h.turn_length]
    BY <1>2, <1>8, <2>2 DEF PendingAfter, IsEpoch
  <2>4. p # None
    <3>1. p \in PendingEpoch
      <4> HIDE DEF n, C, p
      <4>1. n + 1 \in Nat /\ n + 1 + C \in Nat
        BY <1>1, <2>2
      <4> QED BY <1>1, <1>3, <1>8, <2>2, <2>3, <4>1 DEF PendingEpoch
    <3> QED BY <3>1, NoneIsNoRecord
  <2>5. epochs' = eps
    BY <1>2, <1>8 DEF Seal, IsEpoch
  <2>6. new \in Epoch /\ new.validators = h.validators /\ new.turn_length = h.turn_length
    BY <1>3, <1>8 DEF Epoch
  <2>7. eps \in [{e, n + 1} -> Epoch] /\ eps[e] = epochs[e] /\ eps[n + 1] = new
    <3>1. e # n + 1
      <4> HIDE DEF e, n
      <4> QED BY <1>1, <1>6
    <3>2. epochs[e] \in Epoch
      BY <1>7
    <3> HIDE DEF new, e, n
    <3> QED BY <2>6, <3>1, <3>2
  <2>8. EpochBlock' = n + 1 /\ PrevEpochBlock' = e
    <3> HIDE DEF f, n, k, e
    <3> QED BY <1>1, <1>5, <1>6, <1>8
  <2>9. OnSchedule(full', e, n + 1, eps)
    <3>1. DelayOf(eps[e]) = C
      BY <2>7
    <3>2. CASE C = 0
      <4>1. p.activate_at = n + 1
        <5> HIDE DEF C, p, n
        <5> QED BY <1>1, <2>3, <3>2
      <4>2. full'.pending = None /\ full'.validators = h.validators /\ full'.turn_length = h.turn_length
        <5>1. p.validators = h.validators /\ p.turn_length = h.turn_length
          <6> HIDE DEF p, C, n
          <6> QED BY <2>3
        <5> QED BY <1>4, <2>4, <4>1, <5>1
      <4> HIDE DEF n, e, C, eps, new
      <4> QED BY <1>1, <1>4, <1>6, <2>6, <2>7, <3>1, <3>2, <4>2 DEF OnSchedule
    <3>3. CASE C # 0
      <4>1. p.activate_at # n + 1
        <5> HIDE DEF C, p, n
        <5> QED BY <1>1, <2>2, <2>3, <3>3
      <4>2. full'.pending = p /\ full'.validators = epochs[e].validators /\ full'.turn_length = epochs[e].turn_length
        BY <1>4, <1>7, <2>1, <2>4, <4>1
      <4> HIDE DEF n, e, C, eps, new, p
      <4>3. n + 1 < n + 1 + C
        BY <1>1, <2>2, <3>3
      <4> QED BY <1>1, <1>4, <1>6, <2>3, <2>4, <2>6, <2>7, <3>1, <4>2, <4>3 DEF OnSchedule
    <3> QED BY <3>2, <3>3
  <2> HIDE DEF n, k, e, d, eps
  <2>10. full'.number \in Nat
    BY <1>1, <1>4
  <2> QED BY <1>1, <1>4, <2>5, <2>8, <2>9, <2>10 DEF FullSound
<1>9. CASE (n + 1) % k # 0
  <2>1. p = full.pending
    BY <1>2, <1>9 DEF PendingAfter, IsEpoch
  <2>2. epochs' = epochs
    BY <1>2, <1>9 DEF Seal, IsEpoch
  <2>3. EpochBlock' = e /\ PrevEpochBlock' = d
    <3> HIDE DEF f, n, k, e, d
    <3> QED BY <1>1, <1>5, <1>6, <1>9
  <2>4. OnSchedule(full', d, e, epochs)
    <3>1. CASE full.pending = None
      <4>1. full'.pending = None /\ full'.validators = full.validators /\ full'.turn_length = full.turn_length
        BY <1>4, <2>1, <3>1
      <4>2. n + 1 >= e + D
        <5> HIDE DEF n, e, D
        <5> QED BY <1>1, <1>6, <1>7, <3>1
      <4> HIDE DEF n, e, d
      <4> QED BY <1>4, <1>6, <1>7, <3>1, <4>1, <4>2 DEF OnSchedule
    <3>2. CASE full.pending # None /\ n + 1 = e + D
      <4>1. full.pending.activate_at = e + D /\ full.pending.validators = epochs[e].validators
            /\ full.pending.turn_length = epochs[e].turn_length
        <5> HIDE DEF e, d, D, n
        <5> QED BY <1>7, <3>2
      <4>2. full'.pending = None /\ full'.validators = epochs[e].validators /\ full'.turn_length = epochs[e].turn_length
        BY <1>4, <2>1, <3>2, <4>1
      <4>3. n + 1 >= e + D
        <5> HIDE DEF n, e, D
        <5> QED BY <1>1, <3>2
      <4> HIDE DEF n, e, d
      <4> QED BY <1>4, <1>6, <1>7, <4>2, <4>3 DEF OnSchedule
    <3>3. CASE full.pending # None /\ n + 1 # e + D
      <4>1. full.pending.activate_at = e + D
        <5> HIDE DEF e, d, D, n
        <5> QED BY <1>7, <3>3
      <4>2. full'.pending = full.pending /\ full'.validators = full.validators /\ full'.turn_length = full.turn_length
        BY <1>4, <2>1, <3>3, <4>1
      <4>3. n + 1 < e + D
        <5> HIDE DEF n, e, D
        <5> QED BY <1>1, <1>6, <1>7, <3>3
      <4> HIDE DEF n, e, d
      <4> QED BY <1>4, <1>6, <1>7, <3>3, <4>2, <4>3 DEF OnSchedule
    <3> QED BY <3>1, <3>2, <3>3
  <2> HIDE DEF n, k, e, d
  <2>5. full'.number \in Nat
    BY <1>1, <1>4
  <2> QED BY <1>1, <1>4, <2>2, <2>3, <2>4, <2>5 DEF FullSound
<1> QED BY <1>8, <1>9


-----------------------------------------------------------------------------
(* The client. *)

\* Two snapshots with one schedule have one after a header they both apply.
LEMMA SameAfter ==
  ASSUME NEW s, NEW t, NEW h, DOMAIN s = Fields, DOMAIN t = Fields, s.validators = t.validators,
         s.turn_length = t.turn_length, s.pending = t.pending, s.epoch_length = t.epoch_length,
         NEW a, a = Apply(s, h), NEW b, b = Apply(t, h)
  PROVE  /\ a.validators = b.validators /\ a.turn_length = b.turn_length /\ a.pending = b.pending
         /\ a.epoch_length = b.epoch_length
<1> DEFINE p == PendingAfter(s, h)
           q == PendingAfter(t, h)
<1>1. p = q /\ EpochLengthAfter(s, h) = EpochLengthAfter(t, h)
  BY DEF PendingAfter, IsEpoch, Delay, EpochLengthAfter
<1>2. p = PendingAfter(s, h) /\ q = PendingAfter(t, h)
  OBVIOUS
<1> HIDE DEF p, q
<1>3. /\ a.epoch_length = EpochLengthAfter(s, h)
      /\ p # None /\ p.activate_at = h.number =>
           a.pending = None /\ a.validators = p.validators /\ a.turn_length = p.turn_length
      /\ ~(p # None /\ p.activate_at = h.number) =>
           a.pending = p /\ a.validators = s.validators /\ a.turn_length = s.turn_length
  BY <1>2, Applied
<1>4. /\ b.epoch_length = EpochLengthAfter(t, h)
      /\ q # None /\ q.activate_at = h.number =>
           b.pending = None /\ b.validators = q.validators /\ b.turn_length = q.turn_length
      /\ ~(q # None /\ q.activate_at = h.number) =>
           b.pending = q /\ b.validators = t.validators /\ b.turn_length = t.turn_length
  BY <1>2, Applied
<1>5. CASE p # None /\ p.activate_at = h.number
  BY <1>1, <1>3, <1>4, <1>5
<1>6. CASE ~(p # None /\ p.activate_at = h.number)
  BY <1>1, <1>3, <1>4, <1>6
<1> QED BY <1>5, <1>6

LEMMA RefusedPending ==
  ASSUME FullSound
  PROVE  RefusesExactlyPending
<1>1. ActivateAt = EpochBlock + DelayOf(epochs[PrevEpochBlock])
  BY DEF ActivateAt, DelayOf
<1> DEFINE a == EpochBlock + DelayOf(epochs[PrevEpochBlock])
<1>2. full.pending = None => full.number >= a
  BY DEF FullSound, OnSchedule
<1>3. full.pending # None => full.number < a
  BY DEF FullSound, OnSchedule
<1>4. a \in Nat /\ full.number \in Nat
  <2>1. epochs[PrevEpochBlock] \in Epoch /\ EpochBlock \in Nat /\ full.number \in Nat
    BY DEF FullSound, OnSchedule
  <2>2. DelayOf(epochs[PrevEpochBlock]) \in Nat
    BY <2>1, DelayOfIsNat
  <2> QED BY <2>1, <2>2
<1>5. SeedActive <=> full.number >= a
  BY <1>1 DEF SeedActive
<1> HIDE DEF a
<1>6. full.number >= a <=> full.pending = None
  BY <1>2, <1>3, <1>4
<1> QED BY <1>5, <1>6 DEF RefusesExactlyPending

\* A client that starts has the full node's schedule.
LEMMA SeedSound ==
  ASSUME FullSound, SeedActive, NEW votes, NEW b, b = Seed(votes)
  PROVE  /\ DOMAIN b = Fields /\ b.number = full.number
         /\ b.validators = full.validators /\ b.turn_length = full.turn_length
         /\ b.pending = full.pending /\ b.epoch_length = full.epoch_length
<1>1. full.pending = None
  BY RefusedPending DEF RefusesExactlyPending
<1>2. full.turn_length = epochs[EpochBlock].turn_length
  BY <1>1 DEF FullSound, OnSchedule
<1> DEFINE t == epochs[EpochBlock].turn_length
<1>3. b = FromCheckpoint(full.number, full.hash, full.epoch_length, full.validators, votes, t)
  BY DEF Seed
<1> HIDE DEF t
<1>4. /\ DOMAIN b = Fields /\ b.number = full.number /\ b.validators = full.validators /\ b.turn_length = t /\ b.pending = None
      /\ b.epoch_length = full.epoch_length
  BY <1>3 DEF FromCheckpoint, Fields
<1> QED BY <1>1, <1>2, <1>4 DEF t

-----------------------------------------------------------------------------
(* The theorems. *)

LEMMA GenesisSound == Init => BootstrapInv
<1> SUFFICES ASSUME Init
             PROVE  BootstrapInv
  OBVIOUS
<1>1. PICK g \in Genesis : full = g.full /\ epochs = g.epochs
  BY DEF Init
<1> DEFINE s == g.full
           e == (s.number \div s.epoch_length) * s.epoch_length
           d == e - s.epoch_length
<1>2. /\ s.number \in Nat /\ s.epoch_length \in EpochLengths /\ s.pending = None
      /\ d \in Nat /\ g.epochs \in [{d, e} -> Epoch]
      /\ s.validators = g.epochs[e].validators /\ s.turn_length = g.epochs[e].turn_length
      /\ s.number >= e + MinerHistoryCheckLen(Cardinality(g.epochs[d].validators), g.epochs[d].turn_length)
      /\ DOMAIN s = DOMAIN FromCheckpoint(0, s.hash, 0, {}, {}, 0)
  BY GenesisSettled
<1>3. s.epoch_length \in Nat \ {0}
  BY <1>2, SnapshotConstants DEF EpochLengths
<1>4. e \in Nat /\ d < e
  <2> DEFINE k == s.epoch_length
             n == s.number
             q == n \div k
  <2>1. q \in Nat /\ k \in Nat \ {0}
    <3>1. n \in Nat /\ k \in Nat \ {0}
      BY <1>2, <1>3
    <3> HIDE DEF n, k
    <3> QED BY ONLY <3>1
  <2>2. e = q * k /\ d = e - k
    OBVIOUS
  <2> HIDE DEF q, k, e, d
  <2>3. q * k \in Nat
    BY <2>1
  <2> QED BY <2>1, <2>2, <2>3
<1>5. EpochBlock = e /\ PrevEpochBlock = d
  BY <1>1 DEF EpochBlock, PrevEpochBlock
<1>6. DOMAIN s = Fields
  BY <1>2 DEF FromCheckpoint, Fields
<1> HIDE DEF e, d
<1>7. OnSchedule(full, d, e, epochs)
  BY <1>1, <1>2, <1>4 DEF OnSchedule, DelayOf
<1>8. FullSound
  BY <1>1, <1>2, <1>3, <1>5, <1>6, <1>7 DEF FullSound
<1> QED BY <1>8 DEF Init, BootstrapInv, BootSound, SameSchedule, InStep

LEMMA BootStep ==
  ASSUME BootstrapInv, LengthSettled, LengthSettled', DelayWithinEpoch, [Next]_vars
  PROVE  BootstrapInv'
<1>1. FullSound /\ BootSound /\ SameSchedule
  BY DEF BootstrapInv
<1>2. ASSUME NEW votes, boot' = Seed(votes), SeedActive, UNCHANGED <<full, epochs>>
      PROVE  BootstrapInv'
  <2> DEFINE b == boot'
  <2>1. b = Seed(votes)
    BY <1>2
  <2> HIDE DEF b
  <2>2. /\ DOMAIN b = Fields /\ b.number = full.number /\ b.validators = full.validators /\ b.turn_length = full.turn_length
        /\ b.pending = full.pending /\ b.epoch_length = full.epoch_length
    BY <1>1, <1>2, <2>1, SeedSound
  <2>3. FullSound'
    BY <1>1, <1>2 DEF FullSound, PrevEpochBlock, EpochBlock
  <2>4. BootSound' /\ SameSchedule'
    <3>1. b.number \in Nat /\ b.number <= full.number
      BY <1>1, <2>2 DEF FullSound
    <3> QED BY <1>2, <2>2, <3>1 DEF b, BootSound, SameSchedule
  <2> QED BY <2>3, <2>4 DEF BootstrapInv
<1>3. ASSUME NEW votes, Start(votes)
      PROVE  BootstrapInv'
  BY <1>2, <1>3 DEF Start
<1>4. CASE Restart
  BY <1>2, <1>4 DEF Restart
<1>5. ASSUME NEW h \in Sealable(full), Seal(h)
      PROVE  BootstrapInv'
  <2>1. h \in Header
    BY <1>5 DEF Seal
  <2>2. FullSound'
    BY <1>1, <1>5, <2>1, FullStep
  <2>3. DOMAIN full = Fields /\ full' = Apply(full, h) /\ full'.number = h.number /\ h.number = full.number + 1
    <3>1. DOMAIN full = Fields /\ full' = Apply(full, h) /\ h.number = full.number + 1
      BY <1>1, <1>5 DEF FullSound, Seal, Accepts, ReachesHistory, Links
    <3> QED BY <3>1, Applied
  <2>4. CASE boot = None
    <3>1. boot' = None
      BY <1>5, <2>4 DEF Seal
    <3> QED BY <2>2, <3>1 DEF BootstrapInv, BootSound, SameSchedule, InStep
  <2>5. CASE boot # None /\ Accepts(boot, h)
    <3>1. boot' = Apply(boot, h) /\ DOMAIN boot = Fields
      BY <1>1, <1>5, <2>5 DEF Seal, BootSound
    <3>2. boot.number = full.number
      <4>1. h.number = boot.number + 1
        BY <2>5 DEF Accepts, ReachesHistory, Links
      <4>2. full.number \in Nat
        BY <1>1 DEF FullSound
      <4> QED BY <1>1, <2>3, <2>5, <4>1, <4>2 DEF BootSound
    <3>3. /\ boot.validators = full.validators /\ boot.turn_length = full.turn_length /\ boot.pending = full.pending
          /\ boot.epoch_length = full.epoch_length
      BY <1>1, <2>5, <3>2 DEF SameSchedule, InStep
    <3> DEFINE a == boot'
               b == full'
    <3>4. a = Apply(boot, h) /\ b = Apply(full, h)
      BY <2>3, <3>1
    <3> HIDE DEF a, b
    <3>5. /\ a.validators = b.validators /\ a.turn_length = b.turn_length /\ a.pending = b.pending
          /\ a.epoch_length = b.epoch_length
      BY <2>3, <3>1, <3>3, <3>4, SameAfter
    <3>6. DOMAIN a = Fields /\ a.number = h.number
      BY <3>1, <3>4, Applied
    <3>7. a.number \in Nat /\ a.number <= full'.number
      BY <1>1, <2>3, <3>6 DEF FullSound
    <3> QED BY <2>2, <3>5, <3>6, <3>7 DEF a, b, BootstrapInv, BootSound, SameSchedule
  <2>6. CASE boot # None /\ ~Accepts(boot, h)
    <3> DEFINE a == boot'
    <3>1. a = Refuse(boot, h) /\ DOMAIN boot = Fields
      BY <1>1, <1>5, <2>6 DEF Seal, BootSound
    <3> HIDE DEF a
    <3>2. DOMAIN a = Fields /\ a.number = boot.number
      BY <3>1, Refused
    <3>3. a.number \in Nat /\ a.number < full'.number /\ full'.number \in Nat
      BY <1>1, <2>3, <2>6, <3>2 DEF FullSound, BootSound
    <3>4. a.number # full'.number /\ a.number <= full'.number
      BY <3>3
    <3> QED BY <2>2, <3>2, <3>3, <3>4 DEF a, BootstrapInv, BootSound, SameSchedule, InStep
  <2> QED BY <2>4, <2>5, <2>6
<1>6. CASE UNCHANGED vars
  BY <1>1, <1>6 DEF vars, BootstrapInv, FullSound, PrevEpochBlock, EpochBlock, BootSound, SameSchedule, InStep
<1> QED BY <1>3, <1>4, <1>5, <1>6 DEF Next

LEMMA BootstrapInvariant == Spec /\ []LengthSettled /\ []DelayWithinEpoch => []BootstrapInv
BY GenesisSound, BootStep, PTL DEF Spec

\* On any chain whose epoch length is settled and whose delays stay within an epoch, the
\* two epoch headers tell seed_epoch_state exactly whether a switch is still to come:
\* epoch_seed_at refuses the checkpoint while one is pending, and never otherwise.
THEOREM RefusesOnlyPendingSwitches == Spec /\ []LengthSettled /\ []DelayWithinEpoch => []RefusesExactlyPending
<1>1. BootstrapInv => RefusesExactlyPending
  BY RefusedPending DEF BootstrapInv
<1> QED BY <1>1, BootstrapInvariant, PTL

\* On any such chain, a client that starts (or restarts) from a checkpoint has the full
\* node's sealing set, turn length, announced switch and epoch length at its first block
\* and after every block it accepts, whatever the window and the votes it has not seen.
THEOREM ScheduleIsRebuilt == Spec /\ []LengthSettled /\ []DelayWithinEpoch => []SameSchedule
<1>1. BootstrapInv => SameSchedule
  BY DEF BootstrapInv
<1> QED BY <1>1, BootstrapInvariant, PTL


-----------------------------------------------------------------------------
(* Two snapshots of one chain: s has walked it all along, b from b.walk_start on. *)

Typed(s) ==
  /\ DOMAIN s = Fields /\ s.number \in Nat
  /\ s.validators \in ValidatorSet \ {{}} /\ s.turn_length \in Nat \ {0}
  /\ s.pending # None => s.pending.validators # {}

\* Votes go forward and are about blocks below the newest.
VoteBelow(att, number) ==
  att \in VoteData /\ att.source_number < att.target_number /\ att.target_number < number

Walked(s) ==
  /\ s.milli_known = TRUE /\ s.walk_start = 0
  /\ s.vote_set = s.validators /\ s.prev_vote_set # {}
  /\ s.set_changed_at \in 0 .. s.number
  /\ DOMAIN s.recents \subseteq 0 .. s.number
  /\ DOMAIN s.ancestors \subseteq 0 .. s.number
  /\ s.number \in DOMAIN s.ancestors /\ s.ancestors[s.number] = s.hash
  /\ s.attestation # None => VoteBelow(s.attestation, s.number)

SameTip(b, s) ==
  /\ DOMAIN b = Fields
  /\ b.number = s.number /\ b.hash = s.hash
  /\ b.validators = s.validators /\ b.turn_length = s.turn_length
  /\ b.pending = s.pending /\ b.epoch_length = s.epoch_length
  /\ b.vote_set = s.vote_set
  /\ b.walk_start \in 1 .. s.number + 1

\* The vote set before the last switch is known, or that switch was before the checkpoint.
SameGenerations(b, s) ==
  \/ b.set_changed_at = s.set_changed_at /\ b.prev_vote_set = s.prev_vote_set
  \/ b.set_changed_at = 0 /\ s.set_changed_at + 1 < b.walk_start

SameRecents(b, s) ==
  /\ DOMAIN b.recents = {x \in DOMAIN s.recents : x >= b.walk_start}
  /\ \A x \in DOMAIN b.recents : b.recents[x] = s.recents[x]

SameAncestors(b, s) ==
  /\ DOMAIN b.ancestors = {x \in DOMAIN s.ancestors : x + 1 >= b.walk_start}
  /\ \A x \in DOMAIN b.ancestors : b.ancestors[x] = s.ancestors[x]

\* att is b's vote and ref that of s, w the first block b walked: b has none while the justified
\* block lies before the checkpoint, and may name another finalized block only before w.
SameVotes(att, ref, w) ==
  /\ att = None => ref = None \/ ref.target_number + 1 < w
  /\ att # None =>
       /\ ref # None /\ att \in VoteData /\ att.target_number + 1 >= w
       /\ att.target_number = ref.target_number /\ att.target_hash = ref.target_hash
       /\ \/ att.source_number = ref.source_number
          \/ att.source_number < w /\ ref.source_number < w

Follows(b, s) ==
  /\ SameTip(b, s) /\ SameGenerations(b, s) /\ SameRecents(b, s) /\ SameAncestors(b, s)
  /\ SameVotes(b.attestation, s.attestation, b.walk_start)

FollowInv == FullSound /\ Walked(full) /\ (boot # None => Follows(boot, full))

-----------------------------------------------------------------------------
(* One header, applied by both. *)

LEMMA FullTyped ==
  ASSUME FullSound
  PROVE  Typed(full)
<1> DEFINE d == PrevEpochBlock
           e == EpochBlock
<1>1. OnSchedule(full, d, e, epochs) /\ DOMAIN full = Fields /\ full.number \in Nat
  BY DEF FullSound
<1> HIDE DEF d, e
<1>2. epochs[d] \in Epoch /\ epochs[e] \in Epoch
  BY <1>1 DEF OnSchedule
<1>3. \A x \in Epoch : x.validators \in ValidatorSet \ {{}} /\ x.turn_length \in Nat \ {0}
  BY DEF Epoch
<1>4. CASE full.pending = None
  BY <1>1, <1>2, <1>3, <1>4 DEF OnSchedule, Typed
<1>5. CASE full.pending # None
  <2>1. full.pending.validators = epochs[e].validators
    BY <1>1, <1>5 DEF OnSchedule
  <2> QED BY <1>1, <1>2, <1>3, <1>5, <2>1 DEF OnSchedule, Typed
<1> QED BY <1>4, <1>5

LEMMA DelayTyped ==
  ASSUME NEW s, Typed(s)
  PROVE  Delay(s) \in Nat
<1>1. Cardinality(s.validators) \in Nat
  BY FS_Subset, FS_CardinalityType, SnapshotConstants DEF Typed, ValidatorSet
<1> QED BY <1>1, CheckLenIsNat DEF Typed, Delay

LEMMA MonusIsNat ==
  ASSUME NEW a \in Nat, NEW b \in Nat
  PROVE  Monus(a, b) \in Nat
BY DEF Monus

\* The fields of a snapshot that has applied a header, the ones Applied leaves out.
LEMMA AppliedRest ==
  ASSUME NEW s, DOMAIN s = Fields, NEW h, NEW p, p = PendingAfter(s, h), NEW a, a = Apply(s, h)
  PROVE  /\ a.attestation = AttestationAfter(s, h) /\ a.walk_start = s.walk_start
         /\ p # None /\ p.activate_at = h.number =>
              a.prev_vote_set = s.vote_set /\ a.vote_set = p.validators /\ a.set_changed_at = h.number
         /\ ~(p # None /\ p.activate_at = h.number) =>
              a.prev_vote_set = s.prev_vote_set /\ a.vote_set = s.vote_set /\ a.set_changed_at = s.set_changed_at
<1> DEFINE m == Advance(s, h)
<1>1. /\ DOMAIN m = Fields /\ m.number = h.number /\ m.attestation = AttestationAfter(s, h)
      /\ m.walk_start = s.walk_start
      /\ m.vote_set = s.vote_set /\ m.prev_vote_set = s.prev_vote_set /\ m.set_changed_at = s.set_changed_at
  BY DEF Advance, Fields
<1>2. SwitchDue(s, h) <=> (p # None /\ p.activate_at = h.number)
  BY DEF SwitchDue
<1>3. CASE SwitchDue(s, h)
  <2>1. a = Switch(m, p)
    BY <1>3 DEF Apply
  <2> HIDE DEF m
  <2>2. /\ a.attestation = m.attestation /\ a.walk_start = m.walk_start
        /\ a.prev_vote_set = m.vote_set /\ a.vote_set = p.validators
        /\ a.set_changed_at = m.number
    BY <1>1, <2>1 DEF Switch, Fields
  <2> QED BY <1>1, <1>2, <1>3, <2>2
<1>4. CASE ~SwitchDue(s, h)
  <2>1. a = m
    BY <1>4 DEF Apply
  <2> HIDE DEF m
  <2> QED BY <1>1, <1>2, <1>4, <2>1
<1> QED BY <1>3, <1>4

LEMMA AppliedMaps ==
  ASSUME NEW s, DOMAIN s = Fields, NEW h, NEW p, p = PendingAfter(s, h), NEW a, a = Apply(s, h)
  PROVE  /\ a.ancestors = AncestorsAfter(s, h) /\ a.milli_known = TRUE
         /\ p # None /\ p.activate_at = h.number => a.recents = [x \in {} |-> 0]
         /\ ~(p # None /\ p.activate_at = h.number) => a.recents = RecentsAfter(s, h)
<1> DEFINE m == Advance(s, h)
<1>1. DOMAIN m = Fields /\ m.ancestors = AncestorsAfter(s, h) /\ m.recents = RecentsAfter(s, h) /\ m.milli_known = TRUE
  BY DEF Advance, Fields
<1>2. SwitchDue(s, h) <=> (p # None /\ p.activate_at = h.number)
  BY DEF SwitchDue
<1>3. CASE SwitchDue(s, h)
  <2>1. a = Switch(m, p)
    BY <1>3 DEF Apply
  <2> HIDE DEF m
  <2>2. a.ancestors = m.ancestors /\ a.milli_known = m.milli_known /\ a.recents = [x \in {} |-> 0]
    BY <1>1, <2>1 DEF Switch, Fields
  <2> QED BY <1>1, <1>2, <1>3, <2>2
<1>4. CASE ~SwitchDue(s, h)
  <2>1. a = m
    BY <1>4 DEF Apply
  <2> HIDE DEF m
  <2> QED BY <1>1, <1>2, <1>4, <2>1
<1> QED BY <1>3, <1>4

\* What an adopted vote says.
LEMMA AdoptedNext ==
  ASSUME NEW s, Typed(s), NEW h \in Header, h.number = s.number + 1, AttestationAdopted(s, h)
  PROVE  LET data == h.attestation.data
         IN  /\ h.attestation # None /\ data \in VoteData /\ data.source_number < data.target_number
             /\ data.target_number <= s.number /\ TargetIsWalked(s, data) /\ SourceIsJustified(s, data)
<1> DEFINE data == h.attestation.data
<1>1. h.attestation # None
  BY DEF AttestationAdopted, AttestationIgnored
<1>2. h.attestation \in Attestation
  BY <1>1 DEF Header
<1>3. data \in VoteData
  BY <1>2 DEF Attestation
<1>4. /\ data.source_number < data.target_number /\ data.target_number \in AttestationTargetWindow(h.number, h.time)
      /\ TargetIsWalked(s, data) /\ SourceIsJustified(s, data)
  BY DEF AttestationAdopted
<1>5. data.target_number \in Nat
  BY <1>3 DEF VoteData
<1>6. Monus(h.number, 1) = s.number /\ s.number \in Nat
  BY DEF Typed, Monus
<1> HIDE DEF data
<1>7. data.target_number <= s.number
  <2> DEFINE low == Monus(s.number, AncestorGenerationDepth(h.number, h.time) - 1)
             t == data.target_number
  <2>1. t \in low .. s.number
    BY <1>4, <1>6 DEF AttestationTargetWindow
  <2> HIDE DEF low, t
  <2> QED BY <2>1 DEF t
<1> QED BY <1>1, <1>3, <1>4, <1>7 DEF data


LEMMA AdoptGoesForward ==
  ASSUME NEW cur, NEW data \in VoteData, NEW n \in Nat, cur # None => VoteBelow(cur, n),
         data.source_number < data.target_number, data.target_number <= n,
         cur # None => data.source_number = cur.target_number
  PROVE  /\ Adopt(cur, data) \in VoteData /\ VoteBelow(Adopt(cur, data), n + 1) /\ Adopt(cur, data) # None
         /\ Adopt(cur, data).target_number = data.target_number /\ Adopt(cur, data).target_hash = data.target_hash
<1>0. /\ data.source_number \in Nat /\ data.target_number \in Nat /\ data.target_hash \in Hash
  BY DEF VoteData
<1>1. CASE cur # None /\ data.source_number + 1 # data.target_number
  <2> DEFINE a == [cur EXCEPT !.target_number = data.target_number, !.target_hash = data.target_hash]
  <2>1. Adopt(cur, data) = a
    BY <1>1 DEF Adopt
  <2>2. cur \in VoteData /\ cur.source_number < cur.target_number /\ cur.target_number = data.source_number
    BY <1>1 DEF VoteBelow
  <2>3. /\ a \in VoteData /\ a.source_number = cur.source_number
        /\ a.target_number = data.target_number /\ a.target_hash = data.target_hash
    BY <1>0, <2>2 DEF VoteData
  <2>4. cur.source_number \in Nat /\ cur.target_number \in Nat
    BY <2>2 DEF VoteData
  <2> HIDE DEF a
  <2>5. a.source_number < a.target_number /\ a.target_number < n + 1
    BY <1>0, <2>2, <2>3, <2>4
  <2>6. a # None
    BY <2>3, NoneIsNoRecord
  <2> QED BY <2>1, <2>3, <2>5, <2>6 DEF VoteBelow
<1>2. CASE ~(cur # None /\ data.source_number + 1 # data.target_number)
  <2>1. Adopt(cur, data) = data
    BY <1>2 DEF Adopt
  <2>2. data.target_number < n + 1
    BY <1>0
  <2>3. data # None
    BY NoneIsNoRecord
  <2> QED BY <2>1, <2>2, <2>3 DEF VoteBelow
<1> QED BY <1>1, <1>2

\* The votes of s after a header.
LEMMA VoteStep ==
  ASSUME NEW s, Typed(s), Walked(s), NEW h \in Header, h.number = s.number + 1
  PROVE  AttestationAfter(s, h) # None => VoteBelow(AttestationAfter(s, h), h.number)
<1> DEFINE cur == s.attestation
           data == h.attestation.data
           n == s.number
<1>1. n \in Nat /\ h.number = n + 1 /\ (cur # None => VoteBelow(cur, n))
  BY DEF Typed, Walked
<1>2. CASE AttestationAdopted(s, h)
  <2>1. /\ data \in VoteData /\ data.source_number < data.target_number /\ data.target_number <= n
        /\ (cur # None => data.source_number = cur.target_number)
    BY <1>2, AdoptedNext DEF SourceIsJustified
  <2>2. AttestationAfter(s, h) = Adopt(cur, data)
    BY <1>2 DEF AttestationAfter
  <2> HIDE DEF cur, data, n
  <2>3. VoteBelow(Adopt(cur, data), n + 1)
    BY <1>1, <2>1, AdoptGoesForward
  <2> QED BY <1>1, <2>2, <2>3
<1>3. CASE ~AttestationAdopted(s, h)
  <2>1. AttestationAfter(s, h) = cur
    BY <1>3 DEF AttestationAfter
  <2> HIDE DEF cur, n
  <2> SUFFICES ASSUME cur # None
               PROVE  VoteBelow(cur, n + 1)
    BY <1>1, <2>1
  <2>2. VoteBelow(cur, n) /\ cur.target_number \in Nat
    BY <1>1 DEF VoteBelow, VoteData
  <2> QED BY <1>1, <2>2 DEF VoteBelow
<1> QED BY <1>2, <1>3

\* The ancestors after a header.
LEMMA AncestorDomain ==
  ASSUME NEW s, NEW n \in Nat, DOMAIN s.ancestors \subseteq 0 .. n, NEW h, h.number = n + 1,
         NEW a, a = AncestorsAfter(s, h)
  PROVE  /\ DOMAIN a = {c \in DOMAIN s.ancestors \cup {n + 1} : c + K_ANCESTOR_GENERATION_DEPTH > n + 1}
         /\ DOMAIN a \subseteq 0 .. n + 1 /\ n + 1 \in DOMAIN a
<1> DEFINE K == K_ANCESTOR_GENERATION_DEPTH
           D == {c \in DOMAIN s.ancestors \cup {n + 1} : c + K > n + 1}
<1>1. a = [x \in D |-> IF x = n + 1 THEN h.hash ELSE s.ancestors[x]]
  BY DEF AncestorsAfter
<1>2. K \in Nat \ {0}
  BY SnapshotConstants
<1> HIDE DEF K
<1>3. D \subseteq 0 .. n + 1
  BY <1>2
<1>4. n + 1 \in D
  BY <1>2
<1>5. DOMAIN a = D
  BY <1>1
<1> HIDE DEF D
<1> QED BY <1>3, <1>4, <1>5 DEF D, K

LEMMA AncestorValues ==
  ASSUME NEW s, NEW h, NEW a, a = AncestorsAfter(s, h), NEW x \in DOMAIN a
  PROVE  a[x] = IF x = h.number THEN h.hash ELSE s.ancestors[x]
BY DEF AncestorsAfter

\* What the full node knows stays known.
LEMMA WalkedStep ==
  ASSUME NEW s, Typed(s), Walked(s), NEW h \in Header, Accepts(s, h)
  PROVE  Walked(Apply(s, h))
<1> DEFINE a == Apply(s, h)
           p == PendingAfter(s, h)
           n == s.number
<1>1. n \in Nat /\ h.number = n + 1 /\ DOMAIN s = Fields
  BY DEF Typed, Accepts, ReachesHistory, Links
<1>2. p = PendingAfter(s, h) /\ a = Apply(s, h)
  OBVIOUS
<1>3. p # None => p.validators # {}
  <2>1. CASE IsEpoch(s, h.number)
    <3>1. p.validators = h.validators /\ h.validators # {}
      BY <2>1 DEF PendingAfter, Accepts, EpochExtraPresent
    <3> QED BY <3>1
  <2>2. CASE ~IsEpoch(s, h.number)
    BY <2>2 DEF PendingAfter, Typed
  <2> QED BY <2>1, <2>2
<1>4. s.vote_set # {} /\ s.vote_set = s.validators /\ s.prev_vote_set # {} /\ s.set_changed_at \in 0 .. n
  BY DEF Typed, Walked
<1>5. a.attestation # None => VoteBelow(a.attestation, h.number)
  <2>1. a.attestation = AttestationAfter(s, h)
    BY <1>1, <1>2, AppliedRest
  <2> QED BY <1>1, <2>1, VoteStep
<1>6. /\ DOMAIN a.ancestors \subseteq 0 .. n + 1
      /\ n + 1 \in DOMAIN a.ancestors /\ a.ancestors[n + 1] = h.hash
  <2>1. a.ancestors = AncestorsAfter(s, h)
    BY <1>1, <1>2, AppliedMaps
  <2>2. DOMAIN s.ancestors \subseteq 0 .. n
    BY DEF Walked
  <2> DEFINE anc == a.ancestors
  <2>3. anc = AncestorsAfter(s, h)
    BY <2>1
  <2> HIDE DEF anc, a, n
  <2>4. DOMAIN anc \subseteq 0 .. n + 1
    BY <1>1, <2>2, <2>3, AncestorDomain
  <2>5. n + 1 \in DOMAIN anc
    BY <1>1, <2>2, <2>3, AncestorDomain
  <2>6. anc[n + 1] = h.hash
    BY <1>1, <2>3, <2>5, AncestorValues
  <2> QED BY <2>4, <2>5, <2>6 DEF anc
<1>7. DOMAIN RecentsAfter(s, h) \subseteq 0 .. n + 1
  <2>1. DOMAIN RecentsAfter(s, h) \subseteq DOMAIN s.recents \cup {h.number}
    BY DEF RecentsAfter
  <2>2. DOMAIN s.recents \subseteq 0 .. n
    BY DEF Walked
  <2> HIDE DEF n
  <2> QED BY <1>1, <2>1, <2>2
<1> HIDE DEF p, a
<1>8. a.number = h.number /\ a.hash = h.hash /\ a.milli_known = TRUE /\ a.walk_start = s.walk_start /\ s.walk_start = 0
  <2>1. a.number = h.number /\ a.hash = h.hash
    BY <1>1, <1>2, Applied
  <2>2. a.milli_known = TRUE
    BY <1>1, <1>2, AppliedMaps
  <2>3. a.walk_start = s.walk_start
    BY <1>1, <1>2, AppliedRest
  <2> QED BY <2>1, <2>2, <2>3 DEF Walked
<1>9. CASE p # None /\ p.activate_at = h.number
  <2>1. /\ a.validators = p.validators /\ a.vote_set = p.validators /\ a.prev_vote_set = s.vote_set
        /\ a.set_changed_at = h.number /\ a.recents = [x \in {} |-> 0]
    <3>1. a.validators = p.validators
      BY <1>1, <1>2, <1>9, Applied
    <3>2. a.vote_set = p.validators
      BY <1>1, <1>2, <1>9, AppliedRest
    <3>4. a.prev_vote_set = s.vote_set
      BY <1>1, <1>2, <1>9, AppliedRest
    <3>5. a.set_changed_at = h.number
      BY <1>1, <1>2, <1>9, AppliedRest
    <3>3. a.recents = [x \in {} |-> 0]
      BY <1>1, <1>2, <1>9, AppliedMaps
    <3> QED BY <3>1, <3>2, <3>3, <3>4, <3>5
  <2>2. DOMAIN a.recents \subseteq 0 .. h.number /\ a.set_changed_at \in 0 .. h.number
    <3> HIDE DEF n
    <3> QED BY <1>1, <2>1
  <2> HIDE DEF n
  <2> QED BY <1>1, <1>4, <1>5, <1>6, <1>8, <2>1, <2>2 DEF Walked, a
<1>10. CASE ~(p # None /\ p.activate_at = h.number)
  <2>1. /\ a.validators = s.validators /\ a.vote_set = s.vote_set /\ a.prev_vote_set = s.prev_vote_set
        /\ a.set_changed_at = s.set_changed_at /\ a.recents = RecentsAfter(s, h)
    <3>1. a.validators = s.validators
      BY <1>1, <1>2, <1>10, Applied
    <3>2. a.vote_set = s.vote_set
      BY <1>1, <1>2, <1>10, AppliedRest
    <3>4. a.prev_vote_set = s.prev_vote_set
      BY <1>1, <1>2, <1>10, AppliedRest
    <3>5. a.set_changed_at = s.set_changed_at
      BY <1>1, <1>2, <1>10, AppliedRest
    <3>3. a.recents = RecentsAfter(s, h)
      BY <1>1, <1>2, <1>10, AppliedMaps
    <3> QED BY <3>1, <3>2, <3>3, <3>4, <3>5
  <2>2. DOMAIN a.recents \subseteq 0 .. h.number /\ a.set_changed_at \in 0 .. h.number
    <3> HIDE DEF n
    <3> QED BY <1>1, <1>4, <1>7, <2>1
  <2> HIDE DEF n
  <2> QED BY <1>1, <1>4, <1>5, <1>6, <1>8, <2>1, <2>2 DEF Walked, a
<1> QED BY <1>9, <1>10


\* The keys a vote is checked against are the same for every block b knows.
LEMMA SameKeys ==
  ASSUME NEW s, NEW b, Typed(s), Walked(s), SameTip(b, s), SameGenerations(b, s),
         NEW t \in Nat, t + 1 >= b.walk_start
  PROVE  AttestationSet(b, t) = AttestationSet(s, t)
<1>1. b.vote_set = s.vote_set /\ b.walk_start \in Nat /\ b.walk_start >= 1 /\ s.set_changed_at \in Nat
  <2>1. b.walk_start \in 1 .. s.number + 1 /\ s.set_changed_at \in 0 .. s.number /\ s.number \in Nat
    BY DEF SameTip, Walked, Typed
  <2> QED BY <2>1 DEF SameTip
<1>2. CASE b.set_changed_at = s.set_changed_at /\ b.prev_vote_set = s.prev_vote_set
  BY <1>1, <1>2 DEF AttestationSet
<1>3. CASE b.set_changed_at = 0 /\ s.set_changed_at + 1 < b.walk_start
  <2>1. Monus(t, 1) = t - 1 /\ t >= 1
    BY <1>1, <1>3 DEF Monus
  <2>2. ~(s.set_changed_at > Monus(t, 1)) /\ ~(b.set_changed_at > Monus(t, 1))
    BY <1>1, <1>3, <2>1
  <2> QED BY <1>1, <2>2 DEF AttestationSet
<1> QED BY <1>2, <1>3 DEF SameGenerations

LEMMA KeysKnown ==
  ASSUME NEW s, Typed(s), Walked(s), NEW t
  PROVE  AttestationSet(s, t) # {}
BY DEF Typed, Walked, AttestationSet

\* b refuses no vote that s lets through, and adopts the ones for blocks it has walked.
LEMMA VotesFollow ==
  ASSUME NEW s, NEW b, Typed(s), Walked(s), Follows(b, s), NEW h \in Header, h.number = s.number + 1,
         AttestationIgnored(s, h) \/ AttestationAdopted(s, h)
  PROVE  /\ AttestationIgnored(b, h) \/ AttestationAdopted(b, h)
         /\ AttestationAdopted(b, h) <=>
              AttestationAdopted(s, h) /\ h.attestation.data.target_number \in DOMAIN b.ancestors
<1> DEFINE data == h.attestation.data
           t == data.target_number
<1>1. CASE h.attestation = None
  BY <1>1 DEF AttestationIgnored, AttestationAdopted
<1>2. CASE h.attestation # None
  <2>1. t \in Nat /\ DOMAIN b.ancestors \subseteq DOMAIN s.ancestors
    <3>1. h.attestation \in Attestation
      BY <1>2 DEF Header
    <3>2. data \in VoteData
      BY <3>1 DEF Attestation
    <3> QED BY <3>2 DEF VoteData, Follows, SameAncestors
  <2>2. CASE t \notin DOMAIN b.ancestors
    <3>1. data.source_number < t /\ t \in AttestationTargetWindow(h.number, h.time)
      <4>1. CASE AttestationIgnored(s, h)
        BY <1>2, <4>1, KeysKnown DEF AttestationIgnored
      <4>2. CASE AttestationAdopted(s, h)
        BY <4>2 DEF AttestationAdopted
      <4> QED BY <4>1, <4>2
    <3>2. AttestationIgnored(b, h)
      BY <1>2, <2>2, <3>1 DEF AttestationIgnored
    <3> QED BY <2>2, <3>2 DEF AttestationAdopted
  <2>3. CASE t \in DOMAIN b.ancestors
    <3>1. t \in DOMAIN s.ancestors /\ b.ancestors[t] = s.ancestors[t] /\ t + 1 >= b.walk_start
      BY <2>3 DEF Follows, SameAncestors
    <3>2. AttestationSet(b, t) = AttestationSet(s, t)
      BY <2>1, <3>1, SameKeys DEF Follows
    <3>3. ~AttestationIgnored(s, h)
      BY <1>2, <3>1, KeysKnown DEF AttestationIgnored
    <3>4. ~AttestationIgnored(b, h)
      BY <1>2, <2>3, <3>2, KeysKnown DEF AttestationIgnored
    <3>5. SourceIsJustified(s, data) => SourceIsJustified(b, data)
      BY DEF Follows, SameVotes, SourceIsJustified
    <3>6. TargetIsWalked(s, data) => TargetIsWalked(b, data)
      BY <2>3, <3>1 DEF TargetIsWalked
    <3>7. AttestationAdopted(s, h)
      BY <3>3
    <3>8. AttestationAdopted(b, h)
      <4>1. /\ data.source_number < t /\ t \in AttestationTargetWindow(h.number, h.time) /\ TargetIsWalked(s, data)
            /\ SourceIsJustified(s, data) /\ SignatureVerifies(h.attestation, AttestationSet(s, t))
        BY <3>7 DEF AttestationAdopted
      <4>2. SignatureVerifies(h.attestation, AttestationSet(b, t))
        BY <3>2, <4>1
      <4> QED BY <3>4, <3>5, <3>6, <4>1, <4>2 DEF AttestationAdopted
    <3> QED BY <2>3, <3>7, <3>8
  <2> QED BY <2>2, <2>3
<1> QED BY <1>1, <1>2

\* Votes still agree after one that both adopt.
LEMMA AdoptSame ==
  ASSUME NEW w \in Nat, NEW data \in VoteData, data.source_number < data.target_number, data.target_number + 1 >= w,
         NEW att, NEW ref, SameVotes(att, ref, w),
         ref # None => /\ ref \in VoteData /\ ref.source_number < ref.target_number
                       /\ data.source_number = ref.target_number
  PROVE  SameVotes(Adopt(att, data), Adopt(ref, data), w)
<1> DEFINE a == Adopt(att, data)
           r == Adopt(ref, data)
           jump == data.source_number + 1 # data.target_number
<1>0. data # None /\ data.source_number \in Nat /\ data.target_number \in Nat /\ data.target_hash \in Hash
  BY NoneIsNoRecord DEF VoteData
<1>1. CASE ~jump \/ ref = None
  <2>1. a = data /\ r = data
    BY <1>1 DEF Adopt, SameVotes
  <2> HIDE DEF a, r
  <2>2. SameVotes(a, r, w)
    BY <1>0, <2>1 DEF SameVotes
  <2> QED BY <2>2 DEF a, r
<1>2. CASE jump /\ ref # None
  <2>1. r = [ref EXCEPT !.target_number = data.target_number, !.target_hash = data.target_hash]
    BY <1>2 DEF Adopt
  <2>2. ref \in VoteData /\ ref.source_number < ref.target_number /\ data.source_number = ref.target_number
        /\ ref.source_number \in Nat /\ ref.target_number \in Nat
    BY <1>2 DEF VoteData
  <2>3. /\ r \in VoteData /\ r.source_number = ref.source_number
        /\ r.target_number = data.target_number /\ r.target_hash = data.target_hash
    BY <1>0, <2>1, <2>2 DEF VoteData
  <2>4. r # None
    BY <2>3, NoneIsNoRecord
  <2>5. CASE att = None
    <3>1. a = data
      BY <2>5 DEF Adopt
    <3>2. ref.target_number + 1 < w
      BY <1>2, <2>5 DEF SameVotes
    <3> HIDE DEF a, r
    <3>3. a.source_number < w /\ r.source_number < w
      BY <1>0, <2>2, <2>3, <3>1, <3>2
    <3>4. SameVotes(a, r, w)
      BY <1>0, <2>3, <2>4, <3>1, <3>3 DEF SameVotes
    <3> QED BY <3>4 DEF a, r
  <2>6. CASE att # None
    <3>1. a = [att EXCEPT !.target_number = data.target_number, !.target_hash = data.target_hash]
      BY <1>2, <2>6 DEF Adopt
    <3>2. att \in VoteData /\ (att.source_number = ref.source_number \/ (att.source_number < w /\ ref.source_number < w))
      BY <2>6 DEF SameVotes
    <3>3. /\ a \in VoteData /\ a.source_number = att.source_number
          /\ a.target_number = data.target_number /\ a.target_hash = data.target_hash
      BY <1>0, <3>1, <3>2 DEF VoteData
    <3>4. a # None
      BY <3>3, NoneIsNoRecord
    <3> HIDE DEF a, r
    <3>5. SameVotes(a, r, w)
      BY <2>3, <2>4, <3>2, <3>3, <3>4 DEF SameVotes
    <3> QED BY <3>5 DEF a, r
  <2> QED BY <2>5, <2>6
<1> QED BY <1>1, <1>2

\* The votes of both after a header.
LEMMA VotesAfter ==
  ASSUME NEW s, NEW b, Typed(s), Walked(s), Follows(b, s), NEW h \in Header, h.number = s.number + 1,
         AttestationIgnored(s, h) \/ AttestationAdopted(s, h)
  PROVE  SameVotes(AttestationAfter(b, h), AttestationAfter(s, h), b.walk_start)
<1> DEFINE data == h.attestation.data
           att == b.attestation
           ref == s.attestation
           w == b.walk_start
<1>1. SameVotes(att, ref, w) /\ w \in Nat
  BY DEF Follows, SameTip, Typed
<1>2. AttestationAdopted(b, h) <=> AttestationAdopted(s, h) /\ data.target_number \in DOMAIN b.ancestors
  BY VotesFollow
<1>3. CASE ~AttestationAdopted(s, h)
  BY <1>1, <1>2, <1>3 DEF AttestationAfter
<1>4. CASE AttestationAdopted(s, h)
  <2>1. /\ data \in VoteData /\ data.source_number < data.target_number
        /\ TargetIsWalked(s, data) /\ SourceIsJustified(s, data)
    BY <1>4, AdoptedNext
  <2>2. ref # None => /\ ref \in VoteData /\ ref.source_number < ref.target_number
                      /\ data.source_number = ref.target_number
    BY <2>1 DEF Walked, VoteBelow, SourceIsJustified
  <2>3. AttestationAfter(s, h) = Adopt(ref, data)
    BY <1>4 DEF AttestationAfter
  <2>4. data.target_number \in DOMAIN b.ancestors <=> data.target_number + 1 >= w
    BY <2>1 DEF TargetIsWalked, Follows, SameAncestors
  <2>5. CASE data.target_number + 1 >= w
    <3>1. AttestationAfter(b, h) = Adopt(att, data)
      BY <1>2, <1>4, <2>4, <2>5 DEF AttestationAfter
    <3> HIDE DEF data, att, ref, w
    <3>2. SameVotes(Adopt(att, data), Adopt(ref, data), w)
      BY <1>1, <2>1, <2>2, <2>5, AdoptSame
    <3> QED BY <2>3, <3>1, <3>2 DEF w
  <2>6. CASE ~(data.target_number + 1 >= w)
    <3>1. AttestationAfter(b, h) = att
      BY <1>2, <2>4, <2>6 DEF AttestationAfter
    <3> HIDE DEF data, att, ref, w
    <3>2. data.target_number \in Nat /\ data.source_number \in Nat /\ data.target_number + 1 < w
      <4>1. data.target_number \in Nat /\ data.source_number \in Nat
        BY <2>1 DEF VoteData
      <4> QED BY <1>1, <2>6, <4>1
    <3>3. att = None
      <4> SUFFICES ASSUME att # None
                   PROVE  FALSE
        OBVIOUS
      <4>1. ref # None /\ att.target_number = ref.target_number /\ att.target_number + 1 >= w
        BY <1>1 DEF SameVotes
      <4>2. ref.target_number = data.source_number
        BY <2>2, <4>1
      <4> QED BY <1>1, <2>1, <3>2, <4>1, <4>2
    <3>4. Adopt(ref, data).target_number = data.target_number
      <4>1. CASE ref # None
        BY <2>1, <2>2, <4>1 DEF Adopt, VoteData
      <4>2. CASE ref = None
        BY <4>2 DEF Adopt
      <4> QED BY <4>1, <4>2
    <3>5. SameVotes(att, Adopt(ref, data), w)
      BY <3>2, <3>3, <3>4 DEF SameVotes
    <3> QED BY <2>3, <3>1, <3>5 DEF w
  <2> QED BY <2>5, <2>6
<1> QED BY <1>3, <1>4

\* A block that b has walked is pruned from the sealing history by both or by neither.
LEMMA SamePrune ==
  ASSUME NEW w \in Nat \ {0}, NEW n \in Nat, NEW att, NEW ref, SameVotes(att, ref, w), ref # None => VoteBelow(ref, n),
         NEW x \in Nat, x >= w
  PROVE  (x > IF att = None THEN 0 ELSE att.source_number) <=> (x > IF ref = None THEN 0 ELSE ref.source_number)
<1>1. ref # None => ref.source_number \in Nat /\ ref.target_number \in Nat /\ ref.source_number < ref.target_number
  BY DEF VoteBelow, VoteData
<1>2. att # None => att.source_number \in Nat
  BY DEF SameVotes, VoteData
<1>3. CASE att = None
  BY <1>1, <1>3 DEF SameVotes
<1>4. CASE att # None
  BY <1>1, <1>2, <1>4 DEF SameVotes
<1> QED BY <1>3, <1>4



\* What the seal limit reads, of both.
Paired(b, s) ==
  /\ b.number = s.number /\ s.number \in Nat
  /\ b.validators = s.validators /\ b.turn_length = s.turn_length /\ s.turn_length \in Nat
  /\ Delay(s) \in Nat /\ b.walk_start \in Nat
  /\ DOMAIN s.recents \subseteq 0 .. s.number /\ SameRecents(b, s)

LEMMA PairedFollows ==
  ASSUME NEW s, NEW b, Typed(s), Walked(s), Follows(b, s)
  PROVE  Paired(b, s)
<1>1. Delay(s) \in Nat
  BY DelayTyped
<1>2. b.walk_start \in Nat
  BY DEF Follows, SameTip, Typed
<1> QED BY <1>1, <1>2 DEF Paired, Typed, Walked, Follows, SameTip

LEMMA ForgetKeeps ==
  ASSUME NEW s, DOMAIN s = Fields, NEW f, f = Forget(s)
  PROVE  /\ f.number = s.number /\ f.validators = s.validators /\ f.turn_length = s.turn_length
         /\ f.walk_start = s.walk_start /\ Delay(f) = Delay(s)
         /\ f.recents = [x \in DOMAIN s.recents \ Forgotten(s) |-> s.recents[x]]
<1>1. /\ f.number = s.number /\ f.validators = s.validators /\ f.turn_length = s.turn_length
      /\ f.walk_start = s.walk_start
  BY DEF Forget, Fields
<1>2. f.recents = [x \in DOMAIN s.recents \ Forgotten(s) |-> s.recents[x]]
  BY DEF Forget, Fields
<1>3. Delay(f) = Delay(s)
  BY <1>1 DEF Delay
<1> QED BY <1>1, <1>2, <1>3

LEMMA PairedForget ==
  ASSUME NEW s, NEW b, DOMAIN s = Fields, DOMAIN b = Fields, Paired(b, s)
  PROVE  Paired(Forget(b), Forget(s))
<1> DEFINE f == Forget(s)
           g == Forget(b)
<1>1. f = Forget(s) /\ g = Forget(b)
  OBVIOUS
<1> HIDE DEF f, g
<1>2. /\ f.number = s.number /\ f.validators = s.validators /\ f.turn_length = s.turn_length /\ Delay(f) = Delay(s)
      /\ g.number = b.number /\ g.validators = b.validators /\ g.turn_length = b.turn_length
      /\ g.walk_start = b.walk_start
  <2>1. f.number = s.number /\ f.validators = s.validators /\ f.turn_length = s.turn_length /\ Delay(f) = Delay(s)
    BY <1>1, ForgetKeeps
  <2>2. g.number = b.number /\ g.validators = b.validators /\ g.turn_length = b.turn_length /\ g.walk_start = b.walk_start
    BY <1>1, ForgetKeeps
  <2> QED BY <2>1, <2>2
<1>3. Forgotten(b) = Forgotten(s)
  BY DEF Paired, Forgotten, Delay
<1>4. f.recents = [x \in DOMAIN s.recents \ Forgotten(s) |-> s.recents[x]]
  BY <1>1, ForgetKeeps
<1>5. g.recents = [x \in DOMAIN b.recents \ Forgotten(b) |-> b.recents[x]]
  BY <1>1, ForgetKeeps
<1>6. DOMAIN f.recents \subseteq DOMAIN s.recents
  BY <1>4
<1>7. SameRecents(b, s)
  BY DEF Paired
<1>8. DOMAIN g.recents = {x \in DOMAIN f.recents : x >= g.walk_start}
  <2>1. DOMAIN g.recents = DOMAIN b.recents \ Forgotten(s)
    BY <1>3, <1>5
  <2>2. DOMAIN f.recents = DOMAIN s.recents \ Forgotten(s)
    BY <1>4
  <2>3. DOMAIN b.recents = {x \in DOMAIN s.recents : x >= b.walk_start}
    BY <1>7 DEF SameRecents
  <2> QED BY <1>2, <2>1, <2>2, <2>3
<1>9. \A x \in DOMAIN g.recents : g.recents[x] = f.recents[x]
  <2> SUFFICES ASSUME NEW x \in DOMAIN g.recents
               PROVE  g.recents[x] = f.recents[x]
    OBVIOUS
  <2>1. x \in DOMAIN b.recents /\ x \in DOMAIN f.recents
    BY <1>5, <1>8
  <2>2. g.recents[x] = b.recents[x]
    BY <1>5
  <2>3. f.recents[x] = s.recents[x]
    BY <1>4, <2>1
  <2> QED BY <1>7, <2>1, <2>2, <2>3 DEF SameRecents
<1>10. Paired(g, f)
  BY <1>2, <1>6, <1>8, <1>9 DEF Paired, SameRecents
<1> QED BY <1>10 DEF f, g

\* b limits nobody whom s does not limit, and the same validators once it has walked the window.
LEMMA SameLimits ==
  ASSUME NEW s, NEW b, Paired(b, s), NEW v
  PROVE  /\ SignRecently(b, v) => SignRecently(s, v)
         /\ RecentsWindowWalked(b) => (SignRecently(b, v) <=> SignRecently(s, v))
<1> DEFINE S == SealedInWindow(s, v)
           B == SealedInWindow(b, v)
           m == Monus(s.number, Delay(s))
<1>1. m \in Nat /\ Delay(b) = Delay(s) /\ b.number = s.number
  <2>1. Delay(b) = Delay(s)
    BY DEF Paired, Delay
  <2> QED BY <2>1, MonusIsNat DEF Paired
<1>2. S = {x \in DOMAIN s.recents : x > m /\ s.recents[x] = v}
  BY DEF SealedInWindow
<1>3. B = {x \in DOMAIN b.recents : x > m /\ b.recents[x] = v}
  BY <1>1 DEF SealedInWindow
<1>4. DOMAIN b.recents = {x \in DOMAIN s.recents : x >= b.walk_start}
      /\ \A x \in DOMAIN b.recents : b.recents[x] = s.recents[x]
  BY DEF Paired, SameRecents
<1>5. DOMAIN s.recents \subseteq 0 .. s.number /\ s.number \in Nat /\ b.walk_start \in Nat
  BY DEF Paired
<1>6. RecentsWindowWalked(b) => m + 1 >= b.walk_start
  BY <1>1 DEF RecentsWindowWalked
<1> HIDE DEF S, B, m
<1>7. B \subseteq S
  BY <1>2, <1>3, <1>4
<1>8. RecentsWindowWalked(b) => S = B
  <2> SUFFICES ASSUME RecentsWindowWalked(b)
               PROVE  S \subseteq B
    BY <1>7
  <2> SUFFICES ASSUME NEW x \in S
               PROVE  x \in B
    OBVIOUS
  <2>1. x \in DOMAIN s.recents /\ x > m /\ s.recents[x] = v /\ x \in Nat
    BY <1>2, <1>5
  <2>2. x >= b.walk_start
    BY <1>1, <1>5, <1>6, <2>1
  <2> QED BY <1>3, <1>4, <2>1, <2>2
<1>9. IsFiniteSet(S)
  <2>1. IsFiniteSet(0 .. s.number)
    BY <1>5, FS_Interval
  <2>2. S \subseteq 0 .. s.number
    BY <1>2, <1>5
  <2> QED BY <2>1, <2>2, FS_Subset
<1>10. Cardinality(B) <= Cardinality(S) /\ Cardinality(B) \in Nat /\ Cardinality(S) \in Nat
  BY <1>7, <1>9, FS_Subset, FS_CardinalityType
<1>11. /\ SignRecently(b, v) <=> Cardinality(B) >= s.turn_length
       /\ SignRecently(s, v) <=> Cardinality(S) >= s.turn_length
  BY DEF SignRecently, B, S, Paired
<1>12. s.turn_length \in Nat
  BY DEF Paired
<1> QED BY <1>8, <1>10, <1>11, <1>12


\* b accepts what s accepts.
LEMMA FollowAccepts ==
  ASSUME NEW s, NEW b, Typed(s), Walked(s), Follows(b, s), NEW h \in Header, Accepts(s, h)
  PROVE  Accepts(b, h)
<1> DEFINE f == Forget(s)
           g == Forget(b)
<1>0. DOMAIN s = Fields /\ DOMAIN b = Fields /\ h.number = s.number + 1
  BY DEF Typed, Follows, SameTip, Accepts, ReachesHistory, Links
<1>1. f = Forget(s) /\ g = Forget(b)
  OBVIOUS
<1>2. ReachesHistory(b, h)
  <2>1. ReachesHistory(s, h)
    BY DEF Accepts
  <2>2. InturnValidator(b) = InturnValidator(s)
    BY DEF Follows, SameTip, InturnValidator
  <2>3. Links(b, h)
    BY <2>1 DEF ReachesHistory, Links, Follows, SameTip
  <2>4. SealerInTurn(b, h)
    BY <2>1, <2>2 DEF ReachesHistory, SealerInTurn, ExpectedDifficulty, Follows, SameTip
  <2> QED BY <2>1, <2>3, <2>4 DEF ReachesHistory
<1>3. Paired(g, f)
  BY <1>0, PairedFollows, PairedForget
<1>4. \A v : /\ SignRecently(g, v) => SignRecently(f, v)
             /\ RecentsWindowWalked(g) => (SignRecently(g, v) <=> SignRecently(f, v))
  BY <1>3, SameLimits
<1>5. WithinSealLimit(b, h)
  BY <1>4 DEF Accepts, WithinSealLimit
<1>6. BackoffBinds(g) => BackoffBinds(f)
  <2> SUFFICES ASSUME BackoffBinds(g)
               PROVE  BackoffBinds(f)
    OBVIOUS
  <2>1. f.walk_start = 0 /\ f.milli_known = TRUE
    <3>1. f.walk_start = s.walk_start
      BY <1>0, <1>1, ForgetKeeps
    <3>2. f.milli_known = s.milli_known
      BY <1>0 DEF Forget, Fields
    <3> QED BY <3>1, <3>2 DEF Walked
  <2> HIDE DEF f, g
  <2>2. InturnValidator(g) = InturnValidator(f)
    BY <1>3 DEF Paired, InturnValidator
  <2>3. RecentsWindowWalked(g) /\ ~SignRecently(g, InturnValidator(g))
    BY DEF BackoffBinds
  <2>4. ~SignRecently(f, InturnValidator(f))
    BY <1>4, <2>2, <2>3
  <2>5. RecentsWindowWalked(f)
    <3>1. Monus(f.number, Delay(f)) \in Nat
      BY <1>3, MonusIsNat DEF Paired
    <3> QED BY <2>1, <3>1 DEF RecentsWindowWalked
  <2> QED BY <2>1, <2>4, <2>5 DEF BackoffBinds
<1>7. BackedOff(b, h)
  BY <1>6 DEF Accepts, BackedOff
<1>8. AttestationIgnored(b, h) \/ AttestationAdopted(b, h)
  <2>1. AttestationIgnored(s, h) \/ AttestationAdopted(s, h)
    BY DEF Accepts
  <2> QED BY <1>0, <2>1, VotesFollow
<1>9. EpochExtraPresent(b, h)
  BY DEF Accepts, EpochExtraPresent, IsEpoch, Follows, SameTip
<1> QED BY <1>2, <1>5, <1>7, <1>8, <1>9 DEF Accepts

\* The map c is r from w on.
SameFrom(c, r, w) == DOMAIN c = {x \in DOMAIN r : x >= w} /\ \A x \in DOMAIN c : c[x] = r[x]

\* The sealing history of both after a header.
LEMMA RecentsFollow ==
  ASSUME NEW s, NEW b, Typed(s), Walked(s), Follows(b, s), NEW h \in Header, Accepts(s, h),
         NEW c, c = RecentsAfter(b, h), NEW r, r = RecentsAfter(s, h)
  PROVE  SameFrom(c, r, b.walk_start)
<1> DEFINE w == b.walk_start
           F == FinalizedAfter(s, h)
           G == FinalizedAfter(b, h)
           Q == DOMAIN s.recents \ Forgotten(s)
           P == DOMAIN b.recents \ Forgotten(b)
<1>1. Paired(b, s)
  BY PairedFollows
<1>2. /\ s.number \in Nat /\ h.number = s.number + 1 /\ w \in 1 .. s.number + 1
      /\ AttestationIgnored(s, h) \/ AttestationAdopted(s, h)
  BY DEF Typed, Accepts, ReachesHistory, Links, Follows, SameTip
<1>3. Forgotten(b) = Forgotten(s)
  BY <1>1 DEF Paired, Forgotten, Delay
<1>4. P = {x \in Q : x >= w} /\ \A x \in P : b.recents[x] = s.recents[x]
  BY <1>1, <1>3 DEF Paired, SameRecents
<1>5. DOMAIN c = {x \in P \cup {h.number} : h.time >= MAXWELL_TIME => x > G}
      /\ \A x \in DOMAIN c : c[x] = IF x = h.number THEN h.signer ELSE b.recents[x]
  BY DEF RecentsAfter
<1>6. DOMAIN r = {x \in Q \cup {h.number} : h.time >= MAXWELL_TIME => x > F}
      /\ \A x \in DOMAIN r : r[x] = IF x = h.number THEN h.signer ELSE s.recents[x]
  BY DEF RecentsAfter
<1>7. ASSUME NEW x \in Nat, x >= w
      PROVE  x > G <=> x > F
  <2> DEFINE att == AttestationAfter(b, h)
             ref == AttestationAfter(s, h)
  <2>1. SameVotes(att, ref, w)
    BY <1>2, VotesAfter
  <2>2. ref # None => VoteBelow(ref, h.number)
    BY <1>2, VoteStep
  <2>3. G = (IF att = None THEN 0 ELSE att.source_number) /\ F = (IF ref = None THEN 0 ELSE ref.source_number)
    BY DEF FinalizedAfter
  <2>4. w \in Nat \ {0} /\ h.number \in Nat
    BY <1>2
  <2> HIDE DEF att, ref, w, F, G
  <2> QED BY <1>7, <2>1, <2>2, <2>3, <2>4, SamePrune
<1>8. Q \subseteq Nat /\ h.number \in Nat /\ h.number >= w /\ w \in Nat
  BY <1>1, <1>2 DEF Paired
<1> HIDE DEF w, F, G, P, Q
<1>9. DOMAIN c = {x \in DOMAIN r : x >= w}
  <2> SUFFICES ASSUME NEW x
               PROVE  x \in DOMAIN c <=> x \in DOMAIN r /\ x >= w
    BY <1>5, <1>6
  <2>1. x \in DOMAIN c => x \in Nat /\ x >= w
    BY <1>4, <1>5, <1>8
  <2>2. x \in DOMAIN r => x \in Nat
    BY <1>6, <1>8
  <2>3. CASE x \in Nat /\ x >= w
    <3>1. x > G <=> x > F
      BY <1>7, <2>3
    <3>2. x \in P <=> x \in Q
      BY <1>4, <2>3
    <3> QED BY <1>5, <1>6, <2>3, <3>1, <3>2
  <2>4. CASE ~(x \in Nat /\ x >= w)
    BY <2>1, <2>2, <2>4
  <2> QED BY <2>3, <2>4
<1>10. \A x \in DOMAIN c : c[x] = r[x]
  BY <1>4, <1>5, <1>6, <1>9
<1> QED BY <1>9, <1>10 DEF w, SameFrom


\* The ancestors of both after a header.
LEMMA AncestorsFollow ==
  ASSUME NEW s, NEW b, Typed(s), Walked(s), Follows(b, s), NEW h \in Header, h.number = s.number + 1,
         NEW c, c = AncestorsAfter(b, h), NEW r, r = AncestorsAfter(s, h)
  PROVE  /\ DOMAIN c = {x \in DOMAIN r : x + 1 >= b.walk_start}
         /\ \A x \in DOMAIN c : c[x] = r[x]
<1> DEFINE w == b.walk_start
           n == s.number
           K == K_ANCESTOR_GENERATION_DEPTH
           Q == DOMAIN s.ancestors
           P == DOMAIN b.ancestors
<1>1. n \in Nat /\ w \in 1 .. n + 1 /\ h.number = n + 1 /\ Q \subseteq 0 .. n
  BY DEF Typed, Walked, Follows, SameTip
<1>2. P = {x \in Q : x + 1 >= w} /\ \A x \in P : b.ancestors[x] = s.ancestors[x]
  BY DEF Follows, SameAncestors
<1>3. P \subseteq 0 .. n
  BY <1>1, <1>2
<1>4. DOMAIN c = {x \in P \cup {n + 1} : x + K > n + 1}
  BY <1>1 DEF AncestorsAfter
<1>5. DOMAIN r = {x \in Q \cup {n + 1} : x + K > n + 1}
  BY <1>1 DEF AncestorsAfter
<1>6. \A x \in DOMAIN c : c[x] = IF x = n + 1 THEN h.hash ELSE b.ancestors[x]
  BY <1>1, AncestorValues
<1>7. \A x \in DOMAIN r : r[x] = IF x = n + 1 THEN h.hash ELSE s.ancestors[x]
  BY <1>1, AncestorValues
<1> HIDE DEF w, n, K, P, Q
<1>8. n + 1 + 1 >= w
  BY <1>1
<1>9. DOMAIN c = {x \in DOMAIN r : x + 1 >= w}
  BY <1>2, <1>4, <1>5, <1>8
<1>10. \A x \in DOMAIN c : c[x] = r[x]
  BY <1>2, <1>4, <1>6, <1>7, <1>9
<1> QED BY <1>9, <1>10 DEF w

\* One header keeps them together.
LEMMA FollowStep ==
  ASSUME NEW s, NEW b, Typed(s), Walked(s), Follows(b, s), NEW h \in Header, Accepts(s, h),
         NEW c, c = Apply(b, h), NEW r, r = Apply(s, h)
  PROVE  Follows(c, r)
<1> DEFINE p == PendingAfter(s, h)
           q == PendingAfter(b, h)
<1>0. Typed(s) /\ Walked(s) /\ Follows(b, s) /\ h \in Header /\ Accepts(s, h)
  OBVIOUS
<1>1. /\ DOMAIN s = Fields /\ DOMAIN b = Fields /\ s.number \in Nat /\ h.number = s.number + 1
      /\ AttestationIgnored(s, h) \/ AttestationAdopted(s, h)
  BY DEF Typed, Follows, SameTip, Accepts, ReachesHistory, Links
<1>2. p = q
  BY DEF PendingAfter, IsEpoch, Delay, Follows, SameTip
<1>3. p = PendingAfter(s, h) /\ r = Apply(s, h) /\ DOMAIN s = Fields
  BY <1>1
<1>13. p = PendingAfter(b, h) /\ c = Apply(b, h) /\ DOMAIN b = Fields
  BY <1>1, <1>2
<1> HIDE DEF p, q
<1>4. DOMAIN c = Fields /\ c.number = h.number /\ c.hash = h.hash
  BY <1>1, Applied
<1>5. r.number = h.number /\ r.hash = h.hash
  BY <1>1, Applied
<1>6. /\ c.validators = r.validators /\ c.turn_length = r.turn_length /\ c.pending = r.pending
      /\ c.epoch_length = r.epoch_length
  <2>1. /\ b.validators = s.validators /\ b.turn_length = s.turn_length /\ b.pending = s.pending
        /\ b.epoch_length = s.epoch_length
    BY DEF Follows, SameTip
  <2> QED BY <1>1, <2>1, SameAfter
<1>7. c.walk_start = b.walk_start
  BY <1>1, AppliedRest, ZenonT(60)
<1>8. b.walk_start \in 1 .. h.number + 1
  BY <1>1 DEF Follows, SameTip
<1>9. SameVotes(c.attestation, r.attestation, c.walk_start)
  <2>1. c.attestation = AttestationAfter(b, h)
    BY ONLY <1>13, AppliedRest, SMTT(30)
  <2>2. r.attestation = AttestationAfter(s, h)
    BY ONLY <1>3, AppliedRest, SMTT(30)
  <2> QED BY <1>1, <1>7, <2>1, <2>2, VotesAfter
<1>10. SameAncestors(c, r)
  <2> DEFINE x == c.ancestors
             y == r.ancestors
  <2>1. x = AncestorsAfter(b, h) /\ y = AncestorsAfter(s, h)
    BY <1>1, AppliedMaps
  <2> HIDE DEF x, y
  <2>2. DOMAIN x = {z \in DOMAIN y : z + 1 >= b.walk_start} /\ \A z \in DOMAIN x : x[z] = y[z]
    BY ONLY <1>0, <1>1, <2>1, AncestorsFollow
  <2> QED BY <1>7, <2>2 DEF SameAncestors, x, y
<1>11. CASE p # None /\ p.activate_at = h.number
  <2>1. c.vote_set = p.validators /\ c.prev_vote_set = b.vote_set /\ c.set_changed_at = h.number
    <3>1. c.vote_set = p.validators
      BY ONLY <1>13, <1>11, AppliedRest
    <3>2. c.prev_vote_set = b.vote_set
      BY ONLY <1>13, <1>11, AppliedRest
    <3>3. c.set_changed_at = h.number
      BY ONLY <1>13, <1>11, AppliedRest
    <3> QED BY <3>1, <3>2, <3>3
  <2>2. r.vote_set = p.validators /\ r.prev_vote_set = s.vote_set /\ r.set_changed_at = h.number
    <3>1. r.vote_set = p.validators
      BY ONLY <1>3, <1>11, AppliedRest
    <3>2. r.prev_vote_set = s.vote_set
      BY ONLY <1>3, <1>11, AppliedRest
    <3>3. r.set_changed_at = h.number
      BY ONLY <1>3, <1>11, AppliedRest
    <3> QED BY <3>1, <3>2, <3>3
  <2>3. c.recents = [x \in {} |-> 0]
    BY ONLY <1>13, <1>11, AppliedMaps
  <2>4. r.recents = [x \in {} |-> 0]
    BY ONLY <1>3, <1>11, AppliedMaps
  <2>5. SameRecents(c, r)
    BY <2>3, <2>4 DEF SameRecents
  <2>6. SameGenerations(c, r)
    BY <2>1, <2>2 DEF SameGenerations, Follows, SameTip
  <2>7. SameTip(c, r)
    BY <1>4, <1>5, <1>6, <1>7, <1>8, <2>1, <2>2 DEF SameTip
  <2> QED BY <1>9, <1>10, <2>5, <2>6, <2>7 DEF Follows
<1>12. CASE ~(p # None /\ p.activate_at = h.number)
  <2>1. c.vote_set = b.vote_set /\ c.prev_vote_set = b.prev_vote_set /\ c.set_changed_at = b.set_changed_at
    <3>1. c.vote_set = b.vote_set
      BY ONLY <1>13, <1>12, AppliedRest
    <3>2. c.prev_vote_set = b.prev_vote_set
      BY ONLY <1>13, <1>12, AppliedRest
    <3>3. c.set_changed_at = b.set_changed_at
      BY ONLY <1>13, <1>12, AppliedRest
    <3> QED BY <3>1, <3>2, <3>3
  <2>2. r.vote_set = s.vote_set /\ r.prev_vote_set = s.prev_vote_set /\ r.set_changed_at = s.set_changed_at
    <3>1. r.vote_set = s.vote_set
      BY ONLY <1>3, <1>12, AppliedRest
    <3>2. r.prev_vote_set = s.prev_vote_set
      BY ONLY <1>3, <1>12, AppliedRest
    <3>3. r.set_changed_at = s.set_changed_at
      BY ONLY <1>3, <1>12, AppliedRest
    <3> QED BY <3>1, <3>2, <3>3
  <2> DEFINE x == c.recents
             y == r.recents
  <2>3. x = RecentsAfter(b, h)
    BY ONLY <1>13, <1>12, AppliedMaps
  <2>4. y = RecentsAfter(s, h)
    BY ONLY <1>3, <1>12, AppliedMaps
  <2> HIDE DEF x, y
  <2>5. SameRecents(c, r)
    <3>1. SameFrom(x, y, b.walk_start)
      BY ONLY <1>0, <2>3, <2>4, RecentsFollow
    <3> QED BY <1>7, <3>1 DEF SameFrom, SameRecents, x, y
  <2>6. SameGenerations(c, r)
    BY <1>7, <2>1, <2>2 DEF SameGenerations, Follows
  <2>7. SameTip(c, r)
    BY <1>4, <1>5, <1>6, <1>7, <1>8, <2>1, <2>2 DEF SameTip, Follows
  <2> QED BY <1>9, <1>10, <2>5, <2>6, <2>7 DEF Follows
<1> QED BY <1>11, <1>12

\* A client that starts with vote keys, not on the block of a switch, follows.
LEMMA SeedFollows ==
  ASSUME FullSound, Walked(full), SeedActive, full.number # full.set_changed_at,
         NEW votes, votes = full.vote_set, NEW b, b = Seed(votes)
  PROVE  Follows(b, full)
<1> DEFINE n == full.number
           t == epochs[EpochBlock].turn_length
<1>1. /\ DOMAIN b = Fields /\ b.number = full.number /\ b.validators = full.validators
      /\ b.turn_length = full.turn_length /\ b.pending = full.pending /\ b.epoch_length = full.epoch_length
  BY SeedSound
<1>2. /\ n \in Nat /\ full.set_changed_at \in 0 .. n /\ DOMAIN full.recents \subseteq 0 .. n
      /\ DOMAIN full.ancestors \subseteq 0 .. n /\ n \in DOMAIN full.ancestors /\ full.ancestors[n] = full.hash
      /\ full.attestation # None => VoteBelow(full.attestation, n)
  BY DEF FullSound, Walked
<1>3. b = FromCheckpoint(n, full.hash, full.epoch_length, full.validators, votes, t)
  BY DEF Seed
<1> HIDE DEF t
<1>4. /\ b.hash = full.hash /\ b.vote_set = votes /\ b.set_changed_at = 0 /\ b.attestation = None
      /\ b.walk_start = n + 1
  BY <1>3 DEF FromCheckpoint
<1>5. b.recents = [x \in {} |-> 0] /\ b.ancestors = [x \in {n} |-> full.hash]
  BY <1>3 DEF FromCheckpoint
<1>6. SameTip(b, full)
  <2>1. b.walk_start \in 1 .. n + 1
    <3> HIDE DEF n
    <3> QED BY <1>2, <1>4
  <2> QED BY <1>1, <1>4, <2>1 DEF SameTip
<1>7. SameGenerations(b, full)
  <2>1. full.set_changed_at + 1 < n + 1
    BY <1>2
  <2> QED BY <1>4, <2>1 DEF SameGenerations
<1>8. SameRecents(b, full)
  <2>1. DOMAIN b.recents = {}
    BY <1>5
  <2>2. \A x \in DOMAIN full.recents : ~(x >= n + 1)
    <3> HIDE DEF n
    <3> QED BY <1>2
  <2> QED BY <1>4, <2>1, <2>2 DEF SameRecents
<1>9. SameAncestors(b, full)
  <2>1. DOMAIN b.ancestors = {n} /\ b.ancestors[n] = full.ancestors[n]
    BY <1>2, <1>5
  <2>2. \A x \in DOMAIN full.ancestors : x + 1 >= n + 1 <=> x = n
    <3> HIDE DEF n
    <3> QED BY <1>2
  <2> HIDE DEF n
  <2> QED BY <1>2, <1>4, <2>1, <2>2 DEF SameAncestors
<1>10. SameVotes(b.attestation, full.attestation, b.walk_start)
  <2>1. full.attestation # None => full.attestation.target_number + 1 < n + 1
    <3>1. full.attestation # None => full.attestation.target_number \in Nat /\ full.attestation.target_number < n
      BY <1>2 DEF VoteBelow, VoteData
    <3> HIDE DEF n
    <3> QED BY <1>2, <3>1
  <2> QED BY <1>4, <2>1 DEF SameVotes
<1> QED BY <1>6, <1>7, <1>8, <1>9, <1>10 DEF Follows


LEMMA FollowInit == Init => FollowInv
<1> SUFFICES ASSUME Init
             PROVE  FollowInv
  OBVIOUS
<1>1. FullSound
  BY GenesisSound DEF BootstrapInv
<1>2. Walked(full)
  <2>1. PICK g \in Genesis : full = g.full
    BY DEF Init
  <2> DEFINE s == g.full
  <2>2. /\ s.milli_known = TRUE /\ s.walk_start = 0
        /\ s.vote_set = s.validators /\ s.prev_vote_set # {}
        /\ s.set_changed_at \in 0 .. s.number
        /\ DOMAIN s.recents \subseteq 0 .. s.number
        /\ DOMAIN s.ancestors \subseteq 0 .. s.number
        /\ s.number \in DOMAIN s.ancestors /\ s.ancestors[s.number] = s.hash
        /\ s.attestation # None => VoteBelow(s.attestation, s.number)
    BY GenesisWalked DEF VoteBelow
  <2> HIDE DEF s
  <2>3. Walked(s)
    BY <2>2 DEF Walked
  <2> QED BY <2>1, <2>3 DEF s
<1>3. boot = None
  BY DEF Init
<1> QED BY <1>1, <1>2, <1>3 DEF FollowInv

LEMMA FollowNext ==
  ASSUME FollowInv, LengthSettled, LengthSettled', DelayWithinEpoch, Keyless = FALSE, AtActivation = FALSE, [Next]_vars
  PROVE  FollowInv'
<1>1. FullSound /\ Walked(full) /\ (boot # None => Follows(boot, full))
  BY DEF FollowInv
<1>2. Typed(full) /\ full.vote_set = full.validators
  BY <1>1, FullTyped DEF Walked
<1>3. ASSUME UNCHANGED <<full, epochs>>
      PROVE  FullSound' /\ Walked(full)'
  BY <1>1, <1>3 DEF FullSound, PrevEpochBlock, EpochBlock
<1>4. ASSUME NEW votes, votes = full.vote_set, boot' = Seed(votes), SeedActive, StartAllowed, UNCHANGED <<full, epochs>>
      PROVE  FollowInv'
  <2> DEFINE b == boot'
  <2>1. b = Seed(votes) /\ full.number # full.set_changed_at
    BY <1>4 DEF StartAllowed
  <2> HIDE DEF b
  <2>2. Follows(b, full)
    BY <1>1, <1>4, <2>1, SeedFollows
  <2> QED BY <1>3, <1>4, <2>2 DEF b, FollowInv
<1>5. ASSUME NEW votes \in {{}, full.validators}, Start(votes)
      PROVE  FollowInv'
  <2>1. votes = full.vote_set
    BY <1>2, <1>5 DEF Start
  <2> QED BY <1>4, <1>5, <2>1 DEF Start
<1>6. CASE Restart
  <2>1. boot.vote_set = full.vote_set
    BY <1>1, <1>6 DEF Restart, Follows, SameTip
  <2> QED BY <1>4, <1>6, <2>1 DEF Restart
<1>7. ASSUME NEW h \in Sealable(full), Seal(h)
      PROVE  FollowInv'
  <2>1. h \in Header /\ Accepts(full, h) /\ full' = Apply(full, h)
    BY <1>7 DEF Seal
  <2>2. FullSound'
    BY <1>1, <1>7, <2>1, FullStep
  <2> DEFINE f == full'
             c == boot'
  <2>3. f = Apply(full, h)
    BY <2>1
  <2> HIDE DEF f
  <2>4. Walked(f)
    BY <1>1, <1>2, <2>1, <2>3, WalkedStep
  <2>5. CASE boot = None
    <3>1. boot' = None
      BY <1>7, <2>5 DEF Seal
    <3> QED BY <2>2, <2>4, <3>1 DEF f, FollowInv
  <2>6. CASE boot # None
    <3>1. Accepts(boot, h)
      BY <1>1, <1>2, <2>1, <2>6, FollowAccepts
    <3>2. c = Apply(boot, h)
      BY <1>7, <2>6, <3>1 DEF Seal
    <3> HIDE DEF c
    <3>3. Follows(c, f)
      BY <1>1, <1>2, <2>1, <2>3, <2>6, <3>2, FollowStep
    <3> QED BY <2>2, <2>4, <3>3 DEF c, f, FollowInv
  <2> QED BY <2>5, <2>6
<1>8. CASE UNCHANGED vars
  BY <1>1, <1>3, <1>8 DEF vars, FollowInv
<1> QED BY <1>5, <1>6, <1>7, <1>8 DEF Next

LEMMA FollowInvariant ==
  ASSUME Keyless = FALSE, AtActivation = FALSE
  PROVE  Spec /\ []LengthSettled /\ []DelayWithinEpoch => []FollowInv
BY FollowInit, FollowNext, PTL DEF Spec

LEMMA FollowConverges ==
  ASSUME FollowInv
  PROVE  NeverWedged /\ Converges
<1>1. NeverWedged /\ SameSchedule
  BY DEF FollowInv, Follows, SameTip, NeverWedged, SameSchedule, InStep
<1>2. HistoryConverges
  <2> SUFFICES ASSUME InStep, RecentsWindowWalked(boot), NEW v
               PROVE  SignRecently(boot, v) <=> SignRecently(full, v)
    BY DEF HistoryConverges
  <2>1. Typed(full) /\ Walked(full) /\ Follows(boot, full)
    BY FullTyped DEF FollowInv, InStep
  <2>2. Paired(boot, full)
    BY <2>1, PairedFollows
  <2> QED BY <2>2, SameLimits
<1>3. JustifiedAgrees
  BY DEF FollowInv, InStep, Follows, SameVotes, JustifiedAgrees
<1> QED BY <1>1, <1>2, <1>3 DEF Converges

\* On any such chain, a client that starts with vote keys, and not on the block of a switch, never
\* refuses a header the full node accepted (apply_header), although its sealing history, its ancestors
\* and its votes begin at the checkpoint: what it cannot know it does not enforce.
THEOREM NeverWedges ==
  ASSUME Keyless = FALSE, AtActivation = FALSE
  PROVE  Spec /\ []LengthSettled /\ []DelayWithinEpoch => []NeverWedged
BY FollowInvariant, FollowConverges, PTL

\* Such a client has the full node's schedule at once, limits every validator as the full node does from
\* the first window that it has walked itself, and knows the full node's justified block from the first
\* vote that it adopts (sign_recently, adopt_attestation).
THEOREM ClientConverges ==
  ASSUME Keyless = FALSE, AtActivation = FALSE
  PROVE  Spec /\ []LengthSettled /\ []DelayWithinEpoch => []Converges
BY FollowInvariant, FollowConverges, PTL
=============================================================================
