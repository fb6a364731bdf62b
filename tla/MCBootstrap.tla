---------------------------- MODULE MCBootstrap -----------------------------
(***************************************************************************)
(* Honest chains for Bootstrap.  The chain starts on the block where the   *)
(* set of its first epoch takes over, so that the full node's empty        *)
(* sealing history is the true one.  Block b's hash is b.                  *)
(***************************************************************************)
EXTENDS Bootstrap, FiniteSetsExt

CONSTANTS Sets, Turns, StartSets

MCHash == 0 .. MaxHeight + 1

Vote(sn, tn) ==
  [source_number |-> sn, source_hash |-> sn, target_number |-> tn, target_hash |-> tn]

MCGenesis ==
  {LET e == MAXWELL_EPOCH_LENGTH
       n == e + MinerHistoryCheckLen(Cardinality(S), turn)
       epoch == [validators |-> S, turn_length |-> turn]
   IN  [full |->
          [FromCheckpoint(n, n, e, S, S, turn) EXCEPT
             !.prev_vote_set  = S,
             !.set_changed_at = n,
             !.attestation    = Vote(n - 2, n - 1),
             !.milli_known    = TRUE,
             !.walk_start     = 0,
             !.ancestors      = [b \in n - 2 .. n |-> b]],
        epochs |-> [b \in {0, e} |-> epoch]] :
   S \in StartSets, turn \in Turns}

\* No vote, or one signed by all of the set that owes it, on the parent or its parent.
MCAttestations(s) ==
  {None} \cup
  {LET C == AttestationSet(s, t)
   IN  [data |-> Vote(JustifiedNumber(s), t), bits |-> {Rank(C, v) : v \in C}, voters |-> C] :
   t \in {b \in s.number - 1 .. s.number : b > JustifiedNumber(s)}}

Extras(s) == IF IsEpoch(s, s.number + 1) THEN Sets \X Turns ELSE {<<{}, 1>>}

MCSealable(s) ==
  {[number |-> s.number + 1, hash |-> s.number + 1, parent_hash |-> s.hash,
    time |-> FERMI_TIME, sealed |-> TRUE, signer |-> v,
    difficulty |-> ExpectedDifficulty(s, v), early |-> early, attestation |-> att,
    validators |-> x[1], turn_length |-> x[2]] :
   v \in s.validators, early \in BOOLEAN, att \in MCAttestations(s), x \in Extras(s)}
=============================================================================
