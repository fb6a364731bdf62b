------------------------------- MODULE MCStore -------------------------------
(***************************************************************************)
(* Store for TLC: epochs of four blocks, whose sets have different delays. *)
(***************************************************************************)
EXTENDS Store, TLC

CONSTANTS t1, t2

\* The set announced at block 4 holds up the one after it longer than it was held up.
MCDelay(e) == IF e = 4 THEN 2 ELSE 1

\* The threads do the same work.
Symmetry == Permutations(Worker)
=============================================================================
