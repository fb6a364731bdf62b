----------------------------- MODULE MCUpstream -----------------------------
(* One height is verified and a provider's chain has up to six, so that a  *)
(* range is three batches of two, two of them side by side and one alone;  *)
(* a block of three transactions is a full batch and a rest.               *)
EXTENDS Upstream
=============================================================================
