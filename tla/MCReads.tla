------------------------------- MODULE MCReads -------------------------------
(***************************************************************************)
(* Reads for TLC: two branches that part below the read heads a short      *)
(* chain has, blocks without, with one and with two transactions.          *)
(***************************************************************************)
EXTENDS Reads

MCWanted == {<<Block(2, "a"), 1>>, <<Block(4, "b"), 1>>}

MCTxCount == <<1, 2, 0, 1, 1>>
=============================================================================
