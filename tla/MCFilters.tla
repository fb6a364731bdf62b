------------------------------ MODULE MCFilters ------------------------------
(***************************************************************************)
(* Filters for TLC.  A tick is 150 s: FILTER_TTL is two of them, and the   *)
(* chain gains up to 333 blocks in one, of which a filter's idle time of   *)
(* 666 is more than the 512 a chain keeps.  Scaled down by about 170:      *)
(* Rate 2, KEEP 3.  One id more than MAX_FILTERS, so that one is evicted.  *)
(***************************************************************************)
EXTENDS Filters

CONSTANTS w1, w2, Closed

\* Blocks 3 and 4 have together, and block 5 by itself, more logs than an answer may hold.
MCMatches == [n \in 1 .. Top |-> CASE n = 4 -> 2 [] n = 5 -> 3 [] OTHER -> 1]

\* A log filter that starts at the head and is closed at a height, and a block filter,
\* which is open.
MCRequest ==
  {[kind |-> "logs", from |-> 0, to |-> Closed],
   [kind |-> "blocks", from |-> 0, to |-> 0]}
=============================================================================
