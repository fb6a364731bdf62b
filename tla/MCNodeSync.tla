----------------------------- MODULE MCNodeSync -----------------------------
(***************************************************************************)
(* A tree of blocks for NodeSync.  The main branch is m1 .. m4.  Branch f  *)
(* leaves it after m3, branch h after m1; two more blocks follow m3: l4,   *)
(* which is late, and g4, which raises the gas limit.  Three blocks no     *)
(* honest chain contains: x5, whose seal is wrong, d5, whose gas limit is  *)
(* too low, and u5, sealed by a stranger.                                  *)
(***************************************************************************)
EXTENDS NodeSync, TLC

CONSTANTS poller, http, m1, m2, m3, m4, l4, g4, f4, f5, h2, h3, h4, h5, h6, x5, d5, u5

MCPath ==
  LET main == <<m1, m2, m3, m4>>
      f    == <<m1, m2, m3, f4, f5>>
      h    == <<m1, h2, h3, h4, h5, h6>>
      upto(s, b) == SubSeq(s, 1, CHOOSE i \in DOMAIN s : s[i] = b)
  IN  [b \in {m1, m2, m3, m4} |-> upto(main, b)]
      @@ [b \in {f4, f5} |-> upto(f, b)]
      @@ [b \in {h2, h3, h4, h5, h6} |-> upto(h, b)]
      @@ [b \in {l4, g4} |-> <<m1, m2, m3, b>>]
      @@ [b \in {x5, d5, u5} |-> <<m1, m2, m3, m4, b>>]

MCBlock == DOMAIN MCPath

MCBoots == {Start, None}

MCSealed == MCBlock \ {x5}

MCGood == MCBlock \ {x5, u5}

\* Clocks go with the height, two ticks per block, where one is the least.  l4, sealed out
\* of turn, is late by two: f5 and h5 are too early to follow it.
MCMilli ==
  [b \in MCBlock |-> IF b = l4 THEN 10 ELSE 2 * Len(MCPath[b])]

MCInterval == [b \in MCBlock |-> 1]

\* A gas limit moves by less than a tenth.  g4 goes up and f5 down, each within the bound
\* of its parent; from g4 to f5 it is too far.
MCGas ==
  [b \in MCBlock |-> CASE b = g4 -> 107
                       [] b = f5 -> 97
                       [] b = d5 -> 93
                       [] OTHER -> 100]

MCDivisor == [b \in MCBlock |-> 10]

\* A higher branch is heavier; of two as high, h is heavier than f, and f than the rest.
MCWeight ==
  [b \in MCBlock |-> 10 * Len(MCPath[b]) + CASE b \in {h2, h3, h4, h5, h6} -> 2
                                             [] b \in {f4, f5} -> 1
                                             [] OTHER -> 0]
=============================================================================
