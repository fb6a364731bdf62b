------------------------------- MODULE MCCall -------------------------------
(* Four accounts, one of them a contract "a" with slots, one "d" whose     *)
(* code differs between the states, on a trie of two-nibble keys that has  *)
(* branches, extensions, inlined leaves and absent keys.  The codes read   *)
(* along a path that depends on what they read: "A" takes three rounds,    *)
(* "B" more than the limits allow, "P" and "Q" precompiles and block       *)
(* hashes, "G" another slot when little gas is left, "F" the balance of a  *)
(* precompile.                                                             *)
EXTENDS Call

MCAccountKey ==
  [a |-> <<0, 0>>, b |-> <<0, 1>>, c |-> <<1, 0>>, d |-> <<1, 1>>]

MCSlotKey == [s1 |-> <<0, 0>>, s2 |-> <<0, 1>>, s3 |-> <<1, 1>>]

NoStore == [s \in DOMAIN MCSlotKey |-> 0]

Acc(bal, code, store) == [bal |-> bal, code |-> code, store |-> store]

MCWorlds ==
  LET ab == [NoStore EXCEPT !["s1"] = 1, !["s2"] = 2]
      ac == [NoStore EXCEPT !["s1"] = 2, !["s3"] = 1]
      g  == [NoStore EXCEPT !["s2"] = 1]
  IN {[a |-> Acc(0, "A", ab), b |-> Acc(1, "none", NoStore), c |-> Acc(0, "none", NoStore),
       d |-> Acc(0, "P", NoStore)],
      [a |-> Acc(0, "A", ac), b |-> Acc(0, "none", NoStore), c |-> Acc(2, "F", NoStore),
       d |-> Acc(0, "G", g)],
      [a |-> Acc(1, "B", ab), b |-> Acc(0, "none", NoStore), c |-> Acc(0, "F", NoStore),
       d |-> Acc(1, "Q", NoStore)]}

\* "local" holds something in all but the second state.
MCFunds == [w \in MCWorlds |-> [p \in Precompiles |-> IF p = "local" /\ w.d.code # "G" THEN 1 ELSE 0]]

Slot(a, s) == [op |-> "slot", a |-> a, s |-> s]

Hash(n) == [op |-> "hash", n |-> n]

Stop(out, refund) == [op |-> "stop", out |-> out, refund |-> refund]

MCOp(code, h) ==
  LET n == Len(h) - 2
  IN CASE code = "A" ->
            CASE n = 1 -> Slot("a", "s1")
              [] n = 2 -> Slot("a", IF h[4] = 1 THEN "s2" ELSE "s3")
              [] n = 3 -> Account("c")
              [] OTHER -> IF h[6].bal = 0 THEN Stop(h[4] + h[5], 1)
                          ELSE [op |-> "revert", out |-> h[5]]
       [] code = "B" ->
            CASE n = 1 -> Slot("a", "s1")
              [] n = 2 -> Slot("a", "s2")
              [] n = 3 -> Account("c")
              [] n = 4 -> Account("d")
              [] OTHER -> Stop(h[4], 0)
       [] code = "P" ->
            CASE n = 1 -> Called("local")
              [] n = 2 -> Hash(Number - 1)
              [] n = 3 -> Hash(0)
              [] n = 4 -> Called("bls")
              [] OTHER -> Stop(IF h[7].code = "native" THEN 1 ELSE 0, 0)
       [] code = "Q" ->
            CASE n = 1 -> IF h[1].bal = 1 THEN Called("bsc") ELSE Hash(Number - 2)
              [] OTHER -> Stop(0, 0)
       [] code = "G" ->
            CASE n = 1 -> [op |-> "gas"]
              [] n = 2 -> IF h[4] < 3 THEN Slot("d", "s2") ELSE Account("b")
              [] OTHER -> Stop(h[4], 0)
       [] code = "F" ->
            CASE n = 1 -> Account("local")
              [] OTHER -> Stop(h[4].bal, 0)
       [] code = "native" -> Stop(1, 0)
       [] OTHER -> Stop(0, 0)

Request(kind, to, from, gas, time, list) ==
  [kind |-> kind, to |-> to, from |-> from, coinbase |-> "b", gas |-> gas, limit |-> 9,
   time |-> time, list |-> list, large |-> FALSE]

MCRequests ==
  {Request("call", "a", "b", 0, 3, <<>>), Request("estimate", "a", "b", 0, 3, <<>>),
   Request("estimate", "a", "b", 1, 3, <<>>), Request("call", "a", "b", 1, 3, <<>>),
   Request("call", "a", "b", 4, 2, <<Fetch("a", <<"s1", "s2">>)>>),
   Request("call", "a", "b", 0, 3, <<Fetch("d", <<>>), Fetch("c", <<>>)>>),
   Request("call", "a", "b", 0, 3, <<Fetch("a", <<"s1", "s2">>), Fetch("a", <<"s3">>)>>),
   Request("call", "d", "a", 0, 1, <<>>), Request("estimate", "d", "a", 0, 2, <<Fetch("local", <<>>)>>),
   Request("call", "d", "b", 0, 0, <<>>), Request("estimate", "d", "b", 0, 3, <<>>),
   Request("call", "c", "c", 0, 3, <<>>), Request("call", "bsc", "b", 0, 3, <<>>),
   Request("call", "local", "b", 0, 3, <<>>),
   [Request("call", "a", "b", 0, 3, <<>>) EXCEPT !.large = TRUE]}
=============================================================================
