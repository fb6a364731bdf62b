------------------------------ MODULE MCServer ------------------------------
(* One worker and the poller: two threads that sync, publish and panic in  *)
(* every order.  The requests are a scrape, a status, one that fails at    *)
(* each stage of the screening, and batches in which a handler's answer    *)
(* stands between members that have none.  The provider's tip moves by two *)
(* blocks at once, past the finality lag.                                  *)
EXTENDS Server

M(form, id, method) == [form |-> form, id |-> id, method |-> method]

Body(http, json, members) == [http |-> http, json |-> json, members |-> members]

Scrape == Body("scrape", "one", <<>>)

Single == Body("ok", "one", <<M("ok", 1, "syncStatus")>>)

Batches ==
  {Body("ok", "batch", <<M("ok", 1, "static"), M("notification", NoId, "read"), M("ok", 2, "read")>>),
   Body("ok", "batch", <<M("notv2", 1, "read"), M("ok", 2, "eth_syncing"), M("badid", NoId, "read")>>),
   Body("ok", "batch", <<M("params", 1, "read"), M("ok", 2, "eth_blockNumber"), M("ok", 3, "other")>>)}

TurnedAway ==
  {Body(http, "one", <<>>) : http \in {"host", "get", "type", "large"}}
    \cup {Body("ok", json, <<>>) : json \in {"garbage", "scalar", "batch"}}
    \cup {Body("ok", "one", <<M("notification", NoId, "read")>>),
          Body("ok", "batch", <<M("ok", 1, "static"), M("ok", 2, "static"), M("ok", 3, "static"), M("ok", 4, "static")>>)}

MCBodies == {Scrape, Single} \cup Batches \cup TurnedAway
=============================================================================
