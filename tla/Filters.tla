------------------------------- MODULE Filters -------------------------------
(***************************************************************************)
(* Poll-based filters: the filter store, and the requests that install,    *)
(* poll and uninstall filters on several worker threads                    *)
(* (bin/helios-bsc/src/rpc_server/logs.rs).                                *)
(*                                                                         *)
(* A poll reads the store under its lock, releases it, syncs and reads     *)
(* blocks, and takes the lock again to move the cursor.  Every stretch     *)
(* between two locks is one action.                                        *)
(*                                                                         *)
(* Abstractions.  Cursors are heights, so the chain is the interval of     *)
(* heights it holds, which the sync loop moves up (module NodeSync).  What *)
(* a filter matches in a block is the number Matches of logs.  Receipts    *)
(* are bound to the block they are fetched for (module Reads), so a fetch  *)
(* succeeds or fails.                                                      *)
(*                                                                         *)
(* Each operator named X_Something is a plausible mistake in X: no         *)
(* definition uses it, and X replaced by it must break a property.         *)
(***************************************************************************)
EXTENDS Integers, FiniteSets, FiniteSetsExt, Functions

CONSTANTS
  Worker,
  NoFeed,
  MAX_FILTERS, FILTER_TTL, MAX_GET_LOGS_RANGE, MAX_GET_LOGS,
  KEEP,        \* blocks the verified chain holds
  SafeLag,     \* how far the head for reads is below the tip
  Rate,        \* blocks the chain gains per tick of the clock
  Matches,     \* Matches[n]: logs of block n the filters match
  Request,     \* filters that clients ask for
  MaxId, MaxTime

Id == 1 .. MaxId

\* The height of the chain never exceeds Top.
Top == Rate * MaxTime + KEEP

FeedRecord == [kind : {"logs", "blocks"}, start : Nat, told : SUBSET Nat]

ASSUME FilterConstants ==
  /\ IsFiniteSet(Worker)
  /\ NoFeed \notin FeedRecord
  /\ {MAX_FILTERS, FILTER_TTL, MAX_GET_LOGS_RANGE, KEEP, Rate, MaxId, MaxTime} \subseteq Nat \ {0}
  /\ SafeLag \in 0 .. KEEP - 1
  /\ MAX_GET_LOGS \in Nat
  /\ Matches \in [1 .. Top -> Nat]
  /\ Request \subseteq [kind : {"logs", "blocks"}, from : Nat, to : Nat]

VARIABLES
  filters,     \* the store: what each live id refers to
  next_id,
  now,         \* the clock that sweeps idle filters
  hi,          \* the height of the verified chain; it holds the newest KEEP blocks
  job,         \* job[w]: the request w is serving
  feed,        \* what clients have been told (module FilterFeed)
  raced        \* the filters two polls of which have overlapped

vars == <<filters, next_id, now, hi, job, feed, raced>>

Idle == [op |-> "idle"]

Lo == IF hi > KEEP THEN hi - KEEP + 1 ELSE 1

\* refresh: the head that reads are served at.
Safe == hi - SafeLag

-----------------------------------------------------------------------------
(* The store. *)

Without(store, gone) == Restrict(store, DOMAIN store \ gone)

Sweep(store) == Without(store, {f \in DOMAIN store : now - store[f].touched >= FILTER_TTL})

\* One filter more than the store may hold.
Evicted_Late(store) ==
  IF Cardinality(DOMAIN store) <= MAX_FILTERS THEN {store}
  ELSE {Without(store, {f}) : f \in {g \in DOMAIN store :
                                       \A h \in DOMAIN store : store[g].touched <= store[h].touched}}

\* A full store drops its least recently polled filter; which one of several, is open.
Evicted(store) ==
  IF Cardinality(DOMAIN store) < MAX_FILTERS THEN {store}
  ELSE {Without(store, {f}) : f \in {g \in DOMAIN store :
                                       \A h \in DOMAIN store : store[g].touched <= store[h].touched}}

\* The lowest id that is free.
NewId_Reused(store) == Min(Id \ DOMAIN store)

NewId(store) == next_id + 1

\* FilterStore::insert.
Insert(kind, from, to) ==
  \E store \in Evicted(Sweep(filters)) :
    LET f == NewId(store)
    IN  /\ next_id' = f
        /\ filters' = [g \in DOMAIN store \cup {f} |->
                         IF g = f THEN [kind |-> kind, from_block |-> from, to_block |-> to,
                                        cursor |-> from, touched |-> now]
                         ELSE store[g]]
        /\ feed' = [feed EXCEPT ![f] = [kind |-> kind, start |-> from, told |-> {}]]

\* The cursor stays on the last block that was reported.
Advanced_Short(f, to) ==
  IF f \in DOMAIN filters THEN [filters EXCEPT ![f].cursor = to] ELSE filters

\* The store with the cursor of a filter moved, if the filter is still there.
Advanced(f, to) ==
  IF f \in DOMAIN filters THEN [filters EXCEPT ![f].cursor = to + 1] ELSE filters

Done(w) == job' = [job EXCEPT ![w] = Idle]

-----------------------------------------------------------------------------
(* Installing and uninstalling. *)

\* eth_newFilter and eth_newBlockFilter, up to the store's lock: a block tag means the
\* head for reads, a block filter starts above it.
StartInstall(w, req) ==
  /\ job[w] = Idle
  /\ next_id + Cardinality({v \in Worker : job[v].op = "install"}) < MaxId
  /\ LET from == IF req.kind = "blocks" THEN Safe + 1 ELSE IF req.from = 0 THEN Safe ELSE req.from
     IN  job' = [job EXCEPT ![w] = [op |-> "install", kind |-> req.kind, from |-> from, to |-> req.to]]
  /\ UNCHANGED <<filters, next_id, now, hi, feed, raced>>

FinishInstall(w) ==
  /\ job[w].op = "install"
  /\ Insert(job[w].kind, job[w].from, job[w].to)
  /\ Done(w)
  /\ UNCHANGED <<now, hi, raced>>

UninstallFilter(f) ==
  /\ f <= next_id
  /\ filters' = Without(Sweep(filters), {f})
  /\ UNCHANGED <<next_id, now, hi, job, feed, raced>>

-----------------------------------------------------------------------------
(* Polling. *)

\* eth_getFilterChanges and eth_getFilterLogs sync first, and remember the head.
StartPoll(w, op, f) ==
  /\ job[w] = Idle
  /\ f <= next_id
  /\ job' = [job EXCEPT ![w] = [op |-> op, step |-> "look", f |-> f, head |-> Safe]]
  /\ UNCHANGED <<filters, next_id, now, hi, feed, raced>>

Span(op, flt, head) ==
  LET end == IF flt.to_block = 0 THEN head ELSE Min({flt.to_block, head})
  IN  [from |-> IF op = "logs" THEN flt.from_block ELSE flt.cursor,
       to   |-> IF op = "logs" THEN end ELSE Min({end, flt.cursor + MAX_GET_LOGS_RANGE - 1})]

\* Worker v has copied the cursor of f and has not moved it yet.
Polling(v, f) ==
  job[v].op = "changes" /\ job[v].step \in {"blocks", "hashes", "logs"} /\ job[v].f = f

\* Under the store's lock: find the filter, touch it, and copy what the poll needs.
Look(w) ==
  /\ job[w].op \in {"changes", "logs"} /\ job[w].step = "look"
  /\ \E store \in {Sweep(filters)} :
       IF job[w].f \notin DOMAIN store
       THEN filters' = store /\ Done(w)
       ELSE LET flt  == store[job[w].f]
                span == Span(job[w].op, flt, job[w].head)
            IN  /\ filters' = [store EXCEPT ![job[w].f].touched = now]
                /\ IF span.from > span.to \/ (job[w].op = "logs" /\ flt.kind = "blocks")
                   THEN Done(w)
                   ELSE job' = [job EXCEPT ![w] = [op |-> job[w].op, f |-> job[w].f, step |-> flt.kind,
                                                   from |-> span.from, to |-> span.to]]
  /\ raced' = IF \E v \in Worker \ {w} : Polling(v, job[w].f) THEN raced \cup {job[w].f} ELSE raced
  /\ UNCHANGED <<next_id, now, hi, feed>>

\* The cursor moves past the span, and the answer goes to the client.
Reply(w, blocks) ==
  /\ filters' = Advanced(job[w].f, job[w].to)
  /\ feed' = [feed EXCEPT ![job[w].f].told = @ \cup blocks]
  /\ Done(w)

\* A block filter reads the hashes of its span under the chain lock ...
ReadHashes(w) ==
  /\ job[w].op = "changes" /\ job[w].step = "blocks"
  /\ job' = [job EXCEPT ![w] = [op |-> "changes", step |-> "hashes", f |-> job[w].f,
                                from |-> job[w].from, to |-> job[w].to,
                                read |-> (job[w].from .. job[w].to) \cap (Lo .. hi)]]
  /\ UNCHANGED <<filters, next_id, now, hi, feed, raced>>

\* ... and moves the cursor under the store's.
ReplyHashes(w) ==
  /\ job[w].op = "changes" /\ job[w].step = "hashes"
  /\ Reply(w, job[w].read)
  /\ UNCHANGED <<next_id, now, hi, raced>>

\* logs_for_span over an upstream that serves every block: resolve_get_logs_blocks syncs
\* once more, and refuses a span that the chain does not hold whole; collect_logs counts.
LogsIn(from, to) == MapThenSumSet(LAMBDA n : Matches[n], from .. to)

LogsForSpan(from, to) ==
  IF to - from + 1 > MAX_GET_LOGS_RANGE \/ to > Safe \/ from < Lo THEN "error"
  ELSE IF LogsIn(from, to) > MAX_GET_LOGS THEN "capped"
  ELSE "ok"

\* Rounds up, and so never gets below two blocks.
Halved_Up(from, to) == from + (to - from + 1) \div 2

Halved(from, to) == from + (to - from) \div 2

\* What a poll does with the logs of its span: a span over the cap is halved, a single
\* block over the cap is refused, and so is a filter's whole range.
Fetched(w, outcome) ==
  \/ /\ outcome = "capped" /\ job[w].op = "changes" /\ job[w].from < job[w].to
     /\ job' = [job EXCEPT ![w].to = Halved(job[w].from, job[w].to)]
     /\ UNCHANGED <<filters, feed>>
  \/ /\ outcome = "ok" /\ job[w].op = "changes"
     /\ Reply(w, job[w].from .. job[w].to)
  \/ /\ \/ outcome = "error"
        \/ outcome = "capped" /\ (job[w].op = "logs" \/ job[w].from = job[w].to)
        \/ outcome = "ok" /\ job[w].op = "logs"
     /\ Done(w)
     /\ UNCHANGED <<filters, feed>>

FetchLogs(w, outcome) ==
  /\ job[w].op \in {"changes", "logs"} /\ job[w].step = "logs"
  /\ Fetched(w, outcome)
  /\ UNCHANGED <<next_id, now, hi, raced>>

\* The fetch with an upstream that answers.
ServedFetch(w) ==
  /\ job[w].op \in {"changes", "logs"} /\ job[w].step = "logs"
  /\ FetchLogs(w, LogsForSpan(job[w].from, job[w].to))

-----------------------------------------------------------------------------

\* Time passes, and the sync loop appends what the chain gained, or fails to.
Tick(k) ==
  /\ now < MaxTime
  /\ now' = now + 1
  /\ hi' = hi + k
  /\ UNCHANGED <<filters, next_id, job, feed, raced>>

Init ==
  /\ filters = <<>>
  /\ next_id = 0
  /\ now = 0
  /\ hi = KEEP
  /\ job = [w \in Worker |-> Idle]
  /\ feed = [f \in Id |-> NoFeed]
  /\ raced = {}

\* A thread goes on with the request it serves, and is not let down by the upstream.
Serve(w) ==
  \/ FinishInstall(w)
  \/ Look(w)
  \/ ReadHashes(w)
  \/ ReplyHashes(w)
  \/ ServedFetch(w)

Next ==
  \/ \E w \in Worker, req \in Request : StartInstall(w, req)
  \/ \E w \in Worker, op \in {"changes", "logs"}, f \in Id : StartPoll(w, op, f)
  \/ \E w \in Worker : Serve(w)
  \/ \E w \in Worker : FetchLogs(w, "error")
  \/ \E f \in Id : UninstallFilter(f)
  \/ \E k \in {0, Rate} : Tick(k)

Spec == Init /\ [][Next]_vars /\ \A w \in Worker : WF_vars(Serve(w))

-----------------------------------------------------------------------------
(* Properties. *)

\* Shapes, and the bound on the number of filters.
TypeOK ==
  /\ DOMAIN filters \subseteq 1 .. next_id
  /\ Cardinality(DOMAIN filters) <= MAX_FILTERS
  /\ \A f \in DOMAIN filters :
       filters[f] \in [kind : {"logs", "blocks"}, from_block : Nat, to_block : Nat,
                       cursor : Nat, touched : 0 .. now]
  /\ next_id \in 0 .. MaxId
  /\ now \in 0 .. MaxTime
  /\ hi \in KEEP .. Top
  /\ raced \subseteq Id

\* While no two polls of a filter overlap its cursor is exactly what its client has been
\* told of: nothing is reported twice.
ExactlyOnce ==
  \A f \in DOMAIN filters \ raced :
    LET passed == feed[f].start .. filters[f].cursor - 1
    IN  IF filters[f].kind = "logs" THEN feed[f].told = passed ELSE feed[f].told \subseteq passed

\* A filter starts around the head for reads, or where its client asks.
Feed == INSTANCE FilterFeed WITH Height <- 1 .. Top + 1 \cup {req.from : req \in Request}

\* The store and its polls, however they interleave, keep what a filter promises: an id is
\* never reused and a log filter reports every block from its first one on.
RefinesFeed == Feed!Spec

\* Every request is answered: halving a span that is over the cap comes to an end.
Answered == \A w \in Worker : job[w] # Idle ~> job[w] = Idle

\* A store that is never over its limit, and polls that report exactly what the cursor
\* says has been passed (FilterStore, get_filter_changes).
StoreExact == TypeOK /\ ExactlyOnce
=============================================================================
