------------------------------- MODULE Server -------------------------------
(***************************************************************************)
(* The RPC server's threads: workers that take HTTP requests, screen them, *)
(* dispatch single calls and batches and catch panics, the background      *)
(* poller, and what they share: the chain, snapshot, finality and persist  *)
(* locks, the published view and the gauges that a scrape reads without a  *)
(* lock (bin/helios-bsc/src/rpc_server.rs, rpc_server/http.rs).            *)
(*                                                                         *)
(* Every action is what a thread does between two points where another may *)
(* come in: a lock, a network call, a store or a load of a gauge.          *)
(*                                                                         *)
(* Abstractions.  A verified chain is its head; the heads derived from it  *)
(* are functions of that head (how they are found is module NodeSync).  A  *)
(* handler that reads state is "read" (module Reads).  A view is fresh or  *)
(* not; a panic may strike while the chain is being changed.  The node was *)
(* started from a checkpoint and keeps a checkpoint store: what is written *)
(* there is module Store, here it is the locks that the write takes.       *)
(*                                                                         *)
(* Each operator named X_Something is a plausible mistake in X: no         *)
(* definition uses it, and X replaced by it must break a property.         *)
(***************************************************************************)
EXTENDS Integers, Sequences, SequencesExt, FiniteSetsExt

CONSTANTS
  Workers, Poller,   \* the threads
  Bodies,            \* the requests that clients send
  Start, MaxTip,     \* the head after bootstrap, and the bound on the provider's tip
  CONFIRMATIONS,     \* how far the confirmation-depth head is behind the head
  FINALITY_LAG,      \* how far the finalized head is
  MAX_RPC_BATCH

ASSUME ServerConstants ==
  /\ {Start, MaxTip, CONFIRMATIONS, FINALITY_LAG, MAX_RPC_BATCH} \subseteq Nat
  /\ Start <= MaxTip /\ 0 < FINALITY_LAG /\ FINALITY_LAG < CONFIRMATIONS /\ CONFIRMATIONS <= Start
  /\ Poller \notin Workers /\ "free" \notin Workers \cup {Poller}
  /\ Bodies \subseteq [http : STRING, json : STRING,
                       members : Seq([form : STRING, id : Nat, method : STRING])]

VARIABLES
  fast,       \* FinalityMode::Fast
  tip,        \* the provider's tip
  chain,      \* the head of the verified chain, the head of the last sync that succeeded (for
              \* a property), and whether a panic left the chain half changed
  locks,      \* the holder of each lock
  poisoned,   \* the locks that a panicking thread held
  gauges,     \* last_tip, last_safe, last_justified, last_finalized
  view,       \* the published FinalityView
  threads     \* what each thread is doing

vars == <<fast, tip, chain, locks, poisoned, gauges, view, threads>>

Threads == Workers \cup {Poller}

NO_BLOCK == -1

Free == "free"

Locks == {"chain", "snapshot", "finality", "persist"}

GaugeOrder == <<"tip", "safe", "justified", "finalized">>

-----------------------------------------------------------------------------
(* The heads of a verified chain, and what is published of them. *)

GaugesOf(head) ==
  [tip |-> head, safe |-> head - CONFIRMATIONS, justified |-> head - FINALITY_LAG + 1,
   finalized |-> head - FINALITY_LAG]

\* The head that block tags resolve to, and whether fast finality chose it.
ReadHead(head) == IF fast THEN head - FINALITY_LAG ELSE head - CONFIRMATIONS

ViewOf(head) ==
  [head |-> head, finalized |-> GaugesOf(head).finalized, read |-> ReadHead(head),
   source |-> ReadHead(head) # GaugesOf(head).safe, fresh |-> TRUE]

NoView == [head |-> 0, finalized |-> NO_BLOCK, read |-> NO_BLOCK, source |-> FALSE, fresh |-> FALSE]

StatusOf(v) == [tip |-> v.head, safe |-> v.read, fast |-> v.source, finalized |-> v.finalized]

-----------------------------------------------------------------------------
(* Screening: what is answered without a handler. *)

NoId == 0

Ok(id, value) == [id |-> id, code |-> 0, value |-> value]

Err(id, code) == [id |-> id, code |-> code, value |-> <<>>]

ERR_PARSE == -32700
ERR_INVALID == -32600
ERR_METHOD == -32601
ERR_PARAMS == -32602
ERR_INTERNAL == -32603
ERR_NOT_SYNCED == -32003

\* The HTTP status with which a request is turned away before its body is looked at, or 0.
\* A scrape has been served before the check that it is a POST.
HttpReject(b) ==
  CASE b.http = "host" -> 403 [] b.http = "get" -> 405 [] b.http = "type" -> 415 [] b.http = "large" -> 413
    [] OTHER -> 0

\* A body that is answered as a whole, not member by member.
BodyRefused(b) ==
  CASE b.json = "garbage"                                            -> <<Err(NoId, ERR_PARSE)>>
    [] b.json = "scalar"                                             -> <<Err(NoId, ERR_INVALID)>>
    [] b.json = "batch" /\ (b.members = <<>> \/ Len(b.members) > MAX_RPC_BATCH) -> <<Err(NoId, ERR_INVALID)>>
    [] OTHER                                                         -> <<>>

Handled == {"eth_blockNumber", "syncStatus", "eth_syncing", "read"}

Screened_NoSkip(m) ==
  CASE m.form \in {"noobject", "badid"}           -> <<Err(NoId, ERR_INVALID)>>
    [] m.form \in {"notv2", "nomethod", "notification"} -> <<Err(m.id, ERR_INVALID)>>
    [] m.form = "params"                          -> <<Err(m.id, ERR_PARAMS)>>
    [] m.form = "ok" /\ m.method = "static"       -> <<Ok(m.id, <<>>)>>
    [] OTHER                                      -> <<Err(m.id, ERR_METHOD)>>

\* What a member that no handler takes is answered: a notification nothing, not even when it
\* is malformed otherwise; an id that cannot be echoed is null.
Screened(m) ==
  CASE m.form = "notification"                    -> <<>>
    [] m.form \in {"noobject", "badid"}           -> <<Err(NoId, ERR_INVALID)>>
    [] m.form \in {"notv2", "nomethod"}           -> <<Err(m.id, ERR_INVALID)>>
    [] m.form = "params"                          -> <<Err(m.id, ERR_PARAMS)>>
    [] m.form = "ok" /\ m.method = "static"       -> <<Ok(m.id, <<>>)>>
    [] OTHER                                      -> <<Err(m.id, ERR_METHOD)>>

-----------------------------------------------------------------------------
(* Threads. *)

Idle == [pc |-> "idle"]

Member(t) == threads[t].body.members[threads[t].i]

Step(t, pc) == threads' = [threads EXCEPT ![t].pc = pc]

\* A worker goes on with the next member; the poller's round is over.
Answered(t, answers) ==
  threads' = IF t = Poller THEN [threads EXCEPT ![t] = Idle]
             ELSE [threads EXCEPT ![t].pc = "next", ![t].i = @ + 1, ![t].out = @ \o answers, ![t].ok = FALSE]

Held(t) == {l \in Locks : locks[l] = t}

Released(t) == [l \in Locks |-> IF locks[l] = t THEN Free ELSE locks[l]]

Caught_Lost(t) == threads' = [threads EXCEPT ![t].pc = "dead"]

\* A panic is caught: the caller gets one internal error for the whole body, the worker and
\* the poller stay in their loops.
Caught(t) ==
  threads' = IF t = Poller THEN [threads EXCEPT ![t] = Idle]
             ELSE [threads EXCEPT ![t] = [@ EXCEPT !.pc = "done", !.out = <<Err(NoId, ERR_INTERNAL)>>,
                                                   !.http = 500, !.tip = NO_BLOCK, !.ok = FALSE]]

\* The locks that a panicking thread holds are poisoned and given back.
Panic(t) ==
  /\ poisoned' = poisoned \cup Held(t)
  /\ locks' = Released(t)
  /\ Caught(t)

\* lock().expect(..): waits for the holder, and panics on a poisoned lock.
MayLock(l) == locks[l] = Free

Receive(w, b) ==
  /\ threads[w] = Idle
  /\ threads' = [threads EXCEPT ![w] =
       LET t == [pc |-> "next", body |-> b, i |-> 1, out |-> <<>>, http |-> 200, tip |-> NO_BLOCK, ok |-> FALSE,
                 scrape |-> <<>>]
       IN  IF b.http = "scrape" THEN [t EXCEPT !.pc = "load"]
           ELSE IF HttpReject(b) # 0 THEN [t EXCEPT !.pc = "done", !.http = HttpReject(b)]
           ELSE IF BodyRefused(b) # <<>> THEN [t EXCEPT !.pc = "done", !.out = BodyRefused(b)]
           ELSE t]
  /\ UNCHANGED <<fast, tip, chain, locks, poisoned, gauges, view>>

\* The next member is screened; after the last one the reply goes out, empty (204) for a
\* notification on its own.
NextMember(w) ==
  LET t == threads[w] IN
    /\ threads[w].pc = "next"
    /\ IF t.i > Len(t.body.members)
       THEN threads' = [threads EXCEPT ![w].pc = "done",
                                       ![w].http = IF t.body.json = "one" /\ t.out = <<>> THEN 204 ELSE 200]
       ELSE IF Member(w).form = "ok" /\ Member(w).method \in Handled THEN Step(w, "refresh")
       ELSE Answered(w, Screened(Member(w)))
    /\ UNCHANGED <<fast, tip, chain, locks, poisoned, gauges, view>>

\* refresh: what was published less than a block interval ago is used, else the node syncs.
Refresh(w) ==
  /\ threads[w].pc = "refresh"
  /\ MayLock("finality")
  /\ threads' = [threads EXCEPT ![w].pc = IF view.fresh THEN "use" ELSE "poll", ![w].ok = view.fresh]
  /\ UNCHANGED <<fast, tip, chain, locks, poisoned, gauges, view>>

Wake ==
  /\ threads[Poller] = Idle
  /\ threads' = [threads EXCEPT ![Poller] = [pc |-> "poll", tip |-> NO_BLOCK, ok |-> FALSE]]
  /\ UNCHANGED <<fast, tip, chain, locks, poisoned, gauges, view>>

\* The sync of a thread has failed: a worker's handler is told, the poller sleeps.
Failed(t) ==
  threads' = IF t = Poller THEN [threads EXCEPT ![t] = Idle]
             ELSE [threads EXCEPT ![t].pc = "use", ![t].ok = FALSE, ![t].tip = NO_BLOCK]

\* refresh_now: the provider's tip, asked for before any lock is taken.
Poll(t, reached) ==
  /\ threads[t].pc = "poll"
  /\ IF reached THEN threads' = [threads EXCEPT ![t].pc = "lock", ![t].tip = tip] ELSE Failed(t)
  /\ UNCHANGED <<fast, tip, chain, locks, poisoned, gauges, view>>

\* The chain lock, then the snapshot lock.
Lock(t) ==
  LET l == IF locks["chain"] = t THEN "snapshot" ELSE "chain" IN
    /\ threads[t].pc = "lock"
    /\ MayLock(l)
    /\ IF l \in poisoned
       THEN Panic(t)
       ELSE /\ locks' = [locks EXCEPT ![l] = t]
            /\ Step(t, IF l = "snapshot" THEN "resync" ELSE "lock")
            /\ UNCHANGED poisoned
    /\ UNCHANGED <<fast, tip, chain, gauges, view>>

\* The height the chain has grown to, if it has.
Grown(t) == IF threads[t].tip > chain.head THEN threads[t].tip ELSE NO_BLOCK

Resync_Unlocked(t, outcome) ==
  /\ threads[t].pc = "resync"
  /\ outcome = "verified"
  /\ chain' = [chain EXCEPT !.head = Max({@, threads[t].tip}), !.synced = Max({chain.head, threads[t].tip})]
  /\ view' = [ViewOf(chain'.head) EXCEPT !.fresh = FALSE]
  /\ threads' = [threads EXCEPT ![t].pc = "store", ![t].ok = TRUE, ![t].tip = Grown(t)]
  /\ locks' = Released(t)
  /\ UNCHANGED <<fast, tip, poisoned, gauges>>

\* resync_locked: a tip that is not above the head is a no-op, a header that is refused leaves
\* the chain with those before it, unpublished, and a panic leaves it anyhow and poisons the
\* locks that were held.
Resync(t, outcome) ==
  /\ threads[t].pc = "resync"
  /\ CASE outcome = "verified" ->
            /\ chain' = [chain EXCEPT !.head = Max({@, threads[t].tip}), !.synced = Max({chain.head, threads[t].tip})]
            /\ threads' = [threads EXCEPT ![t].pc = "store", ![t].ok = TRUE, ![t].tip = Grown(t)]
            /\ UNCHANGED <<locks, poisoned>>
       [] outcome = "rejected" ->
            /\ \E n \in {chain.head} \cup (chain.head + 1 .. threads[t].tip - 1) : chain' = [chain EXCEPT !.head = n]
            /\ locks' = Released(t)
            /\ Failed(t)
            /\ UNCHANGED poisoned
       [] outcome = "panic" ->
            /\ chain' = [chain EXCEPT !.torn = TRUE]
            /\ Panic(t)
  /\ UNCHANGED <<fast, tip, gauges, view>>

\* The first gauge that does not yet hold what this sync has to publish, as an index.
Stored(head) == [k \in 1 .. 4 |-> gauges[GaugeOrder[k]] = GaugesOf(head)[GaugeOrder[k]]]

Unstored(head) == {k \in 1 .. 4 : ~Stored(head)[k]}

\* The gauges are stored one after the other (a store of the value that is there already is
\* no step).
Store(t) ==
  /\ threads[t].pc = "store"
  /\ Unstored(chain.head) # {}
  /\ LET g == GaugeOrder[Min(Unstored(chain.head))] IN gauges' = [gauges EXCEPT ![g] = GaugesOf(chain.head)[g]]
  /\ UNCHANGED <<fast, tip, chain, locks, poisoned, view, threads>>

\* refresh_now returns.
Resumed(t) ==
  threads' = IF t = Poller THEN [threads EXCEPT ![t] = Idle]
             ELSE [threads EXCEPT ![t].pc = "use", ![t].tip = NO_BLOCK]

\* The tip is persisted before the locks are given back.
Publish_Inside(t) ==
  /\ threads[t].pc = "store"
  /\ Unstored(chain.head) = {}
  /\ MayLock("finality")
  /\ view' = ViewOf(chain.head)
  /\ IF threads[t].tip # NO_BLOCK THEN Step(t, "persist") /\ UNCHANGED locks ELSE Resumed(t) /\ locks' = Released(t)
  /\ UNCHANGED <<fast, tip, chain, poisoned, gauges>>

\* The view is published and the locks are given back; a chain that has grown is persisted.
Publish(t) ==
  /\ threads[t].pc = "store"
  /\ Unstored(chain.head) = {}
  /\ MayLock("finality")
  /\ view' = ViewOf(chain.head)
  /\ locks' = Released(t)
  /\ IF threads[t].tip # NO_BLOCK THEN Step(t, "persist") ELSE Resumed(t)
  /\ UNCHANGED <<fast, tip, chain, poisoned, gauges>>

\* persist_verified_tip: persist_lock, ...
Persist(t) ==
  /\ threads[t].pc = "persist"
  /\ MayLock("persist")
  /\ IF "persist" \in poisoned
     THEN Panic(t)
     ELSE /\ locks' = [locks EXCEPT !["persist"] = t]
          /\ Step(t, "tip")
          /\ UNCHANGED poisoned
  /\ UNCHANGED <<fast, tip, chain, gauges, view>>

\* ... under it the chain lock and the snapshot lock again, both given back once the tip and
\* its snapshot are copied, ...
ReadTip(t) ==
  LET l == IF locks["chain"] = t THEN "snapshot" ELSE "chain" IN
    /\ threads[t].pc = "tip"
    /\ MayLock(l)
    /\ IF l \in poisoned
       THEN Panic(t)
       ELSE /\ locks' = [locks EXCEPT !["chain"] = IF l = "chain" THEN t ELSE Free]
            /\ Step(t, IF l = "chain" THEN "tip" ELSE "write")
            /\ UNCHANGED poisoned
    /\ UNCHANGED <<fast, tip, chain, gauges, view>>

\* ... and the header fetched, held against the chain and written: what fails is logged only.
WriteTip(t) ==
  /\ threads[t].pc = "write"
  /\ locks' = Released(t)
  /\ Resumed(t)
  /\ UNCHANGED <<fast, tip, chain, poisoned, gauges, view>>

\* A handler that needs no more than refresh's own result.
UseHead(w) ==
  LET t == threads[w] IN
    /\ t.pc = "use"
    /\ \/ /\ ~t.ok
          /\ Member(w).method \in Handled \ {"eth_syncing"}
          /\ Answered(w, <<Err(Member(w).id, ERR_NOT_SYNCED)>>)
       \/ /\ t.ok
          /\ Member(w).method \in {"eth_blockNumber", "eth_syncing"}
          /\ Answered(w, <<Ok(Member(w).id, <<>>)>>)
       \/ /\ t.ok
          /\ Member(w).method = "syncStatus"
          /\ Step(w, "sealing")
    /\ UNCHANGED <<fast, tip, chain, locks, poisoned, gauges, view>>

ReadChain_Poisoned(w) ==
  /\ threads[w].pc = "use" /\ threads[w].ok /\ Member(w).method = "read"
  /\ MayLock("chain")
  /\ Answered(w, <<Ok(Member(w).id, [torn |-> chain.torn])>>)
  /\ UNCHANGED <<fast, tip, chain, locks, poisoned, gauges, view>>

\* A state, block, receipt or log handler looks up its block.
ReadChain(w) ==
  /\ threads[w].pc = "use" /\ threads[w].ok /\ Member(w).method = "read"
  /\ MayLock("chain")
  /\ IF "chain" \in poisoned THEN Caught(w) ELSE Answered(w, <<Ok(Member(w).id, [torn |-> chain.torn])>>)
  /\ UNCHANGED <<fast, tip, chain, locks, poisoned, gauges, view>>

\* eth_syncing when the node could not sync: the head of the chain, 0 if the lock is poisoned.
Syncing(w) ==
  /\ threads[w].pc = "use" /\ ~threads[w].ok /\ Member(w).method = "eth_syncing"
  /\ MayLock("chain")
  /\ Answered(w, <<Ok(Member(w).id, [at |-> IF "chain" \in poisoned THEN 0 ELSE chain.head])>>)
  /\ UNCHANGED <<fast, tip, chain, locks, poisoned, gauges, view>>

\* status_fields asks under the snapshot lock whether there is a sealing set, and lets it go ...
Sealing(w) ==
  /\ threads[w].pc = "sealing"
  /\ MayLock("snapshot")
  /\ IF "snapshot" \in poisoned THEN Caught(w) ELSE Step(w, "status")
  /\ UNCHANGED <<fast, tip, chain, locks, poisoned, gauges, view>>

Status_Reread(w) ==
  /\ threads[w].pc = "status"
  /\ MayLock("finality")
  /\ Answered(w, <<Ok(Member(w).id, [StatusOf(view) EXCEPT !.finalized = GaugesOf(chain.head).finalized])>>)
  /\ UNCHANGED <<fast, tip, chain, locks, poisoned, gauges, view>>

\* ... and takes everything else from one copy of the view.
Status(w) ==
  /\ threads[w].pc = "status"
  /\ MayLock("finality")
  /\ Answered(w, <<Ok(Member(w).id, StatusOf(view))>>)
  /\ UNCHANGED <<fast, tip, chain, locks, poisoned, gauges, view>>

\* metrics_text loads the gauges one after the other, without a lock.
Load(w) ==
  LET t == threads[w] IN
    /\ t.pc = "load"
    /\ threads' = [threads EXCEPT ![w].scrape = Append(@, gauges[GaugeOrder[Len(@) + 1]]),
                                  ![w].pc = IF Len(t.scrape) = 3 THEN "done" ELSE "load"]
    /\ UNCHANGED <<fast, tip, chain, locks, poisoned, gauges, view>>

\* The reply has been sent and the worker takes the next request.
Done(w) ==
  /\ threads[w].pc = "done"
  /\ threads' = [threads EXCEPT ![w] = Idle]
  /\ UNCHANGED <<fast, tip, chain, locks, poisoned, gauges, view>>

-----------------------------------------------------------------------------
\* A block interval passes.
Expire ==
  /\ view.fresh
  /\ view' = [view EXCEPT !.fresh = FALSE]
  /\ UNCHANGED <<fast, tip, chain, locks, poisoned, gauges, threads>>

\* The provider's chain grows.
Grow ==
  /\ tip < MaxTip
  /\ \E n \in tip + 1 .. MaxTip : tip' = n
  /\ UNCHANGED <<fast, chain, locks, poisoned, gauges, view, threads>>

Init ==
  /\ fast \in BOOLEAN
  /\ tip \in Start .. MaxTip
  /\ chain = [head |-> Start, synced |-> Start, torn |-> FALSE]
  /\ locks = [l \in Locks |-> Free]
  /\ poisoned = {}
  /\ gauges = [g \in Range(GaugeOrder) |-> NO_BLOCK]
  /\ view = NoView
  /\ threads = [t \in Threads |-> Idle]

\* What a thread that syncs does.
Sync(t) ==
  \/ \E reached \in BOOLEAN : Poll(t, reached)
  \/ Lock(t)
  \/ \E outcome \in {"verified", "rejected", "panic"} : Resync(t, outcome)
  \/ Store(t)
  \/ Publish(t)
  \/ Persist(t) \/ ReadTip(t) \/ WriteTip(t)

Serve(w) ==
  \/ NextMember(w) \/ Refresh(w) \/ Sync(w)
  \/ UseHead(w) \/ ReadChain(w) \/ Syncing(w) \/ Sealing(w) \/ Status(w)
  \/ Load(w) \/ Done(w)

Next ==
  \/ \E w \in Workers : (\E b \in Bodies : Receive(w, b)) \/ Serve(w)
  \/ Wake \/ Sync(Poller)
  \/ Expire \/ Grow

Spec == Init /\ [][Next]_vars

\* A thread that can run does, a lock that is let go again and again is had in the end (its
\* holders are away for a network call or a sleep between two holds), and the poller wakes.
FairSpec == Spec /\ (\A w \in Workers : SF_vars(Serve(w))) /\ SF_vars(Sync(Poller)) /\ WF_vars(Wake)

-----------------------------------------------------------------------------
(* Properties. *)

Pcs ==
  {"idle", "next", "refresh", "poll", "lock", "resync", "store", "persist", "tip", "write", "use", "sealing", "status",
   "load", "done"}

\* The state is one that the server's fields can be in: every thread is in its loop, and the
\* snapshot lock is held only under the chain lock, by a thread that changes the chain or
\* publishes.
TypeOK ==
  /\ chain \in [head : Start .. MaxTip, synced : Start .. MaxTip, torn : BOOLEAN]
  /\ poisoned \in SUBSET Locks
  /\ locks \in [Locks -> Threads \cup {Free}]
  /\ \A g \in DOMAIN gauges : gauges[g] \in NO_BLOCK .. MaxTip
  /\ \A t \in Threads :
       /\ threads[t].pc \in Pcs
       /\ locks["snapshot"] = t => locks["chain"] = t /\ threads[t].pc \in {"resync", "store"}

\* Whenever nobody holds the chain lock, the gauges and the view are all of the newest sync that
\* succeeded: a thread that was held up never overwrites a newer sync's heads
\* with its own (refresh_now publishes while the chain lock is still held).
PublishedTogether ==
  locks["chain"] = Free /\ poisoned = {} /\ view.read # NO_BLOCK =>
    /\ [view EXCEPT !.fresh = TRUE] = ViewOf(chain.synced)
    /\ gauges = GaugesOf(chain.synced)

\* A status answer is one instant's: its tip, its safe head, the rule that chose it and the
\* finalized head are those of a single sync, although others publish while it is put together
\* (status_fields takes them from one copy of the view; no other answer has these fields).
StatusOneInstant ==
  \A w \in Workers : threads[w].pc = "done" =>
    \A i \in DOMAIN threads[w].out :
      "finalized" \in DOMAIN threads[w].out[i].value =>
        \E head \in Start .. MaxTip : threads[w].out[i].value = StatusOf(ViewOf(head))

\* The place of a member's answer: how many of the members up to it ask for one.
Place(members, k) == Cardinality({n \in 1 .. k : members[n].form # "notification"})

\* A batch that is answered is answered member for member, in order, under the members' own
\* ids, with nothing for a notification; the alternative is one error for the whole body
\* (dispatch, dispatch_caught).
AnswersMatch ==
  \A w \in Workers : threads[w].pc = "done" /\ threads[w].out # <<>> /\ threads[w].out[1].id # NoId =>
    LET out     == threads[w].out
        members == threads[w].body.members
    IN  /\ Len(out) = Place(members, Len(members))
        /\ \A k \in DOMAIN members : members[k].form # "notification" =>
             out[Place(members, k)].id \in {members[k].id, NoId}

\* What a panic left half changed is never served: whoever looks at the chain afterwards
\* panics on the poisoned lock and is caught in turn (dispatch_caught).
TornNeverServed ==
  \A w \in Workers : threads[w].pc = "done" =>
    \A i \in DOMAIN threads[w].out : threads[w].out[i].value # [torn |-> TRUE]

\* Every request is answered, whatever panicked before it, and the poller comes round again:
\* no thread is lost to a panic and none waits for a lock that is not let go (serve_one,
\* serve, and the lock order persist, chain, snapshot, finality).
ServedForEver ==
  /\ \A w \in Workers : threads[w] # Idle ~> threads[w] = Idle
  /\ threads[Poller] # Idle ~> threads[Poller] = Idle

\* Locks are taken in one order, and what is published between two holders is one sync's
\* (refresh_now).
PublishedInOrder == TypeOK /\ PublishedTogether

\* Nobody is answered from a state that never was: not from two syncs, and not from a
\* chain that a panic left half changed (status_fields, dispatch_caught).
NeverMixed == StatusOneInstant /\ TornNeverServed
=============================================================================
