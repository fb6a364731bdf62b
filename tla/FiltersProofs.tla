---------------------------- MODULE FiltersProofs ----------------------------
(***************************************************************************)
(* What holds of the filter store for every number of threads, limit,      *)
(* chain and sequence of polls: the store is never over its limit, polls   *)
(* that do not overlap report every block once, and polls that do overlap  *)
(* still leave no hole (module FilterFeed).                                *)
(***************************************************************************)
EXTENDS Filters, FiniteSetTheorems, TLAPS

-----------------------------------------------------------------------------
(* The inductive invariant. *)

Kind == {"logs", "blocks"}

Start == (1 .. Top + 1 \cup {req.from : req \in Request}) \ {0}

\* What a thread can be doing: it installs a filter, is about to look one up, or has a span
\* of heights to fetch, or has the hashes of its span.
Installing == [op : {"install"}, kind : Kind, from : Start, to : Nat]
Looking == [op : {"changes", "logs"}, step : {"look"}, f : Id, head : Nat]
Fetching == {j \in [op : {"changes", "logs"}, f : Id, step : Kind, from : Nat, to : Nat] :
               j.from <= j.to}
Replying == {j \in [op : {"changes"}, step : {"hashes"}, f : Id, from : Nat, to : Nat, read : SUBSET Nat] :
               j.from <= j.to}

Job == {Idle} \cup Installing \cup Looking \cup Fetching \cup Replying

JobsSound == job \in [Worker -> Job]

\* Every thread that installs a filter has an id left.
Room == next_id + Cardinality({v \in Worker : job[v].op = "install"}) <= MaxId

\* The chain gains at most Rate blocks a tick.
HeightBound == hi + Rate * (MaxTime - now) <= Top

\* The blocks up to some height have been reported, of those the chain has had.
Prefix(fd) ==
  fd.kind = "logs" =>
    \E m \in {fd.start - 1} \cup (1 .. Top) : m + 1 >= fd.start /\ fd.told = fd.start .. m

\* The ids given out, and only they, have a feed.
FeedSound ==
  /\ feed \in [Id -> FeedRecord \cup {NoFeed}]
  /\ \A f \in Id : IF f <= next_id
                   THEN feed[f] \in FeedRecord /\ feed[f].start \in Start /\ Prefix(feed[f])
                   ELSE feed[f] = NoFeed

\* A client that is at height n of a filter has been told of all below it.
Reached(fd, n) ==
  n >= fd.start /\ (fd.kind = "logs" => fd.start .. n - 1 \subseteq fd.told)

\* A filter is what its feed says it is, and its cursor leaves no hole behind.
StoreSound ==
  \A f \in DOMAIN filters :
    /\ filters[f].kind = feed[f].kind
    /\ Reached(feed[f], filters[f].cursor)

\* Neither does the copy of the cursor that a poll works on, however old it is.
PollsSound ==
  \A v \in Worker, f \in Id : Polling(v, f) =>
    /\ f <= next_id
    /\ feed[f].kind = IF job[v].step = "logs" THEN "logs" ELSE "blocks"
    /\ Reached(feed[f], job[v].from)
    /\ job[v].step = "hashes" =>
         \E a, b \in 1 .. Top : job[v].read = (job[v].from .. job[v].to) \cap (a .. b)

\* A filter whose polls have not overlapped has one at a time, which knows the cursor.
Alone ==
  \A f \in Id \ raced, v \in Worker : Polling(v, f) =>
    /\ f \in DOMAIN filters => job[v].from = filters[f].cursor
    /\ \A u \in Worker : Polling(u, f) => u = v

FilterInv ==
  /\ TypeOK /\ JobsSound /\ Room /\ HeightBound
  /\ FeedSound /\ StoreSound /\ PollsSound /\ Alone /\ ExactlyOnce

-----------------------------------------------------------------------------
(* Lemmas about the operators of Filters. *)

LEMMA ConstantTypes ==
  /\ MAX_FILTERS \in Nat \ {0} /\ FILTER_TTL \in Nat \ {0} /\ MAX_GET_LOGS_RANGE \in Nat \ {0}
  /\ KEEP \in Nat \ {0} /\ Rate \in Nat \ {0} /\ MaxId \in Nat \ {0} /\ MaxTime \in Nat \ {0}
  /\ SafeLag \in Nat /\ SafeLag < KEEP
  /\ Top \in Nat /\ Start \subseteq Nat \ {0}
<1>1. /\ MAX_FILTERS \in Nat \ {0} /\ FILTER_TTL \in Nat \ {0} /\ MAX_GET_LOGS_RANGE \in Nat \ {0}
      /\ KEEP \in Nat \ {0} /\ Rate \in Nat \ {0} /\ MaxId \in Nat \ {0} /\ MaxTime \in Nat \ {0}
  BY FilterConstants, Zenon
<1>2. SafeLag \in Nat /\ SafeLag < KEEP
  BY <1>1, FilterConstants
<1>3. Rate * MaxTime \in Nat
  BY <1>1
<1>4. Top \in Nat
  BY <1>1, <1>3 DEF Top
<1>5. \A req \in Request : req.from \in Nat
  BY FilterConstants
<1>6. Start \subseteq Nat \ {0}
  BY <1>4, <1>5 DEF Start
<1>. QED BY <1>1, <1>2, <1>4, <1>6

LEMMA MinOfTwo ==
  ASSUME NEW a \in Nat, NEW b \in Nat
  PROVE  Min({a, b}) \in {a, b} /\ Min({a, b}) <= a /\ Min({a, b}) <= b
<1>1. \E x \in {a, b} : \A y \in {a, b} : x <= y
  <2>1. CASE a <= b
    BY <2>1
  <2>2. CASE b <= a
    BY <2>2
  <2>. QED BY <2>1, <2>2
<1>. QED BY <1>1 DEF Min

\* Removing filters removes filters, and changes none.
LEMMA WithoutKeeps ==
  ASSUME NEW store, NEW gone
  PROVE  /\ DOMAIN Without(store, gone) = DOMAIN store \ gone
         /\ \A f \in DOMAIN Without(store, gone) : Without(store, gone)[f] = store[f]
BY DEF Without, Restrict

\* A thread's requests, told apart by their fields.
LEMMA JobCases ==
  ASSUME NEW j \in Job
  PROVE  \/ j = Idle /\ j.op = "idle"
         \/ j.op = "install" /\ j \in Installing
         \/ j.op \in {"changes", "logs"} /\ j.f \in Id /\ j.step \in {"look", "logs", "blocks", "hashes"}
BY DEF Job, Idle, Installing, Looking, Fetching, Replying, Kind

LEMMA LookCase ==
  ASSUME NEW j \in Job, j.op \in {"changes", "logs"}, j.step = "look"
  PROVE  j \in Looking
BY DEF Job, Idle, Installing, Looking, Fetching, Replying, Kind

LEMMA FetchCase ==
  ASSUME NEW j \in Job, j.op \in {"changes", "logs"}, j.step \in Kind
  PROVE  j \in Fetching
BY DEF Job, Idle, Installing, Looking, Fetching, Replying, Kind

LEMMA ReplyCase ==
  ASSUME NEW j \in Job, j.op = "changes", j.step = "hashes"
  PROVE  j \in Replying
BY DEF Job, Idle, Installing, Looking, Fetching, Replying, Kind

LEMMA JobSet ==
  ASSUME JobsSound, NEW w \in Worker, NEW j \in Job, job' = [job EXCEPT ![w] = j]
  PROVE  /\ JobsSound'
         /\ job'[w] = j
         /\ \A v \in Worker \ {w} : job'[v] = job[v]
BY DEF JobsSound

\* Threads that install filters, counted.
LEMMA CountWorkers ==
  ASSUME NEW S \in SUBSET Worker, NEW T \in SUBSET Worker, NEW w \in Worker
  PROVE  /\ Cardinality(S) \in Nat /\ Cardinality(T) \in Nat
         /\ T \subseteq S => Cardinality(T) <= Cardinality(S)
         /\ T \subseteq S \cup {w} => Cardinality(T) <= Cardinality(S) + 1
         /\ w \in S /\ T \subseteq S \ {w} => Cardinality(T) + 1 <= Cardinality(S)
<1>1. IsFiniteSet(S) /\ IsFiniteSet(T)
  BY FilterConstants, FS_Subset
<1>2. Cardinality(S) \in Nat /\ Cardinality(T) \in Nat
  BY <1>1, FS_CardinalityType
<1>3. T \subseteq S => Cardinality(T) <= Cardinality(S)
  BY <1>1, FS_Subset
<1>4. /\ IsFiniteSet(S \cup {w})
      /\ Cardinality(S \cup {w}) = IF w \in S THEN Cardinality(S) ELSE Cardinality(S) + 1
  BY <1>1, FS_AddElement
<1>5. T \subseteq S \cup {w} => Cardinality(T) <= Cardinality(S \cup {w})
  BY <1>4, FS_Subset
<1>6. /\ IsFiniteSet(S \ {w})
      /\ Cardinality(S \ {w}) = IF w \in S THEN Cardinality(S) - 1 ELSE Cardinality(S)
  BY <1>1, FS_RemoveElement
<1>7. T \subseteq S \ {w} => Cardinality(T) <= Cardinality(S \ {w})
  BY <1>6, FS_Subset
<1>. QED BY <1>2, <1>3, <1>4, <1>5, <1>6, <1>7

\* The threads that install filters after a step of one thread.
LEMMA RoomKept ==
  ASSUME JobsSound, Room, next_id \in Nat, next_id' = next_id, NEW w \in Worker,
         \A v \in Worker \ {w} : job'[v] = job[v],
         job'[w].op # "install" \/ next_id + Cardinality({v \in Worker : job[v].op = "install"}) < MaxId
  PROVE  Room'
<1>. DEFINE S == {v \in Worker : job[v].op = "install"}
            T == {v \in Worker : job'[v].op = "install"}
<1>1. S \in SUBSET Worker /\ T \in SUBSET Worker /\ T \subseteq S \cup {w}
      /\ (job'[w].op # "install" => T \subseteq S)
  OBVIOUS
<1>2. next_id + Cardinality(S) <= MaxId
  BY DEF Room
<1>. HIDE DEF S, T
<1>3. next_id + Cardinality(T) <= MaxId
  BY <1>1, <1>2, CountWorkers, ConstantTypes DEF S
<1>. QED BY <1>3 DEF Room, T

LEMMA FilterTypes ==
  ASSUME TypeOK, NEW f \in DOMAIN filters
  PROVE  /\ f \in Id /\ f <= next_id
         /\ filters[f].kind \in Kind /\ filters[f].from_block \in Nat /\ filters[f].to_block \in Nat
         /\ filters[f].cursor \in Nat /\ filters[f].touched \in 0 .. now
BY ConstantTypes DEF TypeOK, Id, Kind

\* The store holds filters it held, unchanged but for the time they were polled.
Kept(store) ==
  /\ DOMAIN store \subseteq DOMAIN filters
  /\ \A f \in DOMAIN store :
       /\ store[f] \in [kind : Kind, from_block : Nat, to_block : Nat, cursor : Nat, touched : 0 .. now]
       /\ store[f].kind = filters[f].kind
       /\ store[f].cursor = filters[f].cursor

LEMMA KeptWithout ==
  ASSUME NEW store, Kept(store), NEW gone
  PROVE  Kept(Without(store, gone))
<1>. DEFINE left == Without(store, gone)
<1>1. DOMAIN left \subseteq DOMAIN store /\ \A f \in DOMAIN left : left[f] = store[f]
  <2>1. DOMAIN left = DOMAIN store \ gone
    BY ONLY WithoutKeeps, Zenon
  <2>2. \A f \in DOMAIN left : left[f] = store[f]
    BY ONLY WithoutKeeps, Zenon
  <2>. QED BY <2>1, <2>2, Zenon
<1>. HIDE DEF left
<1>2. Kept(left)
  BY <1>1 DEF Kept
<1>. QED BY <1>2 DEF left

LEMMA KeptStores ==
  ASSUME TypeOK
  PROVE  Kept(filters) /\ Kept(Sweep(filters))
<1>1. Kept(filters)
  BY DEF TypeOK, Kept, Kind
<1>2. Kept(Sweep(filters))
  BY <1>1, KeptWithout DEF Sweep
<1>. QED BY <1>1, <1>2

\* A step that reports nothing and moves no cursor.
LEMMA QuietStore ==
  ASSUME FilterInv, hi' \in KEEP .. Top, now' \in now .. MaxTime, next_id' = next_id, feed' = feed,
         raced \subseteq raced', raced' \subseteq Id, Kept(filters')
  PROVE  TypeOK' /\ FeedSound' /\ StoreSound' /\ ExactlyOnce'
<1>1. TypeOK'
  <2>1. Cardinality(DOMAIN filters') <= MAX_FILTERS
    <3>1. IsFiniteSet(DOMAIN filters)
      <4>1. IsFiniteSet(1 .. next_id)
        BY ConstantTypes, FS_Interval DEF FilterInv, TypeOK
      <4>. QED BY <4>1, FS_Subset DEF FilterInv, TypeOK
    <3>2. DOMAIN filters' \in SUBSET DOMAIN filters
      BY DEF Kept
    <3>3. Cardinality(DOMAIN filters') <= Cardinality(DOMAIN filters)
      BY <3>1, <3>2, FS_Subset
    <3>4. Cardinality(DOMAIN filters) \in Nat /\ Cardinality(DOMAIN filters') \in Nat
      BY <3>1, <3>2, FS_Subset, FS_CardinalityType
    <3>. QED BY <3>3, <3>4, ConstantTypes DEF FilterInv, TypeOK
  <2>2. DOMAIN filters' \subseteq 1 .. next_id'
    BY DEF FilterInv, TypeOK, Kept
  <2>3. now' \in 0 .. MaxTime /\ 0 .. now \subseteq 0 .. now'
    BY ConstantTypes DEF FilterInv, TypeOK
  <2>4. \A f \in DOMAIN filters' :
          filters'[f] \in [kind : Kind, from_block : Nat, to_block : Nat, cursor : Nat, touched : 0 .. now']
    BY <2>3 DEF Kept
  <2>5. next_id' \in 0 .. MaxId
    BY DEF FilterInv, TypeOK
  <2>. QED BY <2>1, <2>2, <2>3, <2>4, <2>5 DEF TypeOK, Kind
<1>2. FeedSound'
  BY DEF FilterInv, FeedSound
<1>3. StoreSound'
  BY DEF FilterInv, StoreSound, Kept
<1>4. ExactlyOnce'
  BY DEF FilterInv, ExactlyOnce, Kept
<1>. QED BY <1>1, <1>2, <1>3, <1>4

\* A poll that was under way goes on from where it was.
Onward ==
  \A v \in Worker, f \in Id : Polling(v, f)' =>
    /\ Polling(v, f)
    /\ job'[v].step = job[v].step /\ job'[v].from = job[v].from
    /\ job[v].step = "hashes" => job'[v] = job[v]

\* Nor does it start a poll.
LEMMA QuietStep ==
  ASSUME FilterInv, JobsSound', Room', HeightBound', hi' \in KEEP .. Top,
         now' \in now .. MaxTime, next_id' = next_id, feed' = feed,
         raced \subseteq raced', raced' \subseteq Id,
         Kept(filters'), Onward
  PROVE  FilterInv'
<1>1. TypeOK' /\ FeedSound' /\ StoreSound' /\ ExactlyOnce'
  BY QuietStore
<1>2. PollsSound'
  BY DEF FilterInv, PollsSound, Onward
<1>3. Alone'
  BY DEF FilterInv, Alone, Onward, Kept
<1>. QED BY <1>1, <1>2, <1>3 DEF FilterInv

-----------------------------------------------------------------------------
(* FilterInv is inductive. *)

LEMMA FilterInvInit == Init => FilterInv
<1>. SUFFICES ASSUME Init PROVE FilterInv
  OBVIOUS
<1>1. /\ filters = <<>> /\ DOMAIN filters = {} /\ next_id = 0 /\ now = 0 /\ hi = KEEP
      /\ feed = [f \in Id |-> NoFeed] /\ raced = {}
  BY DEF Init
<1>2. \A w \in Worker : job[w] = Idle /\ job[w].op = "idle"
  BY DEF Init, Idle
<1>3. KEEP <= Top /\ KEEP + Rate * (MaxTime - 0) <= Top
  BY ConstantTypes DEF Top
<1>4. TypeOK
  BY <1>1, <1>3, ConstantTypes, FS_EmptySet DEF TypeOK
<1>5. JobsSound /\ HeightBound
  BY <1>1, <1>3 DEF Init, JobsSound, Job, HeightBound
<1>6. Room
  <2>. DEFINE S == {v \in Worker : job[v].op = "install"}
  <2>1. S = {}
    BY <1>2
  <2>. HIDE DEF S
  <2>2. next_id + Cardinality(S) <= MaxId
    BY <1>1, <2>1, ConstantTypes, FS_EmptySet
  <2>. QED BY <2>2 DEF Room, S
<1>7. FeedSound
  BY <1>1, ConstantTypes DEF FeedSound, Id
<1>8. StoreSound /\ PollsSound /\ Alone /\ ExactlyOnce
  BY <1>1, <1>2 DEF StoreSound, PollsSound, Alone, ExactlyOnce, Polling
<1>. QED BY <1>4, <1>5, <1>6, <1>7, <1>8 DEF FilterInv

LEMMA SafeHeight ==
  ASSUME FilterInv
  PROVE  hi \in KEEP .. Top /\ hi \in Nat /\ Lo \in 1 .. Top /\ Safe \in 1 .. Top /\ Safe <= hi
         /\ next_id \in Nat /\ next_id <= MaxId /\ now \in 0 .. MaxTime
BY ConstantTypes DEF FilterInv, TypeOK, Lo, Safe

\* A request that a thread begins or drops, seen from the polls that are under way.
LEMMA OtherJobs ==
  ASSUME NEW w \in Worker, \A v \in Worker \ {w} : job'[v] = job[v],
         job'[w].op # "changes" \/ job'[w].step = "look"
  PROVE  Onward
BY DEF Onward, Polling

\* A thread that is done with its request, having told nobody.
LEMMA DoneStep ==
  ASSUME FilterInv, NEW w \in Worker, Done(w), Kept(filters'),
         raced \subseteq raced', raced' \subseteq Id, UNCHANGED <<next_id, now, hi, feed>>
  PROVE  FilterInv'
<1>1. Idle \in Job /\ Idle.op = "idle"
  BY DEF Job, Idle
<1>2. JobsSound /\ job' = [job EXCEPT ![w] = Idle]
  BY DEF FilterInv, Done
<1>3. JobsSound' /\ job'[w] = Idle /\ \A v \in Worker \ {w} : job'[v] = job[v]
  BY <1>1, <1>2, JobSet
<1>4. Room'
  BY <1>1, <1>2, <1>3, RoomKept, SafeHeight DEF FilterInv
<1>5. Onward
  BY <1>1, <1>3, OtherJobs
<1>6. HeightBound' /\ hi' \in KEEP .. Top /\ now' \in now .. MaxTime
  BY SafeHeight DEF FilterInv, HeightBound
<1>. QED BY <1>3, <1>4, <1>5, <1>6, QuietStep

LEMMA StartInstallStep ==
  ASSUME FilterInv, NEW w \in Worker, NEW req \in Request, StartInstall(w, req)
  PROVE  FilterInv'
<1>. DEFINE from == IF req.kind = "blocks" THEN Safe + 1 ELSE IF req.from = 0 THEN Safe ELSE req.from
            j == [op |-> "install", kind |-> req.kind, from |-> from, to |-> req.to]
<1>1. req.kind \in Kind /\ req.from \in Nat /\ req.to \in Nat
  BY FilterConstants DEF Kind
<1>2. from \in Start
  BY <1>1, SafeHeight, ConstantTypes DEF Start
<1>. HIDE DEF from
<1>3. j \in Job /\ j.op = "install"
  BY <1>1, <1>2 DEF Job, Installing
<1>4. job' = [job EXCEPT ![w] = j] /\ UNCHANGED <<filters, next_id, now, hi, feed, raced>>
      /\ next_id + Cardinality({v \in Worker : job[v].op = "install"}) < MaxId
  BY DEF StartInstall, from
<1>. HIDE DEF j
<1>5. JobsSound' /\ job'[w] = j /\ \A v \in Worker \ {w} : job'[v] = job[v]
  BY <1>3, <1>4, JobSet DEF FilterInv
<1>6. Room'
  BY <1>4, <1>5, RoomKept, SafeHeight DEF FilterInv
<1>7. Onward
  BY <1>3, <1>5, OtherJobs
<1>8. HeightBound' /\ hi' \in KEEP .. Top /\ now' \in now .. MaxTime
  BY <1>4, SafeHeight DEF FilterInv, HeightBound
<1>9. Kept(filters') /\ raced' \subseteq Id
  BY <1>4, KeptStores DEF FilterInv, TypeOK
<1>. QED BY <1>4, <1>5, <1>6, <1>7, <1>8, <1>9, QuietStep

LEMMA StartPollStep ==
  ASSUME FilterInv, NEW w \in Worker, NEW op \in {"changes", "logs"}, NEW f \in Id, StartPoll(w, op, f)
  PROVE  FilterInv'
<1>. DEFINE j == [op |-> op, step |-> "look", f |-> f, head |-> Safe]
<1>1. j \in Job /\ j.op # "install" /\ j.step = "look"
  BY SafeHeight, ConstantTypes DEF Job, Looking
<1>2. job' = [job EXCEPT ![w] = j] /\ UNCHANGED <<filters, next_id, now, hi, feed, raced>>
  BY DEF StartPoll
<1>. HIDE DEF j
<1>3. JobsSound' /\ job'[w] = j /\ \A v \in Worker \ {w} : job'[v] = job[v]
  BY <1>1, <1>2, JobSet DEF FilterInv
<1>4. Room'
  BY <1>1, <1>2, <1>3, RoomKept, SafeHeight DEF FilterInv
<1>5. Onward
  BY <1>1, <1>3, OtherJobs
<1>6. HeightBound' /\ hi' \in KEEP .. Top /\ now' \in now .. MaxTime
  BY <1>2, SafeHeight DEF FilterInv, HeightBound
<1>7. Kept(filters') /\ raced' \subseteq Id
  BY <1>2, KeptStores DEF FilterInv, TypeOK
<1>. QED BY <1>2, <1>3, <1>4, <1>5, <1>6, <1>7, QuietStep

LEMMA UninstallStep ==
  ASSUME FilterInv, NEW f \in Id, UninstallFilter(f)
  PROVE  FilterInv'
<1>1. filters' = Without(Sweep(filters), {f}) /\ UNCHANGED <<next_id, now, hi, job, feed, raced>>
  BY DEF UninstallFilter
<1>2. Kept(filters')
  BY <1>1, KeptStores, KeptWithout DEF FilterInv
<1>3. JobsSound' /\ Room' /\ HeightBound' /\ Onward
  BY <1>1 DEF FilterInv, JobsSound, Room, HeightBound, Onward, Polling
<1>4. hi' \in KEEP .. Top /\ now' \in now .. MaxTime /\ raced' \subseteq Id
  BY <1>1, SafeHeight DEF FilterInv, TypeOK
<1>. QED BY <1>1, <1>2, <1>3, <1>4, QuietStep

LEMMA TickStep ==
  ASSUME FilterInv, NEW k \in {0, Rate}, Tick(k)
  PROVE  FilterInv'
<1>1. now < MaxTime /\ now' = now + 1 /\ hi' = hi + k
      /\ UNCHANGED <<filters, next_id, job, feed, raced>>
  BY DEF Tick
<1>2. JobsSound' /\ Room' /\ Onward
  BY <1>1 DEF FilterInv, JobsSound, Room, Onward, Polling
<1>3. HeightBound' /\ hi' \in KEEP .. Top
  <2>. DEFINE left == MaxTime - (now + 1)
  <2>1. left \in Nat /\ MaxTime - now = left + 1 /\ k \in Nat /\ k <= Rate
    BY <1>1, SafeHeight, ConstantTypes
  <2>2. hi + Rate * (left + 1) <= Top
    BY <2>1 DEF FilterInv, HeightBound
  <2>3. MaxTime - now' = left
    BY <1>1
  <2>. HIDE DEF left
  <2>4. Rate * (left + 1) = Rate * left + Rate /\ Rate * left \in Nat
    BY <2>1, ConstantTypes
  <2>5. hi + k + Rate * left <= Top /\ hi + k <= Top /\ hi + k \in Nat /\ hi + k >= KEEP
    BY <2>1, <2>2, <2>4, SafeHeight, ConstantTypes
  <2>. QED BY <1>1, <2>3, <2>5, ConstantTypes DEF HeightBound
<1>4. Kept(filters') /\ raced' \subseteq Id /\ now' \in now .. MaxTime
  BY <1>1, KeptStores, SafeHeight, ConstantTypes DEF FilterInv, TypeOK
<1>. QED BY <1>1, <1>2, <1>3, <1>4, QuietStep

\* The first step of a poll: the filter is found, or its span is empty, or the poll goes on
\* with a copy of the cursor.
LEMMA LookStep ==
  ASSUME FilterInv, NEW w \in Worker, Look(w)
  PROVE  FilterInv'
<1>. DEFINE g == job[w].f
            store == Sweep(filters)
            flt == store[g]
            span == Span(job[w].op, flt, job[w].head)
            j == [op |-> job[w].op, f |-> g, step |-> flt.kind, from |-> span.from, to |-> span.to]
<1>1. /\ JobsSound /\ TypeOK /\ job[w].op \in {"changes", "logs"} /\ job[w].step = "look"
      /\ raced' = IF \E v \in Worker \ {w} : Polling(v, g) THEN raced \cup {g} ELSE raced
      /\ UNCHANGED <<next_id, now, hi, feed>>
  BY DEF FilterInv, Look
<1>2. g \in Id /\ job[w].head \in Nat
  <2>1. job[w] \in Looking
    BY <1>1, LookCase DEF JobsSound
  <2>. QED BY <2>1 DEF Looking
<1>3. raced \subseteq raced' /\ raced' \subseteq Id
  BY <1>1, <1>2 DEF TypeOK
<1>4. Kept(store)
  BY <1>1, KeptStores
<1>5. CASE g \notin DOMAIN store
  <2>1. filters' = store /\ Done(w)
    BY <1>5 DEF Look
  <2>. QED BY <1>1, <1>3, <1>4, <2>1, DoneStep
<1>6. CASE g \in DOMAIN store
  <2>0. span.from \in Nat /\ span.to \in Nat /\ (job[w].op = "changes" => span.from = flt.cursor)
    <3>1. /\ flt.to_block \in Nat /\ flt.from_block \in Nat /\ flt.cursor \in Nat
      BY <1>4, <1>6 DEF Kept
    <3>. DEFINE end == IF flt.to_block = 0 THEN job[w].head ELSE Min({flt.to_block, job[w].head})
                most == flt.cursor + MAX_GET_LOGS_RANGE - 1
    <3>2. most \in Nat
      BY <3>1, ConstantTypes
    <3>3. end \in Nat
      BY <1>2, <3>1, MinOfTwo
    <3>. HIDE DEF end, most, flt
    <3>4. Min({end, most}) \in Nat
      BY <3>2, <3>3, MinOfTwo
    <3>. QED BY <3>1, <3>3, <3>4 DEF Span, end, most
  <2>1. /\ filters' = [store EXCEPT ![g].touched = now]
        /\ \/ Done(w)
           \/ /\ span.from <= span.to /\ ~(job[w].op = "logs" /\ flt.kind = "blocks")
              /\ job' = [job EXCEPT ![w] = j]
    <3>1. /\ filters' = [store EXCEPT ![g].touched = now]
          /\ IF span.from > span.to \/ (job[w].op = "logs" /\ flt.kind = "blocks")
             THEN Done(w) ELSE job' = [job EXCEPT ![w] = j]
      BY <1>6 DEF Look
    <3>. HIDE DEF span, j, flt, store, g
    <3>. QED BY <3>1, <2>0
  <2>2. /\ flt.kind \in Kind /\ flt.cursor \in Nat
        /\ g \in DOMAIN filters /\ flt.kind = filters[g].kind /\ flt.cursor = filters[g].cursor
    BY <1>4, <1>6 DEF Kept
  <2>3. Kept(filters')
    <3>1. DOMAIN filters' = DOMAIN store
          /\ (\A f \in DOMAIN store : filters'[f] = IF f = g THEN [store[f] EXCEPT !.touched = now] ELSE store[f])
      BY <2>1
    <3>2. now \in 0 .. now
      BY SafeHeight
    <3>. HIDE DEF store
    <3>. QED BY <1>4, <3>1, <3>2 DEF Kept
  <2>4. CASE Done(w)
    BY <1>1, <1>3, <2>3, <2>4, DoneStep
  <2>5. CASE /\ span.from <= span.to /\ ~(job[w].op = "logs" /\ flt.kind = "blocks")
             /\ job' = [job EXCEPT ![w] = j]
    <3>1. j \in Job /\ j.op = job[w].op /\ j.f = g /\ j.step = flt.kind /\ j.from = span.from
          /\ j.step # "hashes"
      <4>1. j \in Fetching
        BY <1>1, <1>2, <2>0, <2>2, <2>5 DEF Fetching
      <4>. QED BY <2>2, <4>1 DEF Job, Kind
    <3>. HIDE DEF j
    <3>2. JobsSound' /\ job'[w] = j /\ \A v \in Worker \ {w} : job'[v] = job[v]
      BY <1>1, <2>5, <3>1, JobSet
    <3>3. Room'
      BY <1>1, <3>1, <3>2, RoomKept, SafeHeight DEF FilterInv
    <3>4. HeightBound' /\ hi' \in KEEP .. Top /\ now' \in now .. MaxTime
      BY <1>1, SafeHeight DEF FilterInv, HeightBound
    <3>5. CASE job[w].op = "logs"
      <4>1. Onward
        BY <3>1, <3>2, <3>5, OtherJobs
      <4>. QED BY <1>1, <1>3, <2>3, <3>2, <3>3, <3>4, <4>1, QuietStep
    <3>6. CASE job[w].op = "changes"
      <4>. HIDE DEF flt, span, store
      <4>1. /\ \A v \in Worker, f \in Id : Polling(v, f)' => (v = w /\ f = g) \/ (v # w /\ Polling(v, f))
            /\ ~\E f \in Id : Polling(w, f)
        BY <1>1, <3>1, <3>2 DEF Polling
      <4>2. g <= next_id /\ feed[g].kind = flt.kind /\ Reached(feed[g], j.from)
        BY <1>1, <2>0, <2>2, <3>1, <3>6, FilterTypes DEF FilterInv, StoreSound
      <4>3. TypeOK' /\ FeedSound' /\ StoreSound' /\ ExactlyOnce'
        BY <1>1, <1>3, <2>3, <3>4, QuietStore
      <4>4. PollsSound'
        BY <1>1, <2>2, <3>1, <3>2, <4>1, <4>2 DEF FilterInv, PollsSound, Kind
      <4>5. Alone'
        <5>. SUFFICES ASSUME NEW f \in Id \ raced', NEW v \in Worker, Polling(v, f)'
                      PROVE  /\ f \in DOMAIN filters' => job'[v].from = filters'[f].cursor
                             /\ \A u \in Worker : Polling(u, f)' => u = v
          BY DEF Alone
        <5>1. CASE f = g
          <6>1. \A u \in Worker : Polling(u, f)' => u = w
            BY <1>1, <4>1, <5>1
          <6>2. filters'[g].cursor = filters[g].cursor \/ g \notin DOMAIN filters'
            BY <2>3 DEF Kept
          <6>. QED BY <2>0, <2>2, <3>1, <3>2, <3>6, <5>1, <6>1, <6>2
        <5>2. CASE f # g
          <6>1. f \in Id \ raced /\ v # w /\ Polling(v, f) /\ job'[v] = job[v]
            BY <1>3, <3>2, <4>1, <5>2
          <6>2. f \in DOMAIN filters' => f \in DOMAIN filters /\ filters'[f].cursor = filters[f].cursor
            BY <2>3 DEF Kept
          <6>3. \A u \in Worker : Polling(u, f)' => Polling(u, f)
            BY <4>1, <5>2
          <6>. QED BY <6>1, <6>2, <6>3 DEF FilterInv, Alone
        <5>. QED BY <5>1, <5>2
      <4>. QED BY <3>2, <3>3, <3>4, <4>3, <4>4, <4>5 DEF FilterInv
    <3>. QED BY <1>1, <3>5, <3>6
  <2>. QED BY <2>1, <2>4, <2>5
<1>. QED BY <1>5, <1>6

LEMMA ReadHashesStep ==
  ASSUME FilterInv, NEW w \in Worker, ReadHashes(w)
  PROVE  FilterInv'
<1>. DEFINE j == [op |-> "changes", step |-> "hashes", f |-> job[w].f,
                  from |-> job[w].from, to |-> job[w].to,
                  read |-> (job[w].from .. job[w].to) \cap (Lo .. hi)]
<1>1. /\ JobsSound /\ TypeOK /\ job[w].op = "changes" /\ job[w].step = "blocks"
      /\ job' = [job EXCEPT ![w] = j] /\ UNCHANGED <<filters, next_id, now, hi, feed, raced>>
  BY DEF FilterInv, ReadHashes
<1>2. job[w].f \in Id /\ job[w].from \in Nat /\ job[w].to \in Nat /\ job[w].from <= job[w].to
  <2>1. job[w] \in Fetching
    BY <1>1, FetchCase DEF JobsSound, Kind
  <2>. QED BY <2>1 DEF Fetching
<1>3. j \in Job
  <2>1. j.read \in SUBSET Nat
    BY <1>2
  <2>. HIDE DEF j
  <2>2. j \in Replying
    BY <1>2, <2>1 DEF Replying, j
  <2>. QED BY <2>2 DEF Job
<1>4. /\ j.op = "changes" /\ j.step = "hashes" /\ j.f = job[w].f /\ j.from = job[w].from
      /\ j.to = job[w].to /\ j.read = (j.from .. j.to) \cap (Lo .. hi)
  OBVIOUS
<1>. HIDE DEF j
<1>5. JobsSound' /\ job'[w] = j /\ \A v \in Worker \ {w} : job'[v] = job[v]
  BY <1>1, <1>3, JobSet
<1>6. Room'
  BY <1>1, <1>4, <1>5, RoomKept, SafeHeight DEF FilterInv
<1>7. HeightBound' /\ hi' \in KEEP .. Top /\ now' \in now .. MaxTime
  BY <1>1, SafeHeight DEF FilterInv, HeightBound
<1>8. TypeOK' /\ FeedSound' /\ StoreSound' /\ ExactlyOnce'
  BY <1>1, <1>7, KeptStores, QuietStore DEF TypeOK
<1>9. \A v \in Worker, f \in Id : Polling(v, f)' => Polling(v, f) /\ job'[v].from = job[v].from
  BY <1>1, <1>4, <1>5 DEF Polling
<1>10. PollsSound'
  <2>. SUFFICES ASSUME NEW v \in Worker, NEW f \in Id, Polling(v, f)'
                PROVE  /\ f <= next_id
                       /\ feed[f].kind = IF job'[v].step = "logs" THEN "logs" ELSE "blocks"
                       /\ Reached(feed[f], job'[v].from)
                       /\ job'[v].step = "hashes" =>
                            \E a, b \in 1 .. Top : job'[v].read = (job'[v].from .. job'[v].to) \cap (a .. b)
    BY <1>1 DEF PollsSound
  <2>1. /\ f <= next_id /\ Reached(feed[f], job'[v].from)
        /\ feed[f].kind = IF job[v].step = "logs" THEN "logs" ELSE "blocks"
    BY <1>9 DEF FilterInv, PollsSound
  <2>2. CASE v = w
    <3>1. Lo \in 1 .. Top /\ hi \in 1 .. Top
      BY SafeHeight, ConstantTypes
    <3>. QED BY <1>1, <1>4, <1>5, <2>1, <2>2, <3>1
  <2>3. CASE v # w
    BY <1>5, <1>9, <2>1, <2>3 DEF FilterInv, PollsSound
  <2>. QED BY <2>2, <2>3
<1>11. Alone'
  BY <1>1, <1>9 DEF FilterInv, Alone
<1>. QED BY <1>5, <1>6, <1>7, <1>8, <1>10, <1>11 DEF FilterInv

\* What a prefix of the chain becomes when a span is added that does not start above it.
LEMMA SpanAdded ==
  ASSUME NEW start \in Nat \ {0}, NEW m \in Int, m + 1 >= start,
         NEW from \in Nat, NEW to \in Nat, from >= start, from <= to,
         start .. from - 1 \subseteq start .. m
  PROVE  \/ m >= to /\ (start .. m) \cup (from .. to) = start .. m
         \/ m < to /\ (start .. m) \cup (from .. to) = start .. to
<1>1. from - 1 <= m
  <2>1. CASE from = start
    BY <2>1
  <2>2. CASE from > start
    <3>1. from - 1 \in start .. from - 1
      BY <2>2
    <3>. QED BY <3>1
  <2>. QED BY <2>1, <2>2
<1>. QED BY <1>1

\* What a client that is told of more blocks has still been told of.
LEMMA ReachedMore ==
  ASSUME NEW fd, NEW more, NEW fe, fe.start = fd.start, fe.kind = fd.kind,
         fe.told = fd.told \cup more, NEW n, Reached(fd, n)
  PROVE  Reached(fe, n)
BY DEF Reached

LEMMA ReachedNext ==
  ASSUME NEW fd, NEW n \in Nat, n + 1 >= fd.start, fd.kind = "logs" => fd.start .. n \subseteq fd.told
  PROVE  Reached(fd, n + 1)
<1>1. n + 1 - 1 = n
  OBVIOUS
<1>2. fd.kind = "logs" => fd.start .. (n + 1 - 1) \subseteq fd.told
  BY <1>1, Zenon
<1>. QED BY <1>2 DEF Reached

\* What a poll that reports works on.
LEMMA PollFacts ==
  ASSUME FilterInv, NEW w \in Worker, job[w].op = "changes", job[w].step \in {"logs", "hashes"}
  PROVE  /\ job[w].f \in Id /\ job[w].from \in Nat /\ job[w].to \in Nat /\ job[w].from <= job[w].to
         /\ job[w].step = "hashes" => job[w].read \in SUBSET Nat
         /\ Polling(w, job[w].f)
         /\ job[w].f <= next_id
         /\ feed[job[w].f] \in FeedRecord /\ feed[job[w].f].start \in Start /\ Prefix(feed[job[w].f])
         /\ Reached(feed[job[w].f], job[w].from)
         /\ feed[job[w].f].kind = IF job[w].step = "logs" THEN "logs" ELSE "blocks"
         /\ job[w].step = "hashes" =>
              \E a, b \in 1 .. Top : job[w].read = (job[w].from .. job[w].to) \cap (a .. b)
<1>1. job[w] \in Fetching \/ (job[w] \in Replying /\ job[w].step = "hashes")
  BY FetchCase, ReplyCase DEF FilterInv, JobsSound, Kind
<1>2. /\ job[w].f \in Id /\ job[w].from \in Nat /\ job[w].to \in Nat /\ job[w].from <= job[w].to
      /\ job[w].step = "hashes" => job[w].read \in SUBSET Nat
  BY <1>1 DEF Fetching, Replying, Kind
<1>3. Polling(w, job[w].f)
  BY DEF Polling
<1>4. /\ job[w].f <= next_id
      /\ feed[job[w].f].kind = IF job[w].step = "logs" THEN "logs" ELSE "blocks"
      /\ Reached(feed[job[w].f], job[w].from)
      /\ job[w].step = "hashes" =>
           \E a, b \in 1 .. Top : job[w].read = (job[w].from .. job[w].to) \cap (a .. b)
  BY <1>2, <1>3 DEF FilterInv, PollsSound
<1>5. feed[job[w].f] \in FeedRecord /\ feed[job[w].f].start \in Start /\ Prefix(feed[job[w].f])
  BY <1>2, <1>4 DEF FilterInv, FeedSound
<1>. QED BY <1>2, <1>3, <1>4, <1>5

\* A poll reports the blocks of its span that it has read, and moves the cursor past them.
LEMMA ReplyStep ==
  ASSUME FilterInv, NEW w \in Worker, NEW blocks, job[w].op = "changes",
         \/ job[w].step = "logs" /\ blocks = job[w].from .. job[w].to /\ job[w].to <= Top
         \/ job[w].step = "hashes" /\ blocks = job[w].read,
         Reply(w, blocks), UNCHANGED <<next_id, now, hi, raced>>
  PROVE  FilterInv' /\ [Feed!Next]_feed
<1>. DEFINE g == job[w].f
            from == job[w].from
            to == job[w].to
            fd == feed[g]
            fe == feed'[g]
<1>1. /\ g \in Id /\ from \in Nat /\ to \in Nat /\ from <= to /\ Polling(w, g) /\ g <= next_id
      /\ fd \in FeedRecord /\ fd.start \in Start /\ Prefix(fd) /\ Reached(fd, from)
      /\ fd.kind = IF job[w].step = "logs" THEN "logs" ELSE "blocks"
  BY PollFacts
<1>2. fd.start \in Nat \ {0} /\ from >= fd.start
  BY <1>1, ConstantTypes DEF Reached
<1>3. /\ blocks \subseteq from .. to /\ blocks \subseteq Nat
      /\ fd.kind = "logs" => blocks = from .. to /\ to <= Top
      /\ fd.kind # "logs" => \E a, b \in 1 .. Top : blocks = (from .. to) \cap (a .. b)
  BY <1>1, PollFacts
<1>4. /\ DOMAIN feed' = Id /\ \A f \in Id \ {g} : feed'[f] = feed[f]
      /\ fe = [fd EXCEPT !.told = @ \cup blocks]
      /\ feed' = [feed EXCEPT ![g].told = @ \cup blocks]
  BY <1>1 DEF Reply, FilterInv, FeedSound
<1>5. /\ fe \in FeedRecord /\ fe.kind = fd.kind /\ fe.start = fd.start /\ fe.told = fd.told \cup blocks
  BY <1>1, <1>3, <1>4 DEF FeedRecord
<1>6. /\ DOMAIN filters' = DOMAIN filters
      /\ \A f \in DOMAIN filters \ {g} : filters'[f] = filters[f]
      /\ g \in DOMAIN filters => filters'[g] = [filters[g] EXCEPT !.cursor = to + 1]
  BY DEF Reply, Advanced
<1>7. JobsSound' /\ job'[w] = Idle /\ job'[w].op = "idle" /\ \A v \in Worker \ {w} : job'[v] = job[v]
  <2>1. Idle \in Job /\ Idle.op = "idle"
    BY DEF Job, Idle
  <2>. QED BY <2>1, JobSet DEF FilterInv, Reply, Done
<1>8. Room' /\ HeightBound'
  BY <1>7, RoomKept, SafeHeight DEF FilterInv, HeightBound
<1>. HIDE DEF g, from, to, fd, fe
<1>9. fd.kind = "logs" =>
        \E m \in {fd.start - 1} \cup (1 .. Top) :
          m \in Nat /\ m + 1 >= fd.start /\ fd.told = fd.start .. m
          /\ fd.start .. from - 1 \subseteq fd.start .. m
  BY <1>1, <1>2, ConstantTypes DEF Prefix, Reached
<1>10. fd.kind = "logs" =>
         \E m \in 1 .. Top : m + 1 >= fd.start /\ fe.told = fd.start .. m /\ fd.told \subseteq fd.start .. m
  <2>. SUFFICES ASSUME fd.kind = "logs"
                PROVE  \E m \in 1 .. Top : m + 1 >= fd.start /\ fe.told = fd.start .. m
                                          /\ fd.told \subseteq fd.start .. m
    OBVIOUS
  <2>1. PICK m \in {fd.start - 1} \cup (1 .. Top) :
          m \in Nat /\ m + 1 >= fd.start /\ fd.told = fd.start .. m
          /\ fd.start .. from - 1 \subseteq fd.start .. m
    BY <1>9
  <2>2. \/ m >= to /\ fe.told = fd.start .. m
        \/ m < to /\ fe.told = fd.start .. to
    BY <1>1, <1>2, <1>3, <1>5, <2>1, SpanAdded
  <2>3. to \in 1 .. Top
    BY <1>1, <1>2, <1>3, ConstantTypes
  <2>4. CASE m >= to /\ fe.told = fd.start .. m
    <3>1. m \in 1 .. Top
      BY <1>1, <1>2, <2>1, <2>3, <2>4, ConstantTypes
    <3>. QED BY <2>1, <2>4, <3>1
  <2>5. CASE m < to /\ fe.told = fd.start .. to
    <3>1. fd.told \subseteq fd.start .. to /\ to + 1 >= fd.start
      BY <1>1, <1>2, <2>1, <2>5
    <3>. QED BY <2>3, <2>5, <3>1
  <2>. QED BY <2>2, <2>4, <2>5
<1>11. Prefix(fe)
  BY <1>5, <1>10 DEF Prefix
<1>12. Reached(fe, to + 1)
  <2>1. to + 1 >= fd.start
    BY <1>1, <1>2
  <2>2. fd.kind = "logs" => fe.start .. to \subseteq fe.told
    <3>1. fd.kind = "logs" => fd.start .. from - 1 \subseteq fd.told
      BY <1>1 DEF Reached
    <3>2. fd.start .. to \subseteq (fd.start .. from - 1) \cup (from .. to)
      BY <1>1, <1>2
    <3>. QED BY <1>3, <1>5, <3>1, <3>2
  <2>. QED BY <1>1, <1>5, <2>1, <2>2, ReachedNext
<1>13. TypeOK'
  <2>1. \A f \in DOMAIN filters' :
          filters'[f] \in [kind : {"logs", "blocks"}, from_block : Nat, to_block : Nat,
                          cursor : Nat, touched : 0 .. now]
    <3>1. to + 1 \in Nat
      BY <1>1
    <3>2. g \in DOMAIN filters =>
            filters'[g] \in [kind : {"logs", "blocks"}, from_block : Nat, to_block : Nat,
                            cursor : Nat, touched : 0 .. now]
      BY <1>6, <3>1 DEF FilterInv, TypeOK
    <3>. QED BY <1>6, <3>2 DEF FilterInv, TypeOK
  <2>. QED BY <1>6, <2>1 DEF FilterInv, TypeOK
<1>14. FeedSound'
  BY <1>1, <1>4, <1>5, <1>11 DEF FilterInv, FeedSound, fe
<1>15. StoreSound'
  <2>1. ASSUME NEW f \in DOMAIN filters'
        PROVE  filters'[f].kind = feed'[f].kind /\ Reached(feed'[f], filters'[f].cursor)
    <3>1. f \in DOMAIN filters /\ f \in Id /\ filters[f].kind = feed[f].kind
          /\ Reached(feed[f], filters[f].cursor)
      BY <1>6, FilterTypes DEF FilterInv, StoreSound
    <3>2. CASE f = g
      <4>1. filters'[f].kind = filters[f].kind /\ filters'[f].cursor = to + 1
        BY <1>6, <3>1, <3>2 DEF FilterInv, TypeOK
      <4>. QED BY <1>5, <1>12, <3>1, <3>2, <4>1 DEF fd, fe
    <3>3. CASE f # g
      BY <1>4, <1>6, <3>1, <3>3
    <3>. QED BY <3>2, <3>3
  <2>. QED BY <2>1 DEF StoreSound
<1>16. \A v \in Worker, f \in Id : Polling(v, f)' => v # w /\ Polling(v, f) /\ job'[v] = job[v]
  BY <1>7 DEF Polling
<1>17. PollsSound'
  <2>. SUFFICES ASSUME NEW v \in Worker, NEW f \in Id, Polling(v, f)'
                PROVE  /\ f <= next_id
                       /\ feed'[f].kind = IF job[v].step = "logs" THEN "logs" ELSE "blocks"
                       /\ Reached(feed'[f], job[v].from)
                       /\ job[v].step = "hashes" =>
                            \E a, b \in 1 .. Top : job[v].read = (job[v].from .. job[v].to) \cap (a .. b)
    BY <1>16 DEF PollsSound
  <2>1. /\ f <= next_id
        /\ feed[f].kind = IF job[v].step = "logs" THEN "logs" ELSE "blocks"
        /\ Reached(feed[f], job[v].from)
        /\ job[v].step = "hashes" =>
             \E a, b \in 1 .. Top : job[v].read = (job[v].from .. job[v].to) \cap (a .. b)
    BY <1>16 DEF FilterInv, PollsSound
  <2>2. feed'[f].kind = feed[f].kind /\ Reached(feed'[f], job[v].from)
    <3>1. CASE f = g
      BY <1>5, <2>1, <3>1, ReachedMore DEF fd, fe
    <3>2. CASE f # g
      BY <1>4, <2>1, <3>2
    <3>. QED BY <3>1, <3>2
  <2>. QED BY <2>1, <2>2
<1>18. Alone'
  <2>. SUFFICES ASSUME NEW f \in Id \ raced, NEW v \in Worker, Polling(v, f)'
                PROVE  /\ f \in DOMAIN filters' => job'[v].from = filters'[f].cursor
                       /\ \A u \in Worker : Polling(u, f)' => u = v
    BY DEF Alone
  <2>1. v # w /\ Polling(v, f) /\ job'[v] = job[v]
    BY <1>16
  <2>2. f # g
    BY <1>1, <2>1 DEF FilterInv, Alone
  <2>. QED BY <1>6, <1>16, <2>1, <2>2 DEF FilterInv, Alone
<1>19. ExactlyOnce'
  <2>1. ASSUME NEW f \in DOMAIN filters' \ raced'
        PROVE  IF filters'[f].kind = "logs" THEN feed'[f].told = feed'[f].start .. filters'[f].cursor - 1
               ELSE feed'[f].told \subseteq feed'[f].start .. filters'[f].cursor - 1
    <3>1. /\ f \in DOMAIN filters \ raced /\ f \in Id /\ filters[f].kind = feed[f].kind
          /\ filters[f].cursor \in Nat
          /\ IF filters[f].kind = "logs" THEN feed[f].told = feed[f].start .. filters[f].cursor - 1
             ELSE feed[f].told \subseteq feed[f].start .. filters[f].cursor - 1
      BY <1>6, FilterTypes DEF FilterInv, StoreSound, ExactlyOnce
    <3>2. CASE f = g
      <4>1. filters'[f].kind = filters[f].kind /\ filters'[f].cursor = to + 1
        BY <1>6, <3>1, <3>2 DEF FilterInv, TypeOK
      <4>2. filters[f].cursor = from
        BY <1>1, <3>1, <3>2 DEF FilterInv, Alone, from, g
      <4>3. (fd.start .. from - 1) \cup (from .. to) = fd.start .. to
        BY <1>1, <1>2
      <4>4. IF fd.kind = "logs" THEN fe.told = fd.start .. to ELSE fe.told \subseteq fd.start .. to
        BY <1>3, <1>5, <3>1, <3>2, <4>2, <4>3 DEF fd
      <4>5. filters'[f].cursor - 1 = to
        BY <1>1, <4>1
      <4>. QED BY <1>5, <3>1, <3>2, <4>1, <4>4, <4>5 DEF fd, fe
    <3>3. CASE f # g
      BY <1>4, <1>6, <3>1, <3>3
    <3>. QED BY <3>2, <3>3
  <2>. QED BY <2>1 DEF ExactlyOnce
<1>20. [Feed!Next]_feed
  <2>1. fd # NoFeed
    BY <1>1, FilterConstants
  <2>2. CASE fd.kind = "logs"
    <3>1. PICK m \in 1 .. Top : fe.told = fd.start .. m /\ fd.told \subseteq fd.start .. m
      BY <1>10, <2>2
    <3>2. m \in 1 .. Top + 1 \cup {req.from : req \in Request}
      BY ConstantTypes
    <3>3. feed' = [feed EXCEPT ![g].told = fd.start .. m]
      BY <1>4, <1>5, <3>1 DEF fd
    <3>4. Feed!ReportLogs(g)
      BY <2>1, <2>2, <3>1, <3>2, <3>3 DEF Feed!ReportLogs, fd
    <3>. QED BY <1>1, <3>4 DEF Feed!Next
  <2>3. CASE fd.kind # "logs"
    <3>1. fd.kind = "blocks"
      BY <1>1, <2>3 DEF FeedRecord
    <3>2. PICK a \in 1 .. Top, b \in 1 .. Top : blocks = (from .. to) \cap (a .. b)
      BY <1>3, <2>3
    <3>3. CASE blocks = {}
      <4>1. fe = fd
        BY <1>1, <1>4, <3>3 DEF FeedRecord
      <4>2. feed' = feed
        BY <1>4, <4>1 DEF FilterInv, FeedSound, fd, fe
      <4>. QED BY <4>2
    <3>4. CASE blocks # {}
      <4>1. PICK x \in blocks : TRUE
        BY <3>4
      <4>. DEFINE lo == IF from >= a THEN from ELSE a
                  up == IF to <= b THEN to ELSE b
      <4>2. lo \in 1 .. Top /\ up \in 1 .. Top /\ blocks = lo .. up /\ lo >= fd.start
        <5>1. x >= from /\ x <= to /\ x >= a /\ x <= b
          BY <1>1, <3>2, <4>1
        <5>2. lo \in 1 .. Top /\ up \in 1 .. Top /\ lo >= fd.start
          BY <1>1, <1>2, <3>2, <4>1, <5>1, ConstantTypes
        <5>3. blocks = lo .. up
          BY <1>1, <3>2
        <5>. QED BY <5>2, <5>3
      <4>. HIDE DEF lo, up
      <4>3. /\ lo \in 1 .. Top + 1 \cup {req.from : req \in Request}
            /\ up \in 1 .. Top + 1 \cup {req.from : req \in Request}
        BY <4>2, ConstantTypes
      <4>4. Feed!ReportBlocks(g)
        BY <1>4, <2>1, <3>1, <4>2, <4>3 DEF Feed!ReportBlocks, fd
      <4>. QED BY <1>1, <4>4 DEF Feed!Next
    <3>. QED BY <3>3, <3>4
  <2>. QED BY <2>2, <2>3
<1>. QED BY <1>7, <1>8, <1>13, <1>14, <1>15, <1>17, <1>18, <1>19, <1>20 DEF FilterInv

\* The logs of a span are complete only when the chain holds all of it.
LEMMA CompleteSpan ==
  ASSUME FilterInv, NEW from \in Nat, NEW to \in Nat, LogsForSpan(from, to) = "ok"
  PROVE  to <= Top
<1>1. to <= Safe
  BY SafeHeight DEF LogsForSpan
<1>. QED BY <1>1, SafeHeight, ConstantTypes

LEMMA FetchLogsStep ==
  ASSUME FilterInv, NEW w \in Worker, NEW outcome, FetchLogs(w, outcome),
         outcome = "ok" => job[w].to <= Top
  PROVE  FilterInv' /\ [Feed!Next]_feed
<1>1. /\ JobsSound /\ TypeOK /\ job[w].op \in {"changes", "logs"} /\ job[w].step = "logs"
      /\ UNCHANGED <<next_id, now, hi, raced>> /\ Fetched(w, outcome)
  BY DEF FilterInv, FetchLogs
<1>2. job[w] \in Fetching
  BY <1>1, FetchCase DEF JobsSound, Kind
<1>3. ASSUME job[w].from < job[w].to, UNCHANGED <<filters, feed>>,
             job' = [job EXCEPT ![w].to = Halved(job[w].from, job[w].to)]
      PROVE  FilterInv' /\ [Feed!Next]_feed
  <2>. DEFINE half == Halved(job[w].from, job[w].to)
              j == [job[w] EXCEPT !.to = half]
  <2>1. job[w].from \in Nat /\ job[w].to \in Nat
    BY <1>2 DEF Fetching
  <2>2. half \in Nat /\ job[w].from <= half
    BY <1>3, <2>1 DEF Halved
  <2>3. job' = [job EXCEPT ![w] = j]
    BY <1>3
  <2>. HIDE DEF half
  <2>4. /\ j \in Job /\ j.op = job[w].op /\ j.step = "logs" /\ j.f = job[w].f /\ j.from = job[w].from
    <3>1. j \in Fetching
      BY <1>2, <2>1, <2>2 DEF Fetching
    <3>. QED BY <1>1, <1>2, <3>1 DEF Job, Fetching
  <2>. HIDE DEF j
  <2>5. JobsSound' /\ job'[w] = j /\ \A v \in Worker \ {w} : job'[v] = job[v]
    BY <1>1, <2>3, <2>4, JobSet
  <2>6. Room'
    BY <1>1, <2>4, <2>5, RoomKept, SafeHeight DEF FilterInv
  <2>7. Onward
    BY <1>1, <2>4, <2>5 DEF Onward, Polling
  <2>8. HeightBound' /\ hi' \in KEEP .. Top /\ now' \in now .. MaxTime
    BY <1>1, SafeHeight DEF FilterInv, HeightBound
  <2>9. Kept(filters') /\ raced' \subseteq Id
    BY <1>1, <1>3, KeptStores DEF TypeOK
  <2>10. FilterInv'
    BY <1>1, <1>3, <2>5, <2>6, <2>7, <2>8, <2>9, QuietStep
  <2>. QED BY <1>3, <2>10
<1>4. ASSUME outcome = "ok", job[w].op = "changes", Reply(w, job[w].from .. job[w].to)
      PROVE  FilterInv' /\ [Feed!Next]_feed
  BY <1>1, <1>4, ReplyStep
<1>5. ASSUME Done(w), UNCHANGED <<filters, feed>>
      PROVE  FilterInv' /\ [Feed!Next]_feed
  <2>1. Kept(filters') /\ raced' \subseteq Id
    BY <1>1, <1>5, KeptStores DEF TypeOK
  <2>2. FilterInv'
    BY <1>1, <1>5, <2>1, DoneStep
  <2>. QED BY <1>5, <2>2
<1>. QED BY <1>1, <1>3, <1>4, <1>5 DEF Fetched

\* A full store gives up a filter before it takes one.
LEMMA EvictedHasRoom ==
  ASSUME TypeOK, NEW store \in Evicted(Sweep(filters))
  PROVE  /\ Kept(store) /\ IsFiniteSet(DOMAIN store)
         /\ Cardinality(DOMAIN store) \in Nat /\ Cardinality(DOMAIN store) < MAX_FILTERS
<1>. DEFINE sw == Sweep(filters)
<1>1. Kept(sw)
  BY KeptStores
<1>2. IsFiniteSet(DOMAIN filters)
  <2>1. IsFiniteSet(1 .. next_id)
    BY ConstantTypes, FS_Interval DEF TypeOK
  <2>. QED BY <2>1, FS_Subset DEF TypeOK
<1>3. /\ IsFiniteSet(DOMAIN sw) /\ Cardinality(DOMAIN sw) <= Cardinality(DOMAIN filters)
  BY <1>1, <1>2, FS_Subset DEF Kept
<1>4. Cardinality(DOMAIN sw) \in Nat /\ Cardinality(DOMAIN filters) \in Nat
  BY <1>2, <1>3, FS_CardinalityType
<1>5. Cardinality(DOMAIN sw) <= MAX_FILTERS
  BY <1>3, <1>4, ConstantTypes DEF TypeOK
<1>. HIDE DEF sw
<1>6. CASE store = sw /\ Cardinality(DOMAIN sw) < MAX_FILTERS
  BY <1>1, <1>3, <1>4, <1>6
<1>7. CASE \E f \in DOMAIN sw : store = Without(sw, {f})
  <2>1. PICK f \in DOMAIN sw : store = Without(sw, {f})
    BY <1>7
  <2>2. DOMAIN store = DOMAIN sw \ {f}
    BY <2>1, WithoutKeeps
  <2>3. IsFiniteSet(DOMAIN store) /\ Cardinality(DOMAIN store) = Cardinality(DOMAIN sw) - 1
    BY <1>3, <2>1, <2>2, FS_RemoveElement
  <2>4. Kept(store)
    BY <1>1, <2>1, KeptWithout
  <2>5. Cardinality(DOMAIN store) \in Nat
    BY <2>3, FS_CardinalityType
  <2>. QED BY <1>4, <1>5, <2>3, <2>4, <2>5, ConstantTypes
<1>. QED BY <1>6, <1>7 DEF Evicted, sw

LEMMA FinishInstallStep ==
  ASSUME FilterInv, NEW w \in Worker, FinishInstall(w)
  PROVE  FilterInv' /\ Feed!Next
<1>. DEFINE kind == job[w].kind
            from == job[w].from
            f == next_id + 1
            new == [kind |-> kind, from_block |-> from, to_block |-> job[w].to, cursor |-> from, touched |-> now]
            fd == [kind |-> kind, start |-> from, told |-> {}]
<1>1. /\ JobsSound /\ TypeOK /\ Room /\ job[w].op = "install" /\ Insert(kind, from, job[w].to)
      /\ Done(w) /\ UNCHANGED <<now, hi, raced>>
  BY DEF FilterInv, FinishInstall
<1>2. kind \in Kind /\ from \in Start /\ job[w].to \in Nat
  <2>1. job[w] \in Installing
    BY <1>1, JobCases DEF JobsSound, Idle
  <2>. QED BY <2>1 DEF Installing
<1>3. PICK store \in Evicted(Sweep(filters)) :
        /\ next_id' = f
        /\ filters' = [g \in DOMAIN store \cup {f} |-> IF g = f THEN new ELSE store[g]]
        /\ feed' = [feed EXCEPT ![f] = fd]
  BY <1>1 DEF Insert, NewId
<1>4. /\ Kept(store) /\ IsFiniteSet(DOMAIN store)
      /\ Cardinality(DOMAIN store) \in Nat /\ Cardinality(DOMAIN store) < MAX_FILTERS
  BY <1>1, EvictedHasRoom
<1>5. Idle \in Job /\ Idle.op = "idle" /\ job' = [job EXCEPT ![w] = Idle]
  BY <1>1 DEF Job, Idle, Done
<1>6. JobsSound' /\ job'[w] = Idle /\ \A v \in Worker \ {w} : job'[v] = job[v]
  BY <1>1, <1>5, JobSet
<1>7. Room' /\ f \in Id /\ f \in Nat
  <2>. DEFINE S == {v \in Worker : job[v].op = "install"}
              T == {v \in Worker : job'[v].op = "install"}
  <2>1. S \in SUBSET Worker /\ T \in SUBSET Worker /\ T \subseteq S \ {w} /\ w \in S
    BY <1>1, <1>5, <1>6
  <2>2. next_id + Cardinality(S) <= MaxId
    BY <1>1 DEF Room
  <2>. HIDE DEF S, T
  <2>3. Cardinality(T) + 1 <= Cardinality(S) /\ Cardinality(T) \in Nat /\ Cardinality(S) \in Nat
    BY <2>1, CountWorkers
  <2>4. f + Cardinality(T) <= MaxId /\ f \in 1 .. MaxId
    BY <2>2, <2>3, SafeHeight, ConstantTypes
  <2>. QED BY <1>3, <2>4 DEF Room, T, Id
<1>8. \A g \in DOMAIN filters : g \in Id /\ g <= next_id /\ g # f
  BY <1>1, FilterTypes, SafeHeight, ConstantTypes DEF Id
<1>9. /\ DOMAIN filters' = DOMAIN store \cup {f} /\ filters'[f] = new /\ f \notin DOMAIN store
      /\ \A g \in DOMAIN store : g # f /\ filters'[g] = store[g] /\ g \in DOMAIN filters
  BY <1>3, <1>4, <1>8 DEF Kept
<1>10. /\ feed[f] = NoFeed /\ feed'[f] = fd /\ feed' \in [Id -> FeedRecord \cup {NoFeed}]
       /\ \A g \in Id \ {f} : feed'[g] = feed[g]
  <2>1. fd \in FeedRecord
    BY <1>2, ConstantTypes DEF FeedRecord, Kind
  <2>2. ~(f <= next_id)
    BY SafeHeight
  <2>. HIDE DEF fd, f
  <2>. QED BY <1>3, <1>7, <2>1, <2>2 DEF FilterInv, FeedSound
<1>11. /\ new.kind = kind /\ new.cursor = from /\ fd.kind = kind /\ fd.start = from /\ fd.told = {}
       /\ fd \in FeedRecord /\ from \in Nat \ {0}
  BY <1>2, ConstantTypes DEF FeedRecord, Kind
<1>12. new \in [kind : Kind, from_block : Nat, to_block : Nat, cursor : Nat, touched : 0 .. now]
  <2>1. now \in 0 .. now
    BY SafeHeight
  <2>. QED BY <1>2, <1>11, <2>1
<1>13. Reached(fd, from) /\ Prefix(fd)
  <2>1. from >= from /\ from .. from - 1 = {} /\ from - 1 + 1 >= from
    BY <1>11
  <2>2. from - 1 \in {from - 1} \cup (1 .. Top)
    OBVIOUS
  <2>. HIDE DEF fd, from
  <2>. QED BY <1>11, <2>1, <2>2 DEF Reached, Prefix
<1>. HIDE DEF kind, from, f, new, fd
<1>14. TypeOK'
  <2>1. Cardinality(DOMAIN filters') <= MAX_FILTERS
    <3>1. Cardinality(DOMAIN store \cup {f}) = Cardinality(DOMAIN store) + 1
      BY <1>4, <1>9, FS_AddElement
    <3>. QED BY <1>4, <1>9, <3>1, ConstantTypes
  <2>2. DOMAIN filters' \subseteq 1 .. f
    BY <1>7, <1>8, <1>9, SafeHeight DEF Id, f
  <2>3. \A g \in DOMAIN filters' :
          filters'[g] \in [kind : Kind, from_block : Nat, to_block : Nat, cursor : Nat, touched : 0 .. now]
    BY <1>4, <1>9, <1>12 DEF Kept
  <2>. QED BY <1>1, <1>3, <1>7, <2>1, <2>2, <2>3, ConstantTypes DEF TypeOK, Kind, Id
<1>15. FeedSound'
  <2>1. \A g \in Id \ {f} : g <= f <=> g <= next_id
    BY SafeHeight DEF Id, f
  <2>2. f <= f
    BY <1>7
  <2>3. ASSUME NEW g \in Id
        PROVE  IF g <= f THEN feed'[g] \in FeedRecord /\ feed'[g].start \in Start /\ Prefix(feed'[g])
               ELSE feed'[g] = NoFeed
    <3>1. CASE g = f
      BY <1>2, <1>10, <1>11, <1>13, <2>2, <3>1
    <3>2. CASE g # f
      BY <1>10, <2>1, <3>2 DEF FilterInv, FeedSound
    <3>. QED BY <3>1, <3>2
  <2>. QED BY <1>3, <1>10, <2>3 DEF FeedSound
<1>16. StoreSound'
  <2>1. ASSUME NEW g \in DOMAIN filters'
        PROVE  filters'[g].kind = feed'[g].kind /\ Reached(feed'[g], filters'[g].cursor)
    <3>1. CASE g = f
      BY <1>9, <1>10, <1>11, <1>13, <3>1
    <3>2. CASE g # f
      <4>1. /\ g \in DOMAIN filters /\ g \in Id /\ feed'[g] = feed[g]
            /\ filters'[g].kind = filters[g].kind /\ filters'[g].cursor = filters[g].cursor
        BY <1>4, <1>8, <1>9, <1>10, <3>2 DEF Kept
      <4>. QED BY <4>1 DEF FilterInv, StoreSound
    <3>. QED BY <3>1, <3>2
  <2>. QED BY <2>1 DEF StoreSound
<1>17. \A v \in Worker, g \in Id : Polling(v, g)' =>
         Polling(v, g) /\ job'[v] = job[v] /\ g # f /\ feed'[g] = feed[g]
  <2>1. \A v \in Worker, g \in Id : Polling(v, g)' => Polling(v, g) /\ job'[v] = job[v]
    BY <1>5, <1>6 DEF Polling
  <2>2. \A v \in Worker, g \in Id : Polling(v, g) => g # f
    <3>1. \A v \in Worker, g \in Id : Polling(v, g) => g <= next_id
      BY DEF FilterInv, PollsSound
    <3>2. ~(f <= next_id)
      BY SafeHeight DEF f
    <3>. QED BY <3>1, <3>2
  <2>. QED BY <1>10, <2>1, <2>2
<1>18. PollsSound'
  <2>1. \A g \in Id : g <= next_id => g <= next_id'
    BY <1>3, SafeHeight DEF Id, f
  <2>. QED BY <1>17, <2>1 DEF FilterInv, PollsSound
<1>19. Alone'
  BY <1>1, <1>4, <1>9, <1>17 DEF FilterInv, Alone, Kept
<1>20. ExactlyOnce'
  <2>1. ASSUME NEW g \in DOMAIN filters' \ raced'
        PROVE  IF filters'[g].kind = "logs" THEN feed'[g].told = feed'[g].start .. filters'[g].cursor - 1
               ELSE feed'[g].told \subseteq feed'[g].start .. filters'[g].cursor - 1
    <3>1. CASE g = f
      <4>1. from .. from - 1 = {}
        BY <1>11
      <4>. QED BY <1>9, <1>10, <1>11, <3>1, <4>1
    <3>2. CASE g # f
      <4>1. /\ g \in DOMAIN filters \ raced /\ feed'[g] = feed[g]
            /\ filters'[g].kind = filters[g].kind /\ filters'[g].cursor = filters[g].cursor
        BY <1>1, <1>4, <1>8, <1>9, <1>10, <3>2 DEF Kept
      <4>. QED BY <4>1 DEF FilterInv, ExactlyOnce
    <3>. QED BY <3>1, <3>2
  <2>. QED BY <2>1 DEF ExactlyOnce
<1>21. HeightBound'
  BY <1>1 DEF FilterInv, HeightBound
<1>22. Feed!Next
  <2>1. from \in 1 .. Top + 1 \cup {req.from : req \in Request}
    BY <1>2 DEF Start
  <2>2. Feed!Install(f)
    BY <1>2, <1>3, <1>10, <2>1 DEF Feed!Install, fd, Kind
  <2>. QED BY <1>7, <2>2 DEF Feed!Next
<1>. QED BY <1>6, <1>7, <1>14, <1>15, <1>16, <1>18, <1>19, <1>20, <1>21, <1>22 DEF FilterInv

\* Every step keeps the invariant, and is a step of what a filter promises or none.
LEMMA FilterInvStep ==
  ASSUME FilterInv, [Next]_vars
  PROVE  FilterInv' /\ [Feed!Next]_feed
<1>1. ASSUME NEW w \in Worker, NEW req \in Request, StartInstall(w, req)
      PROVE  FilterInv' /\ [Feed!Next]_feed
  BY <1>1, StartInstallStep DEF StartInstall
<1>2. ASSUME NEW w \in Worker, NEW op \in {"changes", "logs"}, NEW f \in Id, StartPoll(w, op, f)
      PROVE  FilterInv' /\ [Feed!Next]_feed
  BY <1>2, StartPollStep DEF StartPoll
<1>3. ASSUME NEW w \in Worker, Serve(w)
      PROVE  FilterInv' /\ [Feed!Next]_feed
  <2>1. CASE FinishInstall(w)
    BY <2>1, FinishInstallStep
  <2>2. CASE Look(w)
    BY <2>2, LookStep DEF Look
  <2>3. CASE ReadHashes(w)
    BY <2>3, ReadHashesStep DEF ReadHashes
  <2>4. CASE ReplyHashes(w)
    BY <2>4, ReplyStep DEF ReplyHashes
  <2>5. CASE ServedFetch(w)
    <3>1. /\ job[w].op \in {"changes", "logs"} /\ job[w].step = "logs"
          /\ FetchLogs(w, LogsForSpan(job[w].from, job[w].to))
      BY <2>5 DEF ServedFetch
    <3>2. job[w].from \in Nat /\ job[w].to \in Nat
      <4>1. job[w] \in Fetching
        BY <3>1, FetchCase DEF FilterInv, JobsSound, Kind
      <4>. QED BY <4>1 DEF Fetching
    <3>3. LogsForSpan(job[w].from, job[w].to) = "ok" => job[w].to <= Top
      BY <3>2, CompleteSpan
    <3>. QED BY <3>1, <3>3, FetchLogsStep
  <2>. QED BY <1>3, <2>1, <2>2, <2>3, <2>4, <2>5 DEF Serve
<1>4. ASSUME NEW w \in Worker, FetchLogs(w, "error")
      PROVE  FilterInv' /\ [Feed!Next]_feed
  BY <1>4, FetchLogsStep
<1>5. ASSUME NEW f \in Id, UninstallFilter(f)
      PROVE  FilterInv' /\ [Feed!Next]_feed
  BY <1>5, UninstallStep DEF UninstallFilter
<1>6. ASSUME NEW k \in {0, Rate}, Tick(k)
      PROVE  FilterInv' /\ [Feed!Next]_feed
  BY <1>6, TickStep DEF Tick
<1>7. CASE UNCHANGED vars
  <2>1. feed' = feed /\ FilterInv'
    BY <1>7 DEF vars, FilterInv, TypeOK, JobsSound, Room, HeightBound, FeedSound, StoreSound,
                PollsSound, Alone, ExactlyOnce, Polling
  <2>. QED BY <2>1
<1>. QED BY <1>1, <1>2, <1>3, <1>4, <1>5, <1>6, <1>7 DEF Next

\* The store is never over MAX_FILTERS, and a filter whose polls have not overlapped has
\* reported exactly the blocks its cursor has passed: nothing twice and, of logs, nothing
\* left out.  For any number of threads, however they interleave (FilterStore,
\* get_filter_changes).
THEOREM StoreAlwaysExact == Spec => []StoreExact
<1>1. FilterInv => StoreExact
  BY DEF FilterInv, StoreExact
<1>. QED BY <1>1, FilterInvInit, FilterInvStep, PTL DEF Spec

\* The store implements what a filter promises (module FilterFeed): an id is given out once,
\* and a log filter reports the chain from its first block on without a hole, even when
\* polls of it overlap.
THEOREM FiltersKeepTheirPromise == Spec => RefinesFeed
<1>1. Init => Feed!Init
  BY DEF Init, Feed!Init
<1>. QED BY <1>1, FilterInvInit, FilterInvStep, PTL DEF Spec, RefinesFeed, Feed!Spec
=============================================================================
