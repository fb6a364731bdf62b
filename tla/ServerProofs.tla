---------------------------- MODULE ServerProofs ----------------------------
(***************************************************************************)
(* What holds of the RPC server for every number of workers, requests and  *)
(* panics: what is published between two holders of the chain lock is one  *)
(* sync's, and no answer mixes two syncs or shows a half-changed chain.    *)
(***************************************************************************)
EXTENDS Server, SequenceTheorems, FiniteSetTheorems, TLAPS

-----------------------------------------------------------------------------
(* The inductive invariant. *)

Tip == Start .. MaxTip

Gauge == {"tip", "safe", "justified", "finalized"}

\* What an answer can carry: the sets of heads are those of one sync, the chain is whole.
Value == {<<>>, [torn |-> FALSE]} \cup [at : Nat] \cup {StatusOf(ViewOf(head)) : head \in Tip}

Answer == [id : Nat, code : Int, value : Value]

\* A worker on its way through a member's handler.
InMember == {"refresh", "poll", "lock", "resync", "store", "persist", "tip", "write", "use", "sealing", "status"}

WorkerRecord ==
  [pc : InMember \cup {"next", "load", "done"}, body : Bodies, i : Nat \ {0}, out : Seq(Answer),
   http : Nat, tip : Tip \cup {NO_BLOCK}, ok : BOOLEAN, scrape : Seq(Int)]

WorkerJob ==
  {j \in WorkerRecord :
     /\ j.pc \in InMember => j.i <= Len(j.body.members)
     /\ j.pc \in {"lock", "resync"} => j.tip # NO_BLOCK
     /\ j.pc = "load" => Len(j.scrape) < 4}

PollerJob ==
  {j \in [pc : {"poll", "lock", "resync", "store", "persist", "tip", "write"}, tip : Tip \cup {NO_BLOCK}, ok : BOOLEAN] :
     j.pc \in {"lock", "resync"} => j.tip # NO_BLOCK}

JobOf(t) == IF t = Poller THEN {Idle} \cup PollerJob ELSE {Idle} \cup WorkerJob

ThreadsSound == DOMAIN threads = Threads /\ \A t \in Threads : threads[t] \in JobOf(t)

\* The chain lock is held on the way to a sync and to a copy of the tip, and both locks while
\* the chain is changed and its heads are published.
LocksSound ==
  /\ locks["finality"] = Free
  /\ \A t \in Threads :
       /\ locks["chain"] = t => threads[t].pc \in {"lock", "resync", "store", "tip"}
       /\ locks["snapshot"] = t => threads[t].pc \in {"resync", "store"}
       /\ threads[t].pc \in {"resync", "store"} => locks["chain"] = t /\ locks["snapshot"] = t

Shapes ==
  /\ fast \in BOOLEAN
  /\ tip \in Tip
  /\ gauges \in [Gauge -> Int]
  /\ view \in [head : Int, finalized : Int, read : Int, source : BOOLEAN, fresh : BOOLEAN]

\* A view that has been published is one sync's.
ViewSound ==
  \/ view = NoView
  \/ \E head \in Tip : [view EXCEPT !.fresh = TRUE] = ViewOf(head)

\* What a thread does after it has published, or found published, a view.
Since == {"persist", "tip", "write", "sealing", "status"}

\* A handler that goes on from a refresh that succeeded has a view to read.
ViewKnown ==
  \A t \in Threads :
    threads[t].pc \in Since \/ (threads[t].pc = "use" /\ threads[t].ok) => view # NoView

\* A half-changed chain is behind a poisoned lock.
TornLocked == chain.torn => "chain" \in poisoned

Publishing == \E t \in Threads : threads[t].pc = "store"

\* While nobody publishes, gauges and view are those of the newest sync; who does has that
\* sync's chain.
PublishedWhole ==
  /\ Publishing => chain.synced = chain.head
  /\ ~Publishing /\ poisoned = {} /\ view # NoView =>
       /\ [view EXCEPT !.fresh = TRUE] = ViewOf(chain.synced)
       /\ gauges = GaugesOf(chain.synced)

ServerInv ==
  /\ TypeOK /\ Shapes /\ ThreadsSound /\ LocksSound
  /\ ViewSound /\ ViewKnown /\ TornLocked /\ PublishedWhole

-----------------------------------------------------------------------------
(* Lemmas about the operators of Server. *)

LEMMA ConstantTypes ==
  /\ Start \in Nat /\ MaxTip \in Nat /\ CONFIRMATIONS \in Nat /\ FINALITY_LAG \in Nat
  /\ MAX_RPC_BATCH \in Nat
  /\ Start <= MaxTip /\ 0 < FINALITY_LAG /\ FINALITY_LAG < CONFIRMATIONS /\ CONFIRMATIONS <= Start
  /\ Tip \subseteq Nat
<1>1. /\ Start \in Nat /\ MaxTip \in Nat /\ CONFIRMATIONS \in Nat /\ FINALITY_LAG \in Nat
      /\ MAX_RPC_BATCH \in Nat
  BY ServerConstants, Zenon
<1>. QED BY <1>1, ServerConstants DEF Tip

LEMMA ThreadNames == Free \notin Threads /\ Poller \in Threads /\ Poller \notin Workers
BY ServerConstants DEF Free, Threads

LEMMA MaxOfTwo ==
  ASSUME NEW a \in Int, NEW b \in Int
  PROVE  Max({a, b}) \in {a, b} /\ Max({a, b}) >= a /\ Max({a, b}) >= b
<1>1. \E x \in {a, b} : \A y \in {a, b} : x >= y
  <2>1. CASE a <= b
    BY <2>1
  <2>2. CASE b <= a
    BY <2>2
  <2>. QED BY <2>1, <2>2
<1>. QED BY <1>1 DEF Max

\* The heads of a sync are heights of the chain, and are published as such.
LEMMA HeadsOf ==
  ASSUME NEW head \in Tip, fast \in BOOLEAN
  PROVE  /\ GaugesOf(head) \in [Gauge -> NO_BLOCK .. MaxTip]
         /\ ViewOf(head) \in [head : Int, finalized : Int, read : Int, source : BOOLEAN, fresh : BOOLEAN]
         /\ ViewOf(head).read >= 0 /\ ViewOf(head).fresh = TRUE
         /\ ViewOf(head) # NoView
<1>1. /\ head \in Nat /\ head - CONFIRMATIONS \in NO_BLOCK .. MaxTip
      /\ head - FINALITY_LAG + 1 \in NO_BLOCK .. MaxTip /\ head - FINALITY_LAG \in NO_BLOCK .. MaxTip
      /\ head \in NO_BLOCK .. MaxTip /\ head - CONFIRMATIONS >= 0 /\ head - FINALITY_LAG >= 0
  BY ConstantTypes DEF Tip, NO_BLOCK
<1>2. GaugesOf(head) \in [Gauge -> NO_BLOCK .. MaxTip]
  BY <1>1 DEF GaugesOf, Gauge
<1>3. ReadHead(head) \in Int /\ ReadHead(head) >= 0
  BY <1>1, ConstantTypes DEF ReadHead
<1>4. GaugesOf(head).finalized \in Int
  BY <1>1, ConstantTypes DEF GaugesOf
<1>5. /\ ViewOf(head) \in [head : Int, finalized : Int, read : Int, source : BOOLEAN, fresh : BOOLEAN]
      /\ ViewOf(head).read = ReadHead(head) /\ ViewOf(head).fresh = TRUE
  BY <1>1, <1>3, <1>4, ConstantTypes DEF ViewOf
<1>. QED BY <1>2, <1>3, <1>5 DEF NoView, NO_BLOCK

\* What is not a status carries no finalized head, and nothing is half changed.
LEMMA ValueFacts ==
  ASSUME NEW v \in Value
  PROVE  /\ v # [torn |-> TRUE]
         /\ "finalized" \in DOMAIN v => \E head \in Tip : v = StatusOf(ViewOf(head))
<1>1. CASE v = <<>>
  BY <1>1
<1>2. CASE v = [torn |-> FALSE]
  BY <1>2
<1>3. CASE v \in [at : Nat]
  BY <1>3
<1>4. CASE v \in {StatusOf(ViewOf(head)) : head \in Tip}
  BY <1>4 DEF StatusOf
<1>. QED BY <1>1, <1>2, <1>3, <1>4 DEF Value

LEMMA AnswerForms ==
  ASSUME NEW id \in Nat
  PROVE  /\ \A v \in Value : Ok(id, v) \in Answer
         /\ \A code \in Int : Err(id, code) \in Answer
BY DEF Ok, Err, Answer, Value

LEMMA Codes ==
  /\ ERR_PARSE \in Int /\ ERR_INVALID \in Int /\ ERR_METHOD \in Int /\ ERR_PARAMS \in Int
  /\ ERR_INTERNAL \in Int /\ ERR_NOT_SYNCED \in Int /\ NoId \in Nat /\ <<>> \in Value
BY DEF ERR_PARSE, ERR_INVALID, ERR_METHOD, ERR_PARAMS, ERR_INTERNAL, ERR_NOT_SYNCED, NoId, Value

\* What is answered without a handler is made of answers.
LEMMA ScreenedAnswers ==
  ASSUME NEW m, m.id \in Nat
  PROVE  Screened(m) \in Seq(Answer)
<1>1. /\ Err(NoId, ERR_INVALID) \in Answer /\ Err(m.id, ERR_INVALID) \in Answer
      /\ Err(m.id, ERR_PARAMS) \in Answer /\ Ok(m.id, <<>>) \in Answer /\ Err(m.id, ERR_METHOD) \in Answer
  BY Codes, AnswerForms
<1>2. /\ <<Err(NoId, ERR_INVALID)>> \in Seq(Answer) /\ <<Err(m.id, ERR_INVALID)>> \in Seq(Answer)
      /\ <<Err(m.id, ERR_PARAMS)>> \in Seq(Answer) /\ <<Ok(m.id, <<>>)>> \in Seq(Answer)
      /\ <<Err(m.id, ERR_METHOD)>> \in Seq(Answer) /\ <<>> \in Seq(Answer)
  BY <1>1
<1>. QED BY <1>2 DEF Screened

LEMMA RefusedAnswers ==
  ASSUME NEW b
  PROVE  BodyRefused(b) \in Seq(Answer)
<1>1. Err(NoId, ERR_PARSE) \in Answer /\ Err(NoId, ERR_INVALID) \in Answer
  BY Codes, AnswerForms
<1>2. <<Err(NoId, ERR_PARSE)>> \in Seq(Answer) /\ <<Err(NoId, ERR_INVALID)>> \in Seq(Answer) /\ <<>> \in Seq(Answer)
  BY <1>1
<1>. QED BY <1>2 DEF BodyRefused

\* The kinds of thread, told apart by what they are doing.
LEMMA WorkerFacts ==
  ASSUME ServerInv, NEW w \in Workers
  PROVE  /\ w \in Threads /\ w # Poller
         /\ threads[w] = Idle \/ threads[w] \in WorkerJob
         /\ threads[w].pc # "idle" => threads[w] \in WorkerJob
         /\ threads[w] = Idle => threads[w].pc = "idle"
BY ThreadNames DEF ServerInv, ThreadsSound, JobOf, Threads, Idle

LEMMA PollerFacts ==
  ASSUME ServerInv
  PROVE  /\ threads[Poller] = Idle \/ threads[Poller] \in PollerJob
         /\ threads[Poller].pc # "idle" => threads[Poller] \in PollerJob
         /\ threads[Poller] = Idle => threads[Poller].pc = "idle"
BY ThreadNames DEF ServerInv, ThreadsSound, JobOf, Idle

LEMMA JobPc ==
  ASSUME NEW t \in Threads, NEW j \in JobOf(t)
  PROVE  j.pc \in Pcs
BY DEF JobOf, WorkerJob, WorkerRecord, PollerJob, Idle, Pcs, InMember

\* What a thread can be doing depends on the state only through the finality mode.
LEMMA JobOfFixed ==
  ASSUME fast' = fast, NEW t
  PROVE  JobOf(t)' = JobOf(t) /\ \A head : ViewOf(head)' = ViewOf(head)
<1>1. \A head : ViewOf(head)' = ViewOf(head)
  BY DEF ViewOf, ReadHead
<1>2. Value' = Value
  BY <1>1 DEF Value
<1>. QED BY <1>1, <1>2 DEF JobOf, WorkerJob, WorkerRecord, Answer

-----------------------------------------------------------------------------
(* ServerInv is inductive. *)

LEMMA ServerInvInit == Init => ServerInv
<1>. SUFFICES ASSUME Init PROVE ServerInv
  OBVIOUS
<1>1. /\ fast \in BOOLEAN /\ tip \in Tip /\ chain = [head |-> Start, synced |-> Start, torn |-> FALSE]
      /\ locks = [l \in Locks |-> Free] /\ poisoned = {} /\ view = NoView
      /\ DOMAIN threads = Threads
      /\ \A t \in Threads : threads[t] = Idle /\ threads[t].pc = "idle"
  BY DEF Init, Tip, Idle
<1>2. gauges = [g \in Gauge |-> NO_BLOCK]
  <2>1. Range(GaugeOrder) = Gauge
    <3>1. DOMAIN GaugeOrder = {1, 2, 3, 4}
      BY DEF GaugeOrder
    <3>2. /\ GaugeOrder[1] = "tip" /\ GaugeOrder[2] = "safe" /\ GaugeOrder[3] = "justified"
          /\ GaugeOrder[4] = "finalized"
      BY DEF GaugeOrder
    <3>. QED BY <3>1, <3>2 DEF Range, Gauge
  <2>. QED BY <2>1 DEF Init
<1>3. Start \in Start .. MaxTip /\ NO_BLOCK \in Int /\ NO_BLOCK \in NO_BLOCK .. MaxTip
  BY ConstantTypes DEF NO_BLOCK
<1>4. Shapes
  BY <1>1, <1>2, <1>3 DEF Shapes, NoView
<1>5. LocksSound
  BY <1>1, ThreadNames DEF LocksSound, Locks
<1>6. TypeOK
  BY <1>1, <1>2, <1>3, ThreadNames DEF TypeOK, Locks, Pcs
<1>7. ThreadsSound /\ ViewSound /\ ViewKnown /\ TornLocked /\ PublishedWhole
  BY <1>1 DEF ThreadsSound, JobOf, ViewSound, ViewKnown, Since, TornLocked, PublishedWhole, Publishing
<1>. QED BY <1>4, <1>5, <1>6, <1>7 DEF ServerInv

\* A step of a thread that holds no lock and changes only what it is doing itself.
LEMMA ThreadStep ==
  ASSUME ServerInv, NEW t \in Threads, NEW j \in JobOf(t), threads' = [threads EXCEPT ![t] = j],
         UNCHANGED <<fast, tip, chain, locks, poisoned, gauges, view>>,
         threads[t].pc \notin {"lock", "resync", "store", "tip"}, j.pc \notin {"resync", "store"},
         j.pc \in Since \/ (j.pc = "use" /\ j.ok) => view # NoView
  PROVE  ServerInv'
<1>1. threads'[t] = j /\ DOMAIN threads' = Threads /\ \A u \in Threads \ {t} : threads'[u] = threads[u]
  BY DEF ServerInv, ThreadsSound
<1>2. ThreadsSound'
  BY <1>1, JobOfFixed DEF ServerInv, ThreadsSound
<1>3. locks["chain"] # t /\ locks["snapshot"] # t
  BY DEF ServerInv, LocksSound
<1>4. LocksSound'
  BY <1>1, <1>3 DEF ServerInv, LocksSound
<1>5. j.pc \in Pcs
  BY JobPc
<1>6. TypeOK'
  BY <1>1, <1>3, <1>5 DEF ServerInv, TypeOK
<1>7. Shapes' /\ ViewSound' /\ TornLocked'
  BY JobOfFixed DEF ServerInv, Shapes, ViewSound, TornLocked
<1>8. ViewKnown'
  BY <1>1 DEF ServerInv, ViewKnown
<1>9. PublishedWhole'
  <2>1. Publishing' <=> Publishing
    BY <1>1 DEF Publishing
  <2>. QED BY <2>1, JobOfFixed DEF ServerInv, PublishedWhole
<1>. QED BY <1>2, <1>4, <1>6, <1>7, <1>8, <1>9 DEF ServerInv

\* The records that Answered, Caught and Failed leave a thread with.
LEMMA AnsweredJob ==
  ASSUME ServerInv, NEW w \in Workers, threads[w] \in WorkerJob, NEW answers \in Seq(Answer),
         Answered(w, answers)
  PROVE  \E j \in JobOf(w) : threads' = [threads EXCEPT ![w] = j] /\ j.pc = "next"
<1>. DEFINE r == threads[w]
            j == [r EXCEPT !.pc = "next", !.i = @ + 1, !.out = @ \o answers, !.ok = FALSE]
<1>1. w # Poller /\ w \in Threads
  BY WorkerFacts
<1>2. threads' = [threads EXCEPT ![w] = j]
  BY <1>1 DEF Answered
<1>3. r.out \o answers \in Seq(Answer) /\ r.i + 1 \in Nat \ {0}
  BY DEF WorkerJob, WorkerRecord
<1>4. j \in WorkerJob /\ j.pc = "next"
  BY <1>3 DEF WorkerJob, WorkerRecord, InMember
<1>. QED BY <1>1, <1>2, <1>4 DEF JobOf

LEMMA CaughtJob ==
  ASSUME ServerInv, NEW t \in Threads, threads[t].pc # "idle", Caught(t)
  PROVE  \E j \in JobOf(t) : threads' = [threads EXCEPT ![t] = j] /\ j.pc \in {"idle", "done"}
<1>1. CASE t = Poller
  <2>1. Idle \in JobOf(t) /\ Idle.pc = "idle"
    BY DEF JobOf, Idle
  <2>2. threads' = [threads EXCEPT ![t] = Idle]
    BY <1>1 DEF Caught
  <2>. QED BY <2>1, <2>2
<1>2. CASE t # Poller
  <2>. DEFINE r == threads[t]
              error == <<Err(NoId, ERR_INTERNAL)>>
              j == [r EXCEPT !.pc = "done", !.out = error, !.http = 500, !.tip = NO_BLOCK, !.ok = FALSE]
  <2>1. r \in WorkerJob
    BY <1>2, WorkerFacts DEF Threads
  <2>3. error \in Seq(Answer)
    BY AnswerForms, Codes
  <2>2. threads' = [threads EXCEPT ![t] = j]
    BY <1>2 DEF Caught
  <2>. HIDE DEF error
  <2>4. j \in WorkerJob /\ j.pc = "done"
    <3>. DEFINE r1 == [r EXCEPT !.pc = "done"]
                r2 == [r1 EXCEPT !.out = error]
                code == 500
                r3 == [r2 EXCEPT !.http = code]
                r4 == [r3 EXCEPT !.tip = NO_BLOCK]
    <3>1. r1 \in WorkerRecord /\ r1.pc = "done"
      BY <2>1 DEF WorkerJob, WorkerRecord
    <3>. HIDE DEF r1
    <3>2. r2 \in WorkerRecord /\ r2.pc = "done"
      BY <2>3, <3>1 DEF WorkerRecord
    <3>. HIDE DEF r2
    <3>0. code \in Nat
      OBVIOUS
    <3>. HIDE DEF code
    <3>3. r3 \in WorkerRecord /\ r3.pc = "done"
      BY <3>0, <3>2 DEF WorkerRecord
    <3>. HIDE DEF r3
    <3>4. r4 \in WorkerRecord /\ r4.pc = "done"
      BY <3>3 DEF WorkerRecord
    <3>. HIDE DEF r4
    <3>5. [r4 EXCEPT !.ok = FALSE] \in WorkerJob /\ [r4 EXCEPT !.ok = FALSE].pc = "done"
      BY <3>4 DEF WorkerJob, WorkerRecord, InMember
    <3>. QED BY <3>5 DEF r1, r2, r3, r4, code
  <2>. QED BY <1>2, <2>2, <2>4 DEF JobOf
<1>. QED BY <1>1, <1>2

LEMMA FailedJob ==
  ASSUME ServerInv, NEW t \in Threads, threads[t].pc \in {"poll", "resync"}, Failed(t)
  PROVE  \E j \in JobOf(t) : /\ threads' = [threads EXCEPT ![t] = j]
                             /\ j.pc = "idle" \/ (j.pc = "use" /\ ~j.ok)
<1>1. CASE t = Poller
  <2>1. Idle \in JobOf(t) /\ Idle.pc = "idle"
    BY DEF JobOf, Idle
  <2>2. threads' = [threads EXCEPT ![t] = Idle]
    BY <1>1 DEF Failed
  <2>. QED BY <2>1, <2>2
<1>2. CASE t # Poller
  <2>. DEFINE r == threads[t]
              j == [r EXCEPT !.pc = "use", !.ok = FALSE, !.tip = NO_BLOCK]
  <2>1. r \in WorkerJob
    BY <1>2, WorkerFacts DEF Threads
  <2>2. threads' = [threads EXCEPT ![t] = j]
    BY <1>2 DEF Failed
  <2>3. j \in WorkerJob /\ j.pc = "use" /\ j.ok = FALSE
    BY <2>1 DEF WorkerJob, WorkerRecord, InMember
  <2>. QED BY <1>2, <2>2, <2>3 DEF JobOf
<1>. QED BY <1>1, <1>2

\* The member that a worker is at.
LEMMA MemberId ==
  ASSUME ServerInv, NEW w \in Workers, threads[w] \in WorkerJob, threads[w].i <= Len(threads[w].body.members)
  PROVE  Member(w).id \in Nat
<1>1. threads[w].body.members \in Seq([form : STRING, id : Nat, method : STRING])
  BY ServerConstants DEF WorkerJob, WorkerRecord
<1>2. threads[w].i \in 1 .. Len(threads[w].body.members)
  BY <1>1 DEF WorkerJob, WorkerRecord
<1>3. threads[w].body.members[threads[w].i] \in [form : STRING, id : Nat, method : STRING]
  BY <1>1, <1>2, ElementOfSeq
<1>. QED BY <1>3 DEF Member

\* A worker goes on with the member it is at.
LEMMA StepJob ==
  ASSUME ServerInv, NEW w \in Workers, threads[w] \in WorkerJob, NEW pc \in InMember \ {"lock", "resync"},
         threads[w].i <= Len(threads[w].body.members), Step(w, pc)
  PROVE  \E j \in JobOf(w) : threads' = [threads EXCEPT ![w] = j] /\ j.pc = pc /\ j.ok = threads[w].ok
<1>. DEFINE j == [threads[w] EXCEPT !.pc = pc]
<1>1. w # Poller /\ w \in Threads
  BY WorkerFacts
<1>2. threads' = [threads EXCEPT ![w] = j]
  BY DEF Step
<1>3. j \in WorkerJob /\ j.pc = pc /\ j.ok = threads[w].ok
  BY DEF WorkerJob, WorkerRecord, InMember
<1>. HIDE DEF j
<1>. QED BY <1>1, <1>2, <1>3 DEF JobOf

LEMMA ReceiveStep ==
  ASSUME ServerInv, NEW w \in Workers, NEW b \in Bodies, Receive(w, b)
  PROVE  ServerInv'
<1>. DEFINE r == [pc |-> "next", body |-> b, i |-> 1, out |-> <<>>, http |-> 200, tip |-> NO_BLOCK, ok |-> FALSE,
                  scrape |-> <<>>]
            j == IF b.http = "scrape" THEN [r EXCEPT !.pc = "load"]
                 ELSE IF HttpReject(b) # 0 THEN [r EXCEPT !.pc = "done", !.http = HttpReject(b)]
                 ELSE IF BodyRefused(b) # <<>> THEN [r EXCEPT !.pc = "done", !.out = BodyRefused(b)]
                 ELSE r
<1>1. w \in Threads /\ w # Poller /\ threads[w] = Idle /\ threads[w].pc = "idle"
  BY WorkerFacts DEF Receive
<1>2. threads' = [threads EXCEPT ![w] = j] /\ UNCHANGED <<fast, tip, chain, locks, poisoned, gauges, view>>
  BY DEF Receive
<1>3. HttpReject(b) \in Nat /\ BodyRefused(b) \in Seq(Answer)
  BY RefusedAnswers DEF HttpReject
<1>4. r \in WorkerRecord /\ r.pc = "next" /\ r.scrape = <<>>
  BY DEF WorkerRecord
<1>. HIDE DEF r
<1>5. j \in WorkerJob /\ j.pc \in {"load", "done", "next"}
  <2>1. [r EXCEPT !.pc = "load"] \in WorkerJob /\ [r EXCEPT !.pc = "load"].pc = "load"
    BY <1>4 DEF WorkerJob, WorkerRecord, InMember
  <2>. DEFINE d == [r EXCEPT !.pc = "done"]
  <2>2. d \in WorkerRecord /\ d.pc = "done"
    BY <1>4 DEF WorkerRecord
  <2>. HIDE DEF d
  <2>3. [d EXCEPT !.http = HttpReject(b)] \in WorkerJob /\ [d EXCEPT !.http = HttpReject(b)].pc = "done"
    BY <1>3, <2>2 DEF WorkerJob, WorkerRecord, InMember
  <2>4. [d EXCEPT !.out = BodyRefused(b)] \in WorkerJob /\ [d EXCEPT !.out = BodyRefused(b)].pc = "done"
    BY <1>3, <2>2 DEF WorkerJob, WorkerRecord, InMember
  <2>5. r \in WorkerJob
    BY <1>4 DEF WorkerJob, InMember
  <2>. QED BY <1>4, <2>1, <2>3, <2>4, <2>5 DEF d
<1>. HIDE DEF j
<1>6. j \in JobOf(w)
  BY <1>1, <1>5 DEF JobOf
<1>. QED BY <1>1, <1>2, <1>5, <1>6, ThreadStep DEF Since

LEMMA NextMemberStep ==
  ASSUME ServerInv, NEW w \in Workers, NextMember(w)
  PROVE  ServerInv'
<1>. DEFINE r == threads[w]
<1>1. /\ w \in Threads /\ w # Poller /\ r.pc = "next" /\ r \in WorkerJob
      /\ UNCHANGED <<fast, tip, chain, locks, poisoned, gauges, view>>
  BY WorkerFacts DEF NextMember
<1>2. r.i \in Nat /\ Len(r.body.members) \in Nat
  BY <1>1, ServerConstants DEF WorkerJob, WorkerRecord
<1>3. CASE r.i > Len(r.body.members)
  <2>. DEFINE status == IF r.body.json = "one" /\ r.out = <<>> THEN 204 ELSE 200
              d == [r EXCEPT !.pc = "done"]
              j == [d EXCEPT !.http = status]
  <2>1. status \in Nat
    OBVIOUS
  <2>2. threads' = [threads EXCEPT ![w] = j]
    BY <1>3, ZenonT(60) DEF NextMember
  <2>3. d \in WorkerRecord /\ d.pc = "done"
    BY <1>1 DEF WorkerJob, WorkerRecord
  <2>. HIDE DEF status, d
  <2>4. j \in WorkerJob /\ j.pc = "done"
    BY <2>1, <2>3 DEF WorkerJob, WorkerRecord, InMember
  <2>. HIDE DEF j
  <2>5. j \in JobOf(w)
    BY <1>1, <2>4 DEF JobOf
  <2>. QED BY <1>1, <2>2, <2>4, <2>5, ThreadStep DEF Since
<1>4. CASE r.i <= Len(r.body.members)
  <2>1. Step(w, "refresh") \/ Answered(w, Screened(Member(w)))
    BY <1>2, <1>4 DEF NextMember
  <2>2. CASE Step(w, "refresh")
    <3>1. PICK j \in JobOf(w) : threads' = [threads EXCEPT ![w] = j] /\ j.pc = "refresh"
      BY <1>1, <1>4, <2>2, StepJob DEF InMember
    <3>. QED BY <1>1, <3>1, ThreadStep DEF Since
  <2>3. CASE Answered(w, Screened(Member(w)))
    <3>1. Screened(Member(w)) \in Seq(Answer)
      BY <1>1, <1>4, MemberId, ScreenedAnswers
    <3>2. PICK j \in JobOf(w) : threads' = [threads EXCEPT ![w] = j] /\ j.pc = "next"
      BY <1>1, <2>3, <3>1, AnsweredJob
    <3>. QED BY <1>1, <3>2, ThreadStep DEF Since
  <2>. QED BY <2>1, <2>2, <2>3
<1>. QED BY <1>2, <1>3, <1>4

LEMMA RefreshStep ==
  ASSUME ServerInv, NEW w \in Workers, Refresh(w)
  PROVE  ServerInv'
<1>. DEFINE r == threads[w]
            pc == IF view.fresh THEN "use" ELSE "poll"
            m == [r EXCEPT !.pc = pc]
            j == [m EXCEPT !.ok = view.fresh]
<1>1. /\ w \in Threads /\ w # Poller /\ r.pc = "refresh" /\ r \in WorkerJob
      /\ UNCHANGED <<fast, tip, chain, locks, poisoned, gauges, view>>
  BY WorkerFacts DEF Refresh
<1>2. view.fresh \in BOOLEAN /\ (view.fresh => view # NoView)
  BY DEF ServerInv, Shapes, NoView
<1>3. threads' = [threads EXCEPT ![w] = j]
  BY DEF Refresh
<1>4. pc \in {"use", "poll"}
  OBVIOUS
<1>. HIDE DEF pc
<1>5. m \in WorkerJob /\ m.pc = pc
  BY <1>1, <1>4 DEF WorkerJob, WorkerRecord, InMember
<1>. HIDE DEF m
<1>6. j \in WorkerJob /\ j.pc = pc /\ j.ok = view.fresh
  BY <1>2, <1>5 DEF WorkerJob, WorkerRecord
<1>. HIDE DEF j
<1>7. j \in JobOf(w)
  BY <1>1, <1>6 DEF JobOf
<1>8. j.pc \in Since \/ (j.pc = "use" /\ j.ok) => view # NoView
  BY <1>2, <1>4, <1>6 DEF Since
<1>. QED BY <1>1, <1>3, <1>4, <1>6, <1>7, <1>8, ThreadStep

LEMMA WakeStep ==
  ASSUME ServerInv, Wake
  PROVE  ServerInv'
<1>. DEFINE j == [pc |-> "poll", tip |-> NO_BLOCK, ok |-> FALSE]
<1>1. threads[Poller].pc = "idle" /\ threads' = [threads EXCEPT ![Poller] = j]
      /\ UNCHANGED <<fast, tip, chain, locks, poisoned, gauges, view>>
  BY PollerFacts DEF Wake
<1>2. j \in JobOf(Poller) /\ j.pc = "poll"
  BY DEF JobOf, PollerJob
<1>. HIDE DEF j
<1>. QED BY <1>1, <1>2, ThreadNames, ThreadStep DEF Since

LEMMA PollStep ==
  ASSUME ServerInv, NEW t \in Threads, NEW reached \in BOOLEAN, Poll(t, reached)
  PROVE  ServerInv'
<1>1. threads[t].pc = "poll" /\ UNCHANGED <<fast, tip, chain, locks, poisoned, gauges, view>>
  BY DEF Poll
<1>2. CASE reached
  <2>. DEFINE r == threads[t]
              m == [r EXCEPT !.tip = tip]
              j == [r EXCEPT !.pc = "lock", !.tip = tip]
  <2>1. threads' = [threads EXCEPT ![t] = j]
    BY <1>2 DEF Poll
  <2>2. tip \in Tip /\ tip # NO_BLOCK
    BY ConstantTypes DEF ServerInv, Shapes, NO_BLOCK, Tip
  <2>3. j \in JobOf(t) /\ j.pc = "lock"
    <3>1. CASE t = Poller
      <4>1. r \in PollerJob
        BY <1>1, <3>1, PollerFacts
      <4>. QED BY <2>2, <3>1, <4>1 DEF PollerJob, JobOf
    <3>2. CASE t # Poller
      <4>1. r \in WorkerJob
        BY <1>1, <3>2, WorkerFacts DEF Threads
      <4>. DEFINE k == [r EXCEPT !.pc = "lock"]
      <4>2. k \in WorkerRecord /\ k.pc = "lock" /\ k.i <= Len(k.body.members)
        BY <1>1, <4>1 DEF WorkerJob, WorkerRecord, InMember
      <4>. HIDE DEF k
      <4>3. [k EXCEPT !.tip = tip] \in WorkerJob /\ [k EXCEPT !.tip = tip].pc = "lock"
        BY <2>2, <4>2 DEF WorkerJob, WorkerRecord, InMember
      <4>. QED BY <3>2, <4>3 DEF JobOf, k
    <3>. QED BY <3>1, <3>2
  <2>. HIDE DEF j
  <2>. QED BY <1>1, <2>1, <2>3, ThreadStep DEF Since
<1>3. CASE ~reached
  <2>1. Failed(t)
    BY <1>3 DEF Poll
  <2>2. PICK j \in JobOf(t) : /\ threads' = [threads EXCEPT ![t] = j]
                              /\ j.pc = "idle" \/ (j.pc = "use" /\ ~j.ok)
    BY <1>1, <2>1, FailedJob
  <2>. QED BY <1>1, <2>2, ThreadStep DEF Since
<1>. QED BY <1>2, <1>3

\* A handler's answer.
LEMMA AnswerStep ==
  ASSUME ServerInv, NEW w \in Workers, threads[w].pc \in {"use", "status"}, NEW a \in Answer,
         Answered(w, <<a>>), UNCHANGED <<fast, tip, chain, locks, poisoned, gauges, view>>
  PROVE  ServerInv'
<1>1. w \in Threads /\ threads[w] \in WorkerJob
  BY WorkerFacts
<1>2. <<a>> \in Seq(Answer)
  OBVIOUS
<1>3. PICK j \in JobOf(w) : threads' = [threads EXCEPT ![w] = j] /\ j.pc = "next"
  BY <1>1, <1>2, AnsweredJob
<1>. QED BY <1>1, <1>3, ThreadStep DEF Since

\* A handler that panics on a poisoned lock.
LEMMA CaughtStep ==
  ASSUME ServerInv, NEW w \in Workers, threads[w].pc \in {"use", "sealing"}, Caught(w),
         UNCHANGED <<fast, tip, chain, locks, poisoned, gauges, view>>
  PROVE  ServerInv'
<1>1. w \in Threads
  BY WorkerFacts
<1>2. PICK j \in JobOf(w) : threads' = [threads EXCEPT ![w] = j] /\ j.pc \in {"idle", "done"}
  BY <1>1, CaughtJob
<1>. QED BY <1>1, <1>2, ThreadStep DEF Since

LEMMA HandlerStep ==
  ASSUME ServerInv, NEW w \in Workers,
         UseHead(w) \/ ReadChain(w) \/ Syncing(w) \/ Sealing(w) \/ Status(w)
  PROVE  ServerInv'
<1>1. /\ w \in Threads /\ threads[w].pc \in {"use", "sealing", "status"} /\ threads[w] \in WorkerJob
      /\ UNCHANGED <<fast, tip, chain, locks, poisoned, gauges, view>>
  BY WorkerFacts DEF UseHead, ReadChain, Syncing, Sealing, Status
<1>2. threads[w].i <= Len(threads[w].body.members)
  BY <1>1 DEF WorkerJob, InMember
<1>3. Member(w).id \in Nat
  BY <1>1, <1>2, MemberId
<1>4. CASE UseHead(w)
  <2>1. /\ threads[w].pc = "use"
        /\ \/ Answered(w, <<Err(Member(w).id, ERR_NOT_SYNCED)>>)
           \/ Answered(w, <<Ok(Member(w).id, <<>>)>>)
           \/ threads[w].ok /\ Step(w, "sealing")
    BY <1>4 DEF UseHead
  <2>2. Err(Member(w).id, ERR_NOT_SYNCED) \in Answer /\ Ok(Member(w).id, <<>>) \in Answer
    BY <1>3, AnswerForms, Codes
  <2>3. CASE threads[w].ok /\ Step(w, "sealing")
    <3>1. PICK j \in JobOf(w) : threads' = [threads EXCEPT ![w] = j] /\ j.pc = "sealing"
      BY <1>1, <1>2, <2>3, StepJob DEF InMember
    <3>2. view # NoView
      BY <1>1, <2>1, <2>3 DEF ServerInv, ViewKnown
    <3>. QED BY <1>1, <2>1, <3>1, <3>2, ThreadStep DEF Since
  <2>. QED BY <1>1, <2>1, <2>2, <2>3, AnswerStep
<1>5. CASE ReadChain(w)
  <2>1. /\ threads[w].pc = "use"
        /\ IF "chain" \in poisoned THEN Caught(w) ELSE Answered(w, <<Ok(Member(w).id, [torn |-> chain.torn])>>)
    BY <1>5 DEF ReadChain
  <2>2. CASE "chain" \in poisoned
    BY <1>1, <2>1, <2>2, CaughtStep
  <2>3. CASE "chain" \notin poisoned
    <3>1. chain.torn = FALSE
      BY <2>3 DEF ServerInv, TornLocked, TypeOK
    <3>2. Ok(Member(w).id, [torn |-> chain.torn]) \in Answer
      BY <1>3, <3>1, AnswerForms DEF Value
    <3>. QED BY <1>1, <2>1, <2>3, <3>2, AnswerStep
  <2>. QED BY <2>2, <2>3
<1>6. CASE Syncing(w)
  <2>. DEFINE a == IF "chain" \in poisoned THEN 0 ELSE chain.head
  <2>1. threads[w].pc = "use" /\ Answered(w, <<Ok(Member(w).id, [at |-> a])>>)
    BY <1>6 DEF Syncing
  <2>2. a \in Nat
    BY ConstantTypes DEF ServerInv, TypeOK
  <2>. HIDE DEF a
  <2>3. Ok(Member(w).id, [at |-> a]) \in Answer
    BY <1>3, <2>2, AnswerForms DEF Value
  <2>. QED BY <1>1, <2>1, <2>3, AnswerStep
<1>7. CASE Sealing(w)
  <2>1. threads[w].pc = "sealing" /\ (Caught(w) \/ Step(w, "status"))
    BY <1>7 DEF Sealing
  <2>2. CASE Caught(w)
    BY <1>1, <2>1, <2>2, CaughtStep
  <2>3. CASE Step(w, "status")
    <3>1. PICK j \in JobOf(w) : threads' = [threads EXCEPT ![w] = j] /\ j.pc = "status"
      BY <1>1, <1>2, <2>3, StepJob DEF InMember
    <3>2. view # NoView
      BY <1>1, <2>1 DEF ServerInv, ViewKnown, Since
    <3>. QED BY <1>1, <2>1, <3>1, <3>2, ThreadStep DEF Since
  <2>. QED BY <2>1, <2>2, <2>3
<1>8. CASE Status(w)
  <2>1. threads[w].pc = "status" /\ Answered(w, <<Ok(Member(w).id, StatusOf(view))>>)
    BY <1>8 DEF Status
  <2>2. view # NoView
    BY <1>1, <2>1 DEF ServerInv, ViewKnown, Since
  <2>3. PICK head \in Tip : [view EXCEPT !.fresh = TRUE] = ViewOf(head)
    BY <2>2 DEF ServerInv, ViewSound
  <2>4. /\ view.head = ViewOf(head).head /\ view.read = ViewOf(head).read
        /\ view.source = ViewOf(head).source /\ view.finalized = ViewOf(head).finalized
    <3>. DEFINE v == [view EXCEPT !.fresh = TRUE]
    <3>1. /\ v.head = view.head /\ v.read = view.read /\ v.source = view.source
          /\ v.finalized = view.finalized
      BY DEF ServerInv, Shapes
    <3>. QED BY <2>3, <3>1
  <2>5. StatusOf(view) = StatusOf(ViewOf(head))
    BY <2>4 DEF StatusOf
  <2>6. Ok(Member(w).id, StatusOf(view)) \in Answer
    BY <1>3, <2>5, AnswerForms DEF Value
  <2>. QED BY <1>1, <2>1, <2>6, AnswerStep
<1>. QED BY <1>4, <1>5, <1>6, <1>7, <1>8

LEMMA LoadStep ==
  ASSUME ServerInv, NEW w \in Workers, Load(w)
  PROVE  ServerInv'
<1>. DEFINE r == threads[w]
            value == gauges[GaugeOrder[Len(r.scrape) + 1]]
            pc == IF Len(r.scrape) = 3 THEN "done" ELSE "load"
            m == [r EXCEPT !.scrape = Append(@, value)]
            j == [m EXCEPT !.pc = pc]
<1>1. /\ w \in Threads /\ w # Poller /\ r.pc = "load" /\ r \in WorkerJob
      /\ UNCHANGED <<fast, tip, chain, locks, poisoned, gauges, view>>
  BY WorkerFacts DEF Load
<1>2. r.scrape \in Seq(Int) /\ Len(r.scrape) \in 0 .. 3
  <2>1. r \in WorkerRecord /\ Len(r.scrape) < 4
    BY <1>1 DEF WorkerJob
  <2>2. r.scrape \in Seq(Int)
    BY <2>1 DEF WorkerRecord
  <2>. HIDE DEF r
  <2>. DEFINE n == Len(r.scrape)
  <2>3. n \in Nat /\ n < 4
    BY <2>1, <2>2, LenProperties
  <2>. HIDE DEF n
  <2>4. n \in 0 .. 3
    BY <2>3
  <2>. QED BY <2>2, <2>4 DEF n
<1>3. threads' = [threads EXCEPT ![w] = j]
  BY DEF Load
<1>4. value \in Int
  <2>1. GaugeOrder[Len(r.scrape) + 1] \in Gauge
    <3>. DEFINE n == Len(r.scrape)
                k == n + 1
    <3>0. n \in 0 .. 3
      BY <1>2
    <3>. HIDE DEF n
    <3>1. k \in {1, 2, 3, 4}
      BY <3>0
    <3>. HIDE DEF k
    <3>2. GaugeOrder[k] \in Gauge
      BY <3>1 DEF GaugeOrder, Gauge
    <3>. QED BY <3>2 DEF k, n
  <2>. QED BY <2>1 DEF ServerInv, Shapes
<1>5. pc \in {"done", "load"} /\ (pc = "load" => Len(r.scrape) + 1 < 4)
  <2>. DEFINE n == Len(r.scrape)
  <2>1. n \in 0 .. 3 /\ pc = IF n = 3 THEN "done" ELSE "load"
    BY <1>2
  <2>. HIDE DEF n, pc
  <2>2. pc \in {"done", "load"} /\ (pc = "load" => n + 1 < 4)
    BY <2>1
  <2>. QED BY <2>2 DEF n
<1>. HIDE DEF value
<1>6. m \in WorkerRecord /\ Len(m.scrape) = Len(r.scrape) + 1
  <2>. DEFINE longer == Append(r.scrape, value)
  <2>1. longer \in Seq(Int) /\ Len(longer) = Len(r.scrape) + 1
    BY <1>2, <1>4, AppendProperties
  <2>2. m = [r EXCEPT !.scrape = longer] /\ r \in WorkerRecord
    BY <1>1 DEF WorkerJob
  <2>. HIDE DEF m, longer
  <2>. QED BY <2>1, <2>2 DEF WorkerRecord
<1>. HIDE DEF m, pc
<1>7. j \in WorkerJob /\ j.pc = pc
  BY <1>5, <1>6 DEF WorkerJob, WorkerRecord, InMember
<1>. HIDE DEF j
<1>8. j \in JobOf(w)
  BY <1>1, <1>7 DEF JobOf
<1>. QED BY <1>1, <1>3, <1>5, <1>7, <1>8, ThreadStep DEF Since

LEMMA DoneStep ==
  ASSUME ServerInv, NEW w \in Workers, Done(w)
  PROVE  ServerInv'
<1>1. Idle \in JobOf(w) /\ Idle.pc = "idle" /\ w \in Threads
  BY WorkerFacts DEF JobOf, Idle
<1>2. /\ threads[w].pc = "done" /\ threads' = [threads EXCEPT ![w] = Idle]
      /\ UNCHANGED <<fast, tip, chain, locks, poisoned, gauges, view>>
  BY DEF Done
<1>. QED BY <1>1, <1>2, ThreadStep DEF Since

LEMMA ReleasedLocks ==
  ASSUME ServerInv, NEW t \in Threads
  PROVE  /\ Released(t) \in [Locks -> Threads \cup {Free}]
         /\ \A l \in Locks : Released(t)[l] # t
         /\ \A l \in Locks, u \in Threads \ {t} : Released(t)[l] = u <=> locks[l] = u
         /\ Released(t)["finality"] = Free
<1>1. "finality" \in Locks /\ locks["finality"] = Free /\ locks \in [Locks -> Threads \cup {Free}]
  BY DEF ServerInv, TypeOK, LocksSound, Locks
<1>. QED BY <1>1, ThreadNames DEF Released

\* A thread gives its locks back: what is published is not touched.
LEMMA ReleaseStep ==
  ASSUME ServerInv, NEW t \in Threads, NEW j \in JobOf(t), threads' = [threads EXCEPT ![t] = j],
         threads[t].pc \in {"lock", "resync", "persist", "tip", "write"},
         j.pc \in {"idle", "done", "use"}, j.pc = "use" /\ j.ok => view # NoView,
         locks' = Released(t),
         UNCHANGED <<fast, tip, gauges, view>>,
         chain' \in [head : Tip, synced : Tip, torn : BOOLEAN], chain'.synced = chain.synced,
         chain' = chain \/ locks["chain"] = t,
         poisoned' \in SUBSET Locks, poisoned \subseteq poisoned', TornLocked'
  PROVE  ServerInv'
<1>1. threads'[t] = j /\ DOMAIN threads' = Threads /\ \A u \in Threads \ {t} : threads'[u] = threads[u]
  BY DEF ServerInv, ThreadsSound
<1>2. ThreadsSound'
  BY <1>1, JobOfFixed DEF ServerInv, ThreadsSound
<1>3. /\ locks' \in [Locks -> Threads \cup {Free}] /\ locks'["finality"] = Free
      /\ locks'["chain"] # t /\ locks'["snapshot"] # t
      /\ \A u \in Threads \ {t} : locks'["chain"] = u <=> locks["chain"] = u
      /\ \A u \in Threads \ {t} : locks'["snapshot"] = u <=> locks["snapshot"] = u
  BY ReleasedLocks DEF Locks
<1>4. LocksSound'
  BY <1>1, <1>3 DEF ServerInv, LocksSound
<1>5. TypeOK'
  <2>1. \A u \in Threads : threads'[u].pc \in Pcs
    BY <1>1, JobPc DEF ServerInv, TypeOK
  <2>2. \A u \in Threads : locks'["snapshot"] = u => locks'["chain"] = u /\ threads'[u].pc \in {"resync", "store"}
    BY <1>1, <1>3 DEF ServerInv, LocksSound
  <2>. QED BY <1>3, <2>1, <2>2 DEF ServerInv, TypeOK, Tip
<1>6. Shapes' /\ ViewSound'
  BY JobOfFixed DEF ServerInv, Shapes, ViewSound
<1>7. ViewKnown'
  BY <1>1 DEF ServerInv, ViewKnown, Since
<1>8. PublishedWhole'
  <2>1. Publishing' <=> Publishing
    BY <1>1 DEF Publishing
  <2>2. Publishing => locks["chain"] # t
    BY DEF Publishing, ServerInv, LocksSound
  <2>3. Publishing' => chain'.synced = chain'.head
    BY <2>1, <2>2 DEF ServerInv, PublishedWhole
  <2>4. ~Publishing' /\ poisoned' = {} /\ view' # NoView =>
          /\ [view' EXCEPT !.fresh = TRUE] = ViewOf(chain.synced)
          /\ gauges' = GaugesOf(chain.synced)
    BY <2>1 DEF ServerInv, PublishedWhole
  <2>5. ViewOf(chain.synced)' = ViewOf(chain.synced)
    BY JobOfFixed DEF ViewOf, ReadHead, GaugesOf
  <2>. QED BY <2>3, <2>4, <2>5 DEF PublishedWhole, GaugesOf
<1>. QED BY <1>2, <1>4, <1>5, <1>6, <1>7, <1>8 DEF ServerInv

\* A thread panics on a poisoned lock.
LEMMA PanicStep ==
  ASSUME ServerInv, NEW t \in Threads, threads[t].pc \in {"lock", "persist", "tip"}, Panic(t),
         UNCHANGED <<fast, tip, chain, gauges, view>>
  PROVE  ServerInv'
<1>1. locks' = Released(t) /\ Caught(t) /\ poisoned' = poisoned \cup Held(t)
  BY DEF Panic
<1>2. PICK j \in JobOf(t) : threads' = [threads EXCEPT ![t] = j] /\ j.pc \in {"idle", "done"}
  BY <1>1, CaughtJob
<1>3. /\ chain' \in [head : Tip, synced : Tip, torn : BOOLEAN] /\ poisoned' \in SUBSET Locks /\ TornLocked'
  BY <1>1 DEF ServerInv, TypeOK, TornLocked, Tip, Held
<1>. QED BY <1>1, <1>2, <1>3, ReleaseStep

LEMMA LockStep ==
  ASSUME ServerInv, NEW t \in Threads, Lock(t)
  PROVE  ServerInv'
<1>. DEFINE l == IF locks["chain"] = t THEN "snapshot" ELSE "chain"
<1>1. threads[t].pc = "lock" /\ locks[l] = Free /\ UNCHANGED <<fast, tip, chain, gauges, view>>
  BY DEF Lock, MayLock
<1>2. CASE l \in poisoned
  BY <1>1, <1>2, PanicStep DEF Lock
<1>3. CASE l \notin poisoned
  <2>. DEFINE pc == IF l = "snapshot" THEN "resync" ELSE "lock"
              j == [threads[t] EXCEPT !.pc = pc]
  <2>1. /\ locks' = [locks EXCEPT ![l] = t] /\ threads' = [threads EXCEPT ![t] = j]
        /\ UNCHANGED poisoned
    BY <1>3 DEF Lock, Step
  <2>2. j \in JobOf(t) /\ j.pc = pc
    <3>1. CASE t = Poller
      <4>1. threads[t] \in PollerJob
        BY <1>1, <3>1, PollerFacts
      <4>. QED BY <1>1, <3>1, <4>1 DEF PollerJob, JobOf
    <3>2. CASE t # Poller
      <4>1. threads[t] \in WorkerJob
        BY <1>1, <3>2, WorkerFacts DEF Threads
      <4>2. j \in WorkerJob /\ j.pc = pc
        BY <1>1, <4>1 DEF WorkerJob, WorkerRecord, InMember
      <4>. QED BY <3>2, <4>2 DEF JobOf
    <3>. QED BY <3>1, <3>2
  <2>. HIDE DEF j
  <2>3. threads'[t] = j /\ DOMAIN threads' = Threads /\ \A u \in Threads \ {t} : threads'[u] = threads[u]
    BY <2>1 DEF ServerInv, ThreadsSound
  <2>4. ThreadsSound'
    BY <1>1, <2>1, <2>2, <2>3, JobOfFixed DEF ServerInv, ThreadsSound
  <2>5. /\ locks' \in [Locks -> Threads \cup {Free}] /\ locks'["finality"] = Free
        /\ locks'["chain"] = t /\ (l = "snapshot" => locks'["snapshot"] = t)
        /\ l = "chain" => locks'["snapshot"] = locks["snapshot"] /\ locks["snapshot"] # t
        /\ \A u \in Threads \ {t} : locks["chain"] # u
        /\ \A u \in Threads \ {t} : locks'["snapshot"] # u /\ locks["snapshot"] # u
    <3>1. locks \in [Locks -> Threads \cup {Free}] /\ l \in Locks /\ l \in {"chain", "snapshot"}
          /\ locks["finality"] = Free
      BY DEF ServerInv, TypeOK, Locks, LocksSound
    <3>2. locks["snapshot"] # t
      BY <1>1 DEF ServerInv, LocksSound
    <3>3. \A u \in Threads \ {t} : locks["chain"] # u
      BY <1>1, ThreadNames
    <3>4. \A u \in Threads \ {t} : locks["snapshot"] # u
      BY <3>3 DEF ServerInv, LocksSound
    <3>. QED BY <1>1, <2>1, <3>1, <3>2, <3>3, <3>4, ThreadNames DEF Locks
  <2>6. LocksSound'
    BY <2>2, <2>3, <2>5 DEF ServerInv, LocksSound
  <2>7. TypeOK'
    <3>1. \A u \in Threads : threads'[u].pc \in Pcs
      BY <2>2, <2>3, JobPc DEF ServerInv, TypeOK
    <3>2. \A u \in Threads : locks'["snapshot"] = u => locks'["chain"] = u /\ threads'[u].pc \in {"resync", "store"}
      BY <2>2, <2>3, <2>5
    <3>. QED BY <1>1, <2>1, <2>5, <3>1, <3>2 DEF ServerInv, TypeOK
  <2>8. Shapes' /\ ViewSound' /\ TornLocked'
    BY <1>1, <2>1, JobOfFixed DEF ServerInv, Shapes, ViewSound, TornLocked
  <2>9. ViewKnown'
    BY <1>1, <2>1, <2>2, <2>3 DEF ServerInv, ViewKnown, Since
  <2>10. PublishedWhole'
    <3>1. Publishing' <=> Publishing
      BY <1>1, <2>2, <2>3 DEF Publishing
    <3>. QED BY <1>1, <2>1, <3>1, JobOfFixed DEF ServerInv, PublishedWhole
  <2>. QED BY <2>4, <2>6, <2>7, <2>8, <2>9, <2>10 DEF ServerInv
<1>. QED BY <1>2, <1>3

\* The height that a thread syncs to.
LEMMA SyncedTip ==
  ASSUME ServerInv, NEW t \in Threads, threads[t].pc \in {"resync", "lock"}
  PROVE  threads[t].tip \in Tip
<1>1. CASE t = Poller
  BY <1>1, PollerFacts DEF PollerJob
<1>2. CASE t # Poller
  <2>1. threads[t] \in WorkerJob
    BY <1>2, WorkerFacts DEF Threads
  <2>. QED BY <2>1 DEF WorkerJob, WorkerRecord
<1>. QED BY <1>1, <1>2

LEMMA VerifiedStep ==
  ASSUME ServerInv, NEW t \in Threads, Resync(t, "verified")
  PROVE  ServerInv'
<1>. DEFINE r == threads[t]
            h == Max({chain.head, r.tip})
            g == Grown(t)
            j == [r EXCEPT !.pc = "store", !.ok = TRUE, !.tip = g]
<1>1. /\ r.pc = "resync"
      /\ chain' = [chain EXCEPT !.head = h, !.synced = h]
      /\ threads' = [threads EXCEPT ![t] = j]
      /\ UNCHANGED <<locks, poisoned, fast, tip, gauges, view>>
  BY DEF Resync
<1>2. h \in Tip
  <2>1. r.tip \in Tip /\ chain.head \in Tip
    BY <1>1, SyncedTip DEF ServerInv, TypeOK, Tip
  <2>2. r.tip \in Int /\ chain.head \in Int
    BY <2>1, ConstantTypes DEF Tip
  <2>. QED BY <2>1, <2>2, MaxOfTwo
<1>. HIDE DEF h
<1>3. /\ chain' \in [head : Tip, synced : Tip, torn : BOOLEAN] /\ chain'.synced = chain'.head
      /\ chain'.torn = chain.torn
  BY <1>1, <1>2 DEF ServerInv, TypeOK, Tip
<1>4. j \in JobOf(t) /\ j.pc = "store"
  <2>0. g \in Tip \cup {NO_BLOCK}
    BY <1>1, SyncedTip DEF Grown
  <2>. HIDE DEF g
  <2>1. CASE t = Poller
    <3>1. r \in PollerJob
      BY <1>1, <2>1, PollerFacts
    <3>. QED BY <2>0, <2>1, <3>1 DEF PollerJob, JobOf
  <2>2. CASE t # Poller
    <3>1. r \in WorkerJob
      BY <1>1, <2>2, WorkerFacts DEF Threads
    <3>. DEFINE r1 == [r EXCEPT !.pc = "store"]
                r2 == [r1 EXCEPT !.ok = TRUE]
    <3>2. r1 \in WorkerRecord /\ r1.pc = "store" /\ r1.i <= Len(r1.body.members)
      BY <1>1, <3>1 DEF WorkerJob, WorkerRecord, InMember
    <3>. HIDE DEF r1
    <3>3. r2 \in WorkerRecord /\ r2.pc = "store" /\ r2.i <= Len(r2.body.members)
      BY <3>2 DEF WorkerRecord
    <3>. HIDE DEF r2
    <3>4. [r2 EXCEPT !.tip = g] \in WorkerJob /\ [r2 EXCEPT !.tip = g].pc = "store"
      BY <2>0, <3>3 DEF WorkerJob, WorkerRecord, InMember
    <3>. QED BY <2>2, <3>4 DEF JobOf, r1, r2
  <2>. QED BY <2>1, <2>2
<1>. HIDE DEF j
<1>5. threads'[t] = j /\ DOMAIN threads' = Threads /\ \A u \in Threads \ {t} : threads'[u] = threads[u]
  BY <1>1 DEF ServerInv, ThreadsSound
<1>6. ThreadsSound'
  BY <1>1, <1>4, <1>5, JobOfFixed DEF ServerInv, ThreadsSound
<1>7. LocksSound'
  BY <1>1, <1>4, <1>5 DEF ServerInv, LocksSound
<1>8. TypeOK'
  <2>1. \A u \in Threads : threads'[u].pc \in Pcs
    BY <1>4, <1>5, JobPc DEF ServerInv, TypeOK
  <2>2. \A u \in Threads : locks'["snapshot"] = u => locks'["chain"] = u /\ threads'[u].pc \in {"resync", "store"}
    BY <1>7 DEF LocksSound
  <2>. QED BY <1>1, <1>3, <2>1, <2>2 DEF ServerInv, TypeOK, Tip
<1>9. Shapes' /\ ViewSound' /\ TornLocked'
  BY <1>1, <1>3, JobOfFixed DEF ServerInv, Shapes, ViewSound, TornLocked
<1>10. ViewKnown'
  BY <1>1, <1>4, <1>5 DEF ServerInv, ViewKnown, Since
<1>11. PublishedWhole'
  BY <1>3, <1>4, <1>5 DEF PublishedWhole, Publishing
<1>. QED BY <1>6, <1>7, <1>8, <1>9, <1>10, <1>11 DEF ServerInv

LEMMA ResyncStep ==
  ASSUME ServerInv, NEW t \in Threads, NEW outcome \in {"verified", "rejected", "panic"}, Resync(t, outcome)
  PROVE  ServerInv'
<1>1. threads[t].pc = "resync" /\ locks["chain"] = t /\ UNCHANGED <<fast, tip, gauges, view>>
  BY DEF ServerInv, LocksSound, Resync
<1>2. CASE outcome = "verified"
  BY <1>2, VerifiedStep
<1>3. CASE outcome = "rejected"
  <2>1. PICK n \in {chain.head} \cup (chain.head + 1 .. threads[t].tip - 1) : chain' = [chain EXCEPT !.head = n]
    BY <1>3 DEF Resync
  <2>2. n \in Tip
    <3>1. threads[t].tip \in Tip /\ chain.head \in Tip
      BY <1>1, SyncedTip DEF ServerInv, TypeOK, Tip
    <3>. QED BY <2>1, <3>1, ConstantTypes DEF Tip
  <2>3. /\ chain' \in [head : Tip, synced : Tip, torn : BOOLEAN] /\ chain'.synced = chain.synced
        /\ chain'.torn = chain.torn
    BY <2>1, <2>2 DEF ServerInv, TypeOK, Tip
  <2>4. locks' = Released(t) /\ Failed(t) /\ UNCHANGED poisoned
    BY <1>3 DEF Resync
  <2>5. PICK j \in JobOf(t) : /\ threads' = [threads EXCEPT ![t] = j]
                              /\ j.pc = "idle" \/ (j.pc = "use" /\ ~j.ok)
    BY <1>1, <2>4, FailedJob
  <2>6. TornLocked' /\ poisoned' \in SUBSET Locks
    BY <2>3, <2>4 DEF ServerInv, TypeOK, TornLocked
  <2>. QED BY <1>1, <2>3, <2>4, <2>5, <2>6, ReleaseStep
<1>4. CASE outcome = "panic"
  <2>1. /\ chain' = [chain EXCEPT !.torn = TRUE] /\ poisoned' = poisoned \cup Held(t)
        /\ locks' = Released(t) /\ Caught(t)
    BY <1>4 DEF Resync, Panic
  <2>2. chain' \in [head : Tip, synced : Tip, torn : BOOLEAN] /\ chain'.synced = chain.synced
    BY <2>1 DEF ServerInv, TypeOK, Tip
  <2>3. "chain" \in poisoned' /\ poisoned' \in SUBSET Locks
    BY <1>1, <2>1 DEF Held, Locks, ServerInv, TypeOK
  <2>4. PICK j \in JobOf(t) : threads' = [threads EXCEPT ![t] = j] /\ j.pc \in {"idle", "done"}
    BY <1>1, <2>1, CaughtJob
  <2>5. TornLocked'
    BY <2>3 DEF TornLocked
  <2>. QED BY <1>1, <2>1, <2>2, <2>3, <2>4, <2>5, ReleaseStep
<1>. QED BY <1>2, <1>3, <1>4

\* A gauge that is stored is one of the four, and holds a height.
LEMMA StoreStep ==
  ASSUME ServerInv, NEW t \in Threads, Store(t)
  PROVE  ServerInv'
<1>. DEFINE k == Min(Unstored(chain.head))
            g == GaugeOrder[k]
<1>1. /\ threads[t].pc = "store" /\ Unstored(chain.head) # {}
      /\ gauges' = [gauges EXCEPT ![g] = GaugesOf(chain.head)[g]]
      /\ UNCHANGED <<fast, tip, chain, locks, poisoned, view, threads>>
  BY DEF Store
<1>2. g \in Gauge
  <2>. DEFINE S == Unstored(chain.head)
  <2>1. S \in SUBSET {1, 2, 3, 4} /\ S # {}
    BY <1>1 DEF Unstored
  <2>. HIDE DEF S
  <2>2. \E x \in S : \A y \in S : x <= y
    <3>1. CASE 1 \in S
      BY <2>1, <3>1
    <3>2. CASE 1 \notin S /\ 2 \in S
      BY <2>1, <3>2
    <3>3. CASE 1 \notin S /\ 2 \notin S /\ 3 \in S
      BY <2>1, <3>3
    <3>4. CASE 1 \notin S /\ 2 \notin S /\ 3 \notin S /\ 4 \in S
      BY <2>1, <3>4
    <3>. QED BY <2>1, <3>1, <3>2, <3>3, <3>4
  <2>3. Min(S) \in S
    BY <2>2 DEF Min
  <2>4. k \in {1, 2, 3, 4}
    BY <2>1, <2>3 DEF S
  <2>. HIDE DEF k
  <2>. QED BY <2>4 DEF GaugeOrder, Gauge
<1>. HIDE DEF g
<1>3. GaugesOf(chain.head)[g] \in NO_BLOCK .. MaxTip
  BY <1>2, HeadsOf DEF ServerInv, TypeOK, Shapes, Tip
<1>4. gauges' \in [Gauge -> Int] /\ \A x \in DOMAIN gauges' : gauges'[x] \in NO_BLOCK .. MaxTip
  <2>1. gauges \in [Gauge -> Int] /\ \A x \in DOMAIN gauges : gauges[x] \in NO_BLOCK .. MaxTip
    BY DEF ServerInv, Shapes, TypeOK
  <2>2. GaugesOf(chain.head)[g] \in Int
    BY <1>3, ConstantTypes DEF NO_BLOCK
  <2>. HIDE DEF g
  <2>. QED BY <1>1, <1>2, <1>3, <2>1, <2>2
<1>5. TypeOK' /\ Shapes' /\ ThreadsSound' /\ LocksSound' /\ ViewSound' /\ ViewKnown' /\ TornLocked'
  BY <1>1, <1>4, JobOfFixed
     DEF ServerInv, TypeOK, Shapes, ThreadsSound, LocksSound, ViewSound, ViewKnown, TornLocked
<1>6. PublishedWhole'
  BY <1>1 DEF ServerInv, PublishedWhole, Publishing
<1>. QED BY <1>5, <1>6 DEF ServerInv

\* The records that refresh_now leaves a thread with, and those on the way there.
LEMMA ResumedJob ==
  ASSUME ServerInv, NEW t \in Threads, threads[t].pc \in {"store", "write"}, Resumed(t)
  PROVE  \E j \in JobOf(t) : threads' = [threads EXCEPT ![t] = j] /\ j.pc \in {"idle", "use"}
<1>1. CASE t = Poller
  <2>1. Idle \in JobOf(t) /\ Idle.pc = "idle"
    BY DEF JobOf, Idle
  <2>2. threads' = [threads EXCEPT ![t] = Idle]
    BY <1>1 DEF Resumed
  <2>. QED BY <2>1, <2>2
<1>2. CASE t # Poller
  <2>. DEFINE r == threads[t]
              j == [r EXCEPT !.pc = "use", !.tip = NO_BLOCK]
  <2>1. r \in WorkerJob
    BY <1>2, WorkerFacts DEF Threads
  <2>2. threads' = [threads EXCEPT ![t] = j]
    BY <1>2 DEF Resumed
  <2>3. j \in WorkerJob /\ j.pc = "use"
    BY <2>1 DEF WorkerJob, WorkerRecord, InMember
  <2>. QED BY <1>2, <2>2, <2>3 DEF JobOf
<1>. QED BY <1>1, <1>2

LEMMA PersistJob ==
  ASSUME ServerInv, NEW t \in Threads, threads[t].pc \in {"store", "persist", "tip"},
         NEW pc \in {"persist", "tip", "write"}, Step(t, pc)
  PROVE  \E j \in JobOf(t) : threads' = [threads EXCEPT ![t] = j] /\ j.pc = pc
<1>. DEFINE r == threads[t]
            j == [r EXCEPT !.pc = pc]
<1>1. threads' = [threads EXCEPT ![t] = j]
  BY DEF Step
<1>2. CASE t = Poller
  <2>1. r \in PollerJob
    BY <1>2, PollerFacts
  <2>2. j \in PollerJob /\ j.pc = pc
    BY <2>1 DEF PollerJob
  <2>. QED BY <1>1, <1>2, <2>2 DEF JobOf
<1>3. CASE t # Poller
  <2>1. r \in WorkerJob
    BY <1>3, WorkerFacts DEF Threads
  <2>2. j \in WorkerJob /\ j.pc = pc
    BY <2>1 DEF WorkerJob, WorkerRecord, InMember
  <2>. QED BY <1>1, <1>3, <2>2 DEF JobOf
<1>. QED BY <1>2, <1>3

\* The heads of a sync are published as one, before its locks are given back.
LEMMA PublishStep ==
  ASSUME ServerInv, NEW t \in Threads, Publish(t)
  PROVE  ServerInv'
<1>1. /\ threads[t].pc = "store" /\ Unstored(chain.head) = {} /\ view' = ViewOf(chain.head)
      /\ locks' = Released(t) /\ (Step(t, "persist") \/ Resumed(t))
      /\ UNCHANGED <<fast, tip, chain, poisoned, gauges>>
  BY DEF Publish
<1>2. chain.synced = chain.head /\ chain.head \in Tip /\ locks["chain"] = t
  BY <1>1 DEF ServerInv, PublishedWhole, Publishing, TypeOK, Tip, LocksSound
<1>3. gauges = GaugesOf(chain.head)
  <2>1. \A k \in 1 .. 4 : gauges[GaugeOrder[k]] = GaugesOf(chain.head)[GaugeOrder[k]]
    BY <1>1 DEF Unstored, Stored
  <2>2. GaugeOrder[1] = "tip" /\ GaugeOrder[2] = "safe" /\ GaugeOrder[3] = "justified" /\ GaugeOrder[4] = "finalized"
    BY DEF GaugeOrder
  <2>3. 1 \in 1 .. 4 /\ 2 \in 1 .. 4 /\ 3 \in 1 .. 4 /\ 4 \in 1 .. 4
    OBVIOUS
  <2>4. \A x \in Gauge : gauges[x] = GaugesOf(chain.head)[x]
    BY <2>1, <2>2, <2>3 DEF Gauge
  <2>5. gauges \in [Gauge -> Int] /\ GaugesOf(chain.head) \in [Gauge -> NO_BLOCK .. MaxTip]
    BY <1>2, HeadsOf DEF ServerInv, Shapes
  <2>. QED BY <2>4, <2>5
<1>4. PICK j \in JobOf(t) : threads' = [threads EXCEPT ![t] = j] /\ j.pc \in {"idle", "use", "persist"}
  BY <1>1, ResumedJob, PersistJob
<1>5. threads'[t] = j /\ DOMAIN threads' = Threads /\ \A u \in Threads \ {t} : threads'[u] = threads[u]
  BY <1>4 DEF ServerInv, ThreadsSound
<1>6. ThreadsSound'
  BY <1>1, <1>5, JobOfFixed DEF ServerInv, ThreadsSound
<1>7. /\ locks' \in [Locks -> Threads \cup {Free}] /\ locks'["finality"] = Free
      /\ locks'["chain"] # t /\ locks'["snapshot"] # t
      /\ \A u \in Threads \ {t} : locks'["chain"] = u <=> locks["chain"] = u
      /\ \A u \in Threads \ {t} : locks'["snapshot"] = u <=> locks["snapshot"] = u
  BY <1>1, ReleasedLocks DEF Locks
<1>8. LocksSound'
  BY <1>4, <1>5, <1>7 DEF ServerInv, LocksSound
<1>9. TypeOK'
  <2>1. \A u \in Threads : threads'[u].pc \in Pcs
    BY <1>5, JobPc DEF ServerInv, TypeOK
  <2>2. \A u \in Threads : locks'["snapshot"] = u => locks'["chain"] = u /\ threads'[u].pc \in {"resync", "store"}
    BY <1>8 DEF LocksSound
  <2>. QED BY <1>1, <1>7, <2>1, <2>2 DEF ServerInv, TypeOK
<1>10. /\ view' \in [head : Int, finalized : Int, read : Int, source : BOOLEAN, fresh : BOOLEAN]
       /\ view' # NoView /\ [view' EXCEPT !.fresh = TRUE] = view'
  <2>. DEFINE v == ViewOf(chain.head)
  <2>1. /\ v \in [head : Int, finalized : Int, read : Int, source : BOOLEAN, fresh : BOOLEAN]
        /\ v # NoView /\ v.fresh = TRUE
    BY <1>2, HeadsOf DEF ServerInv, Shapes
  <2>. HIDE DEF v
  <2>2. [v EXCEPT !.fresh = TRUE] = v
    BY <2>1
  <2>. QED BY <1>1, <2>1, <2>2 DEF v
<1>11. Shapes' /\ TornLocked' /\ ViewKnown'
  BY <1>1, <1>10 DEF ServerInv, Shapes, TornLocked, ViewKnown
<1>12. ViewOf(chain.head)' = ViewOf(chain.head) /\ ViewOf(chain.synced)' = ViewOf(chain.head)
  BY <1>1, <1>2 DEF ViewOf, ReadHead, GaugesOf
<1>13. ViewSound'
  <2>1. \E head \in Tip : [view' EXCEPT !.fresh = TRUE] = ViewOf(head)
    BY <1>1, <1>2, <1>10
  <2>. QED BY <1>1, <2>1, JobOfFixed DEF ViewSound
<1>14. PublishedWhole'
  <2>1. ~Publishing'
    <3>1. \A u \in Threads \ {t} : threads[u].pc # "store"
      BY <1>2 DEF ServerInv, LocksSound
    <3>. QED BY <1>4, <1>5, <3>1 DEF Publishing
  <2>. QED BY <1>1, <1>2, <1>3, <1>10, <1>12, <2>1 DEF PublishedWhole, GaugesOf
<1>. QED BY <1>6, <1>8, <1>9, <1>11, <1>13, <1>14 DEF ServerInv

\* A thread on its way to the copy of the tip takes a lock or gives one back.
LEMMA QuietStep ==
  ASSUME ServerInv, NEW t \in Threads, NEW j \in JobOf(t), threads' = [threads EXCEPT ![t] = j],
         threads[t].pc \in {"persist", "tip"}, j.pc \in {"tip", "write"},
         locks' \in [Locks -> Threads \cup {Free}], locks'["finality"] = Free,
         locks'["snapshot"] = locks["snapshot"], locks'["chain"] = t => j.pc = "tip",
         \A u \in Threads \ {t} : locks'["chain"] = u <=> locks["chain"] = u,
         UNCHANGED <<fast, tip, chain, poisoned, gauges, view>>
  PROVE  ServerInv'
<1>1. threads'[t] = j /\ DOMAIN threads' = Threads /\ \A u \in Threads \ {t} : threads'[u] = threads[u]
  BY DEF ServerInv, ThreadsSound
<1>2. ThreadsSound'
  BY <1>1, JobOfFixed DEF ServerInv, ThreadsSound
<1>3. locks["snapshot"] # t
  BY DEF ServerInv, LocksSound
<1>4. LocksSound'
  BY <1>1, <1>3 DEF ServerInv, LocksSound
<1>5. TypeOK'
  <2>1. \A u \in Threads : threads'[u].pc \in Pcs
    BY <1>1, JobPc DEF ServerInv, TypeOK
  <2>2. \A u \in Threads : locks'["snapshot"] = u => locks'["chain"] = u /\ threads'[u].pc \in {"resync", "store"}
    BY <1>4 DEF LocksSound
  <2>. QED BY <2>1, <2>2 DEF ServerInv, TypeOK
<1>6. Shapes' /\ ViewSound' /\ TornLocked'
  BY JobOfFixed DEF ServerInv, Shapes, ViewSound, TornLocked
<1>7. ViewKnown'
  BY <1>1 DEF ServerInv, ViewKnown, Since
<1>8. PublishedWhole'
  <2>1. Publishing' <=> Publishing
    BY <1>1 DEF Publishing
  <2>. QED BY <2>1, JobOfFixed DEF ServerInv, PublishedWhole
<1>. QED BY <1>2, <1>4, <1>5, <1>6, <1>7, <1>8 DEF ServerInv

LEMMA PersistStep ==
  ASSUME ServerInv, NEW t \in Threads, Persist(t) \/ ReadTip(t) \/ WriteTip(t)
  PROVE  ServerInv'
<1>1. locks \in [Locks -> Threads \cup {Free}] /\ locks["finality"] = Free
  BY DEF ServerInv, TypeOK, LocksSound
<1>2. UNCHANGED <<fast, tip, chain, gauges, view>>
  BY DEF Persist, ReadTip, WriteTip
<1>3. CASE Persist(t)
  <2>1. threads[t].pc = "persist" /\ locks["persist"] = Free
    BY <1>3 DEF Persist, MayLock
  <2>2. CASE Panic(t)
    BY <1>2, <2>1, <2>2, PanicStep
  <2>3. CASE ~Panic(t)
    <3>1. locks' = [locks EXCEPT !["persist"] = t] /\ Step(t, "tip") /\ UNCHANGED poisoned
      BY <1>3, <2>3 DEF Persist
    <3>2. PICK j \in JobOf(t) : threads' = [threads EXCEPT ![t] = j] /\ j.pc = "tip"
      BY <2>1, <3>1, PersistJob
    <3>3. /\ locks' \in [Locks -> Threads \cup {Free}] /\ locks'["finality"] = Free
          /\ locks'["snapshot"] = locks["snapshot"] /\ locks'["chain"] = locks["chain"]
      BY <1>1, <3>1 DEF Locks
    <3>. QED BY <1>2, <2>1, <3>1, <3>2, <3>3, QuietStep
  <2>. QED BY <2>2, <2>3
<1>4. CASE ReadTip(t)
  <2>. DEFINE l == IF locks["chain"] = t THEN "snapshot" ELSE "chain"
  <2>1. threads[t].pc = "tip" /\ locks[l] = Free
    BY <1>4 DEF ReadTip, MayLock
  <2>2. CASE Panic(t)
    BY <1>2, <2>1, <2>2, PanicStep
  <2>3. CASE ~Panic(t)
    <3>1. /\ locks' = [locks EXCEPT !["chain"] = IF l = "chain" THEN t ELSE Free]
          /\ Step(t, IF l = "chain" THEN "tip" ELSE "write") /\ UNCHANGED poisoned
      BY <1>4, <2>3 DEF ReadTip
    <3>2. PICK j \in JobOf(t) : /\ threads' = [threads EXCEPT ![t] = j]
                                /\ j.pc = IF l = "chain" THEN "tip" ELSE "write"
      BY <2>1, <3>1, PersistJob
    <3>3. /\ locks' \in [Locks -> Threads \cup {Free}] /\ locks'["finality"] = Free
          /\ locks'["snapshot"] = locks["snapshot"] /\ (locks'["chain"] = t => l = "chain")
          /\ \A u \in Threads \ {t} : locks'["chain"] # u /\ locks["chain"] # u
      BY <1>1, <2>1, <3>1, ThreadNames DEF Locks
    <3>. QED BY <1>2, <2>1, <3>1, <3>2, <3>3, QuietStep
  <2>. QED BY <2>2, <2>3
<1>5. CASE WriteTip(t)
  <2>1. threads[t].pc = "write" /\ locks' = Released(t) /\ Resumed(t) /\ UNCHANGED poisoned
    BY <1>5 DEF WriteTip
  <2>2. PICK j \in JobOf(t) : threads' = [threads EXCEPT ![t] = j] /\ j.pc \in {"idle", "use"}
    BY <2>1, ResumedJob
  <2>3. view # NoView
    BY <2>1 DEF ServerInv, ViewKnown, Since
  <2>4. /\ chain' \in [head : Tip, synced : Tip, torn : BOOLEAN] /\ poisoned' \in SUBSET Locks /\ TornLocked'
    BY <1>2, <2>1 DEF ServerInv, TypeOK, TornLocked, Tip
  <2>. QED BY <1>2, <2>1, <2>2, <2>3, <2>4, ReleaseStep
<1>. QED BY <1>3, <1>4, <1>5

LEMMA ExpireStep ==
  ASSUME ServerInv, Expire
  PROVE  ServerInv'
<1>1. /\ view.fresh /\ view' = [view EXCEPT !.fresh = FALSE]
      /\ UNCHANGED <<fast, tip, chain, locks, poisoned, gauges, threads>>
  BY DEF Expire
<1>2. view # NoView
  BY <1>1 DEF NoView
<1>3. /\ view' \in [head : Int, finalized : Int, read : Int, source : BOOLEAN, fresh : BOOLEAN]
      /\ [view' EXCEPT !.fresh = TRUE] = [view EXCEPT !.fresh = TRUE]
      /\ view'.read = view.read
  BY <1>1 DEF ServerInv, Shapes
<1>4. PICK head \in Tip : [view EXCEPT !.fresh = TRUE] = ViewOf(head)
  BY <1>2 DEF ServerInv, ViewSound
<1>5. view' # NoView
  <2>1. [view EXCEPT !.fresh = TRUE].read = view.read
    BY DEF ServerInv, Shapes
  <2>2. view.read >= 0
    BY <1>4, <2>1, HeadsOf DEF ServerInv, Shapes
  <2>. QED BY <1>3, <2>2 DEF NoView, NO_BLOCK
<1>6. Shapes' /\ ViewKnown'
  BY <1>1, <1>3, <1>5 DEF ServerInv, Shapes, ViewKnown
<1>7. ViewSound'
  BY <1>1, <1>3, <1>4, JobOfFixed DEF ViewSound
<1>8. TypeOK' /\ ThreadsSound' /\ LocksSound' /\ TornLocked'
  BY <1>1, JobOfFixed DEF ServerInv, TypeOK, ThreadsSound, LocksSound, TornLocked
<1>9. PublishedWhole'
  <2>1. Publishing' <=> Publishing
    BY <1>1 DEF Publishing
  <2>. QED BY <1>1, <1>2, <1>3, <2>1, JobOfFixed DEF ServerInv, PublishedWhole
<1>. QED BY <1>6, <1>7, <1>8, <1>9 DEF ServerInv

LEMMA ServerInvStep == ServerInv /\ [Next]_vars => ServerInv'
<1>. SUFFICES ASSUME ServerInv, [Next]_vars PROVE ServerInv'
  OBVIOUS
<1>1. ASSUME NEW t \in Threads, Sync(t)
      PROVE  ServerInv'
  BY <1>1, PollStep, LockStep, ResyncStep, StoreStep, PublishStep, PersistStep DEF Sync
<1>2. ASSUME NEW w \in Workers, Serve(w)
      PROVE  ServerInv'
  BY <1>1, <1>2, NextMemberStep, RefreshStep, HandlerStep, LoadStep, DoneStep DEF Serve, Threads
<1>3. ASSUME NEW w \in Workers, NEW b \in Bodies, Receive(w, b)
      PROVE  ServerInv'
  BY <1>3, ReceiveStep
<1>4. CASE Wake
  BY <1>4, WakeStep
<1>5. CASE Expire
  BY <1>5, ExpireStep
<1>6. CASE Grow
  <2>1. /\ tip' \in Tip /\ UNCHANGED <<fast, chain, locks, poisoned, gauges, view, threads>>
    BY <1>6, ConstantTypes DEF Grow, ServerInv, Shapes, Tip
  <2>. QED BY <2>1, JobOfFixed
           DEF ServerInv, TypeOK, Shapes, ThreadsSound, LocksSound, ViewSound, ViewKnown, TornLocked,
               PublishedWhole, Publishing
<1>7. CASE UNCHANGED vars
  BY <1>7, JobOfFixed
     DEF vars, ServerInv, TypeOK, Shapes, ThreadsSound, LocksSound, ViewSound, ViewKnown, TornLocked,
         PublishedWhole, Publishing
<1>. QED BY <1>1, <1>2, <1>3, <1>4, <1>5, <1>6, <1>7, ThreadNames DEF Next

-----------------------------------------------------------------------------
(* What follows. *)

\* The snapshot lock is held only under the chain lock, and whenever nobody holds the chain
\* lock the four gauges and the view are all of the newest sync that succeeded, for any
\* number of workers, requests and panics (refresh_now).
THEOREM AlwaysPublishedInOrder == Spec => []PublishedInOrder
<1>1. ServerInv => PublishedInOrder
  <2>. SUFFICES ASSUME ServerInv, locks["chain"] = Free, poisoned = {}, view.read # NO_BLOCK
                PROVE  /\ [view EXCEPT !.fresh = TRUE] = ViewOf(chain.synced)
                       /\ gauges = GaugesOf(chain.synced)
    BY DEF PublishedInOrder, PublishedTogether, ServerInv
  <2>1. ~Publishing
    BY ThreadNames DEF Publishing, ServerInv, LocksSound
  <2>2. view # NoView
    BY DEF NoView
  <2>. QED BY <2>1, <2>2 DEF ServerInv, PublishedWhole
<1>. QED BY <1>1, ServerInvInit, ServerInvStep, PTL DEF Spec

\* No answer mixes the heads of two syncs, and none shows a chain that a panic left half
\* changed (status_fields, dispatch_caught).
THEOREM AnswersNeverMixed == Spec => []NeverMixed
<1>1. ServerInv => NeverMixed
  <2>. SUFFICES ASSUME ServerInv, NEW w \in Workers, threads[w].pc = "done", NEW i \in DOMAIN threads[w].out
                PROVE  /\ threads[w].out[i].value # [torn |-> TRUE]
                       /\ "finalized" \in DOMAIN threads[w].out[i].value =>
                            \E head \in Start .. MaxTip : threads[w].out[i].value = StatusOf(ViewOf(head))
    BY DEF NeverMixed, StatusOneInstant, TornNeverServed
  <2>1. threads[w].out \in Seq(Answer)
    BY WorkerFacts DEF WorkerJob, WorkerRecord
  <2>2. threads[w].out[i] \in Answer
    BY <2>1, ElementOfSeq
  <2>3. threads[w].out[i].value \in Value
    BY <2>2 DEF Answer
  <2>. QED BY <2>3, ValueFacts DEF Tip
<1>. QED BY <1>1, ServerInvInit, ServerInvStep, PTL DEF Spec


-----------------------------------------------------------------------------
(* The answers of a body, and the members they are for. *)

\* The first n members have been answered, each at its place and under its id.
Matched(out, members, n) ==
  /\ Len(out) = Place(members, n)
  /\ \A k \in 1 .. n : members[k].form # "notification" =>
       out[Place(members, k)].id \in {members[k].id, NoId}

\* A worker has answered the members before the one it is at; a handler is at work only on a
\* member that is in order; a reply that goes out is whole, empty or one error.
Replied(j) ==
  /\ j.pc \in InMember \cup {"next"} => /\ j.i - 1 <= Len(j.body.members)
                                        /\ Matched(j.out, j.body.members, j.i - 1)
  /\ j.pc \in InMember => j.body.members[j.i].form = "ok"
  /\ j.pc = "load" => j.out = <<>>
  /\ j.pc = "done" => \/ j.out = <<>> \/ j.out[1].id = NoId
                      \/ Matched(j.out, j.body.members, Len(j.body.members))

RepliesSound == \A w \in Workers : threads[w] # Idle => Replied(threads[w])

LEMMA PlaceFacts ==
  ASSUME NEW members, NEW n \in Nat
  PROVE  /\ Place(members, n) \in Nat
         /\ Place(members, 0) = 0
         /\ Place(members, n + 1) =
              IF members[n + 1].form # "notification" THEN Place(members, n) + 1 ELSE Place(members, n)
         /\ \A k \in 1 .. n : Place(members, k) \in 0 .. Place(members, n)
         /\ \A k \in 1 .. n : members[k].form # "notification" => Place(members, k) >= 1
<1>. DEFINE Ask(k) == {m \in 1 .. k : members[m].form # "notification"}
<1>1. \A k \in Nat : IsFiniteSet(Ask(k)) /\ Cardinality(Ask(k)) \in Nat
  <2>. SUFFICES ASSUME NEW k \in Nat
                PROVE  IsFiniteSet(Ask(k)) /\ Cardinality(Ask(k)) \in Nat
    OBVIOUS
  <2>1. IsFiniteSet(1 .. k)
    BY FS_Interval
  <2>2. Ask(k) \in SUBSET (1 .. k)
    OBVIOUS
  <2>. HIDE DEF Ask
  <2>3. IsFiniteSet(Ask(k))
    BY <2>1, <2>2, FS_Subset
  <2>. QED BY <2>3, FS_CardinalityType
<1>2. \A k : Place(members, k) = Cardinality(Ask(k))
  BY DEF Place
<1>3. Ask(0) = {}
  OBVIOUS
<1>4. Cardinality(Ask(n + 1)) =
        IF members[n + 1].form # "notification" THEN Cardinality(Ask(n)) + 1 ELSE Cardinality(Ask(n))
  <2>1. CASE members[n + 1].form # "notification"
    <3>1. Ask(n + 1) = Ask(n) \cup {n + 1} /\ n + 1 \notin Ask(n)
      BY <2>1
    <3>. HIDE DEF Ask
    <3>. QED BY <1>1, <2>1, <3>1, FS_AddElement
  <2>2. CASE members[n + 1].form = "notification"
    <3>1. Ask(n + 1) = Ask(n)
      BY <2>2
    <3>. HIDE DEF Ask
    <3>. QED BY <2>2, <3>1
  <2>. QED BY <2>1, <2>2
<1>5. \A k \in 1 .. n : Cardinality(Ask(k)) \in 0 .. Cardinality(Ask(n))
  <2>. SUFFICES ASSUME NEW k \in 1 .. n
                PROVE  Cardinality(Ask(k)) \in 0 .. Cardinality(Ask(n))
    OBVIOUS
  <2>1. Ask(k) \in SUBSET Ask(n) /\ k \in Nat
    OBVIOUS
  <2>. HIDE DEF Ask
  <2>2. Cardinality(Ask(k)) <= Cardinality(Ask(n))
    BY <1>1, <2>1, FS_Subset
  <2>. QED BY <1>1, <2>1, <2>2
<1>6. \A k \in 1 .. n : members[k].form # "notification" => Cardinality(Ask(k)) >= 1
  <2>. SUFFICES ASSUME NEW k \in 1 .. n, members[k].form # "notification"
                PROVE  Cardinality(Ask(k)) >= 1
    OBVIOUS
  <2>1. Ask(k) # {} /\ k \in Nat
    OBVIOUS
  <2>. HIDE DEF Ask
  <2>2. Cardinality(Ask(k)) # 0
    BY <1>1, <2>1, FS_EmptySet
  <2>. QED BY <1>1, <2>1, <2>2
<1>7. Cardinality(Ask(0)) = 0
  BY <1>3, FS_EmptySet
<1>. HIDE DEF Ask
<1>. QED BY <1>1, <1>2, <1>4, <1>5, <1>6, <1>7

LEMMA Joined ==
  ASSUME NEW S, NEW s \in Seq(S), NEW t \in Seq(S)
  PROVE  /\ Len(s \o t) = Len(s) + Len(t)
         /\ \A i \in 1 .. Len(s) : (s \o t)[i] = s[i]
         /\ Len(t) = 1 => (s \o t)[Len(s) + 1] = t[1]
OBVIOUS

\* The answers to one more member, one unless it is a notification, keep the others in place.
LEMMA MatchedOneMore ==
  ASSUME NEW S, NEW out \in Seq(S), NEW members, NEW n \in Nat, Matched(out, members, n), NEW more \in Seq(S),
         Len(more) = (IF members[n + 1].form # "notification" THEN 1 ELSE 0),
         Len(more) = 1 => more[1].id \in {members[n + 1].id, NoId}
  PROVE  Matched(out \o more, members, n + 1)
<1>. DEFINE at(k) == Place(members, k)
<1>1. /\ at(n) \in Nat /\ Len(out) = at(n)
      /\ at(n + 1) = IF members[n + 1].form # "notification" THEN at(n) + 1 ELSE at(n)
      /\ \A k \in 1 .. n : at(k) \in 0 .. at(n)
      /\ \A k \in 1 .. n : members[k].form # "notification" => at(k) >= 1
      /\ \A k \in 1 .. n : members[k].form # "notification" => out[at(k)].id \in {members[k].id, NoId}
  BY PlaceFacts DEF Matched
<1>. HIDE DEF at
<1>2. Len(out \o more) = at(n + 1)
  <2>1. Len(out \o more) = Len(out) + Len(more)
    BY ONLY out \in Seq(S), more \in Seq(S), Joined
  <2>2. CASE members[n + 1].form # "notification"
    <3>1. Len(more) = 1
      BY <2>2
    <3>. QED BY <1>1, <2>1, <2>2, <3>1
  <2>3. CASE members[n + 1].form = "notification"
    <3>1. Len(more) = 0
      BY <2>3
    <3>. QED BY <1>1, <2>1, <2>3, <3>1
  <2>. QED BY <2>2, <2>3
<1>3. \A k \in 1 .. n + 1 : members[k].form # "notification" => (out \o more)[at(k)].id \in {members[k].id, NoId}
  <2>. SUFFICES ASSUME NEW k \in 1 .. n + 1, members[k].form # "notification"
                PROVE  (out \o more)[at(k)].id \in {members[k].id, NoId}
    OBVIOUS
  <2>1. CASE k \in 1 .. n
    <3>1. at(k) \in 1 .. Len(out)
      BY <1>1, <2>1
    <3>2. (out \o more)[at(k)] = out[at(k)]
      BY <3>1
    <3>. QED BY <1>1, <2>1, <3>2
  <2>2. CASE k = n + 1
    <3>0. Len(more) = 1 /\ more[1].id \in {members[k].id, NoId}
      BY <2>2
    <3>1. (out \o more)[Len(out) + 1] = more[1]
      BY ONLY <3>0, out \in Seq(S), more \in Seq(S), Joined
    <3>2. at(k) = Len(out) + 1
      BY <1>1, <2>2
    <3>3. (out \o more)[at(k)] = more[1]
      BY ONLY <3>1, <3>2
    <3>. QED BY ONLY <3>0, <3>3
  <2>3. k \in 1 .. n \/ k = n + 1
    BY ONLY n \in Nat, k \in 1 .. n + 1
  <2>. QED BY <2>1, <2>2, <2>3, Zenon
<1>. QED BY <1>2, <1>3 DEF Matched, at

LEMMA MatchedNone ==
  ASSUME NEW members
  PROVE  Matched(<<>>, members, 0)
BY PlaceFacts DEF Matched


\* A thread that changes only what it is doing keeps the other workers' replies.
LEMMA RepliesOfOne ==
  ASSUME ServerInv, RepliesSound, NEW t \in Threads, NEW j, threads' = [threads EXCEPT ![t] = j],
         t \in Workers => j = Idle \/ Replied(j)
  PROVE  RepliesSound'
<1>1. threads'[t] = j /\ \A u \in Threads \ {t} : threads'[u] = threads[u]
  BY DEF ServerInv, ThreadsSound
<1>. QED BY <1>1 DEF RepliesSound, Threads

\* A worker that goes on with its member has answered the same members as before.
LEMMA RepliesKept ==
  ASSUME ServerInv, RepliesSound, NEW t \in Threads, NEW j, threads' = [threads EXCEPT ![t] = j],
         t \in Workers => /\ threads[t].pc \in InMember /\ j.pc \in InMember
                          /\ j.body = threads[t].body /\ j.i = threads[t].i /\ j.out = threads[t].out
  PROVE  RepliesSound'
<1>1. ASSUME t \in Workers
      PROVE  Replied(j)
  <2>1. Replied(threads[t])
    BY <1>1 DEF RepliesSound, Idle, InMember
  <2>2. j.pc \notin {"load", "done"}
    BY <1>1 DEF InMember
  <2>. QED BY <1>1, <2>1, <2>2 DEF Replied
<1>. QED BY <1>1, RepliesOfOne

\* A panic is answered with one error, under no id.
LEMMA RepliesCaught ==
  ASSUME ServerInv, RepliesSound, NEW t \in Threads, threads[t].pc # "idle", Caught(t)
  PROVE  RepliesSound'
<1>1. CASE t = Poller
  <2>1. threads' = [threads EXCEPT ![t] = Idle]
    BY <1>1 DEF Caught
  <2>. QED BY <2>1, RepliesOfOne
<1>2. CASE t # Poller
  <2>. DEFINE r == threads[t]
              error == <<Err(NoId, ERR_INTERNAL)>>
              j == [r EXCEPT !.pc = "done", !.out = error, !.http = 500, !.tip = NO_BLOCK, !.ok = FALSE]
  <2>1. r \in WorkerJob
    BY <1>2, WorkerFacts DEF Threads
  <2>2. threads' = [threads EXCEPT ![t] = j]
    BY <1>2 DEF Caught
  <2>3. error[1].id = NoId
    BY DEF Err
  <2>. HIDE DEF error
  <2>4. j.pc = "done" /\ j.out = error
    BY <2>1 DEF WorkerJob, WorkerRecord
  <2>. HIDE DEF j
  <2>5. Replied(j)
    BY <2>3, <2>4 DEF Replied, InMember
  <2>. QED BY <2>2, <2>5, RepliesOfOne
<1>. QED BY <1>1, <1>2

\* A member is answered, at its place and under its id.
LEMMA RepliesAnswered ==
  ASSUME ServerInv, RepliesSound, NEW w \in Workers, threads[w].pc \in InMember \cup {"next"},
         threads[w].i <= Len(threads[w].body.members), NEW S, Answer \subseteq S, NEW answers \in Seq(S),
         Len(answers) = (IF Member(w).form # "notification" THEN 1 ELSE 0),
         Len(answers) = 1 => answers[1].id \in {Member(w).id, NoId},
         Answered(w, answers)
  PROVE  RepliesSound'
<1>. DEFINE r == threads[w]
            j == [r EXCEPT !.pc = "next", !.i = @ + 1, !.out = @ \o answers, !.ok = FALSE]
            n == r.i - 1
            members == r.body.members
<1>1. w # Poller /\ w \in Threads /\ r \in WorkerJob /\ r # Idle
  BY WorkerFacts DEF InMember, Idle
<1>2. threads' = [threads EXCEPT ![w] = j]
  BY <1>1 DEF Answered
<1>3. r.i \in Nat \ {0} /\ r.out \in Seq(Answer)
  BY <1>1 DEF WorkerJob, WorkerRecord
<1>4. n \in Nat /\ r.i = n + 1
  BY <1>3
<1>5. r.out \in Seq(S)
  BY <1>3
<1>6. Matched(r.out, members, n)
  BY <1>1 DEF RepliesSound, Replied
<1>7. Matched(r.out \o answers, members, n + 1)
  <2>1. Member(w) = members[n + 1]
    BY <1>4 DEF Member
  <2>. HIDE DEF n, members, r
  <2>2. /\ Len(answers) = (IF members[n + 1].form # "notification" THEN 1 ELSE 0)
        /\ Len(answers) = 1 => answers[1].id \in {members[n + 1].id, NoId}
    BY <2>1
  <2>. QED BY ONLY <1>4, <1>5, <1>6, <2>2, answers \in Seq(S), MatchedOneMore
<1>8. j.pc = "next" /\ j.i = r.i + 1 /\ j.out = r.out \o answers /\ j.body = r.body
  BY <1>1 DEF WorkerJob, WorkerRecord
<1>. HIDE DEF j
<1>9. Replied(j)
  <2>1. j.i - 1 = n + 1 /\ j.i - 1 <= Len(j.body.members)
    BY <1>3, <1>8
  <2>. HIDE DEF n
  <2>. QED BY <1>7, <1>8, <2>1 DEF Replied, InMember
<1>. QED BY <1>1, <1>2, <1>9, RepliesOfOne

LEMMA RepliesReceive ==
  ASSUME ServerInv, RepliesSound, NEW w \in Workers, NEW b \in Bodies, Receive(w, b)
  PROVE  RepliesSound'
<1>. DEFINE r == [pc |-> "next", body |-> b, i |-> 1, out |-> <<>>, http |-> 200, tip |-> NO_BLOCK, ok |-> FALSE,
                  scrape |-> <<>>]
            l == [r EXCEPT !.pc = "load"]
            d == [r EXCEPT !.pc = "done", !.http = HttpReject(b)]
            e == [r EXCEPT !.pc = "done", !.out = BodyRefused(b)]
            j == IF b.http = "scrape" THEN l ELSE IF HttpReject(b) # 0 THEN d
                 ELSE IF BodyRefused(b) # <<>> THEN e ELSE r
<1>1. w \in Threads
  BY WorkerFacts
<1>2. threads' = [threads EXCEPT ![w] = j]
  BY DEF Receive
<1>3. Replied(r)
  <2>1. b.members \in Seq([form : STRING, id : Nat, method : STRING])
    BY ServerConstants
  <2>2. Matched(<<>>, b.members, 0)
    BY MatchedNone
  <2>3. r.pc = "next" /\ r.i - 1 = 0 /\ r.out = <<>> /\ r.body = b
    OBVIOUS
  <2>4. 0 <= Len(b.members)
    BY <2>1
  <2>. HIDE DEF r
  <2>. QED BY <2>2, <2>3, <2>4 DEF Replied, InMember
<1>4. Replied(l)
  <2>1. l.pc = "load" /\ l.out = <<>>
    OBVIOUS
  <2>. HIDE DEF l
  <2>. QED BY <2>1 DEF Replied, InMember
<1>5. Replied(d)
  <2>1. d.pc = "done" /\ d.out = <<>>
    OBVIOUS
  <2>. HIDE DEF d
  <2>. QED BY <2>1 DEF Replied, InMember
<1>6. BodyRefused(b) # <<>> => Replied(e)
  <2>1. e.pc = "done" /\ e.out = BodyRefused(b)
    OBVIOUS
  <2>2. BodyRefused(b) # <<>> => BodyRefused(b)[1].id = NoId
    BY DEF BodyRefused, Err
  <2>. HIDE DEF e
  <2>. QED BY <2>1, <2>2 DEF Replied, InMember
<1>. HIDE DEF r, l, d, e
<1>7. Replied(j)
  BY <1>3, <1>4, <1>5, <1>6
<1>. HIDE DEF j
<1>. QED BY <1>1, <1>2, <1>7, RepliesOfOne


LEMMA ScreenedReplies ==
  ASSUME NEW m
  PROVE  /\ Len(Screened(m)) = IF m.form # "notification" THEN 1 ELSE 0
         /\ Len(Screened(m)) = 1 => Screened(m)[1].id \in {m.id, NoId}
<1>1. CASE m.form = "notification"
  <2>1. Screened(m) = <<>>
    BY <1>1 DEF Screened
  <2>. QED BY <1>1, <2>1
<1>2. CASE m.form # "notification"
  <2>. DEFINE a == Err(NoId, ERR_INVALID)
              b == Err(m.id, ERR_INVALID)
              c == Err(m.id, ERR_PARAMS)
              d == Ok(m.id, <<>>)
              e == Err(m.id, ERR_METHOD)
  <2>1. \E x \in {a, b, c, d, e} : Screened(m) = <<x>>
    BY <1>2 DEF Screened
  <2>2. a.id = NoId /\ b.id = m.id /\ c.id = m.id /\ d.id = m.id /\ e.id = m.id
    BY DEF Err, Ok
  <2>. HIDE DEF a, b, c, d, e
  <2>3. PICK x : Screened(m) = <<x>> /\ x.id \in {m.id, NoId}
    BY <2>1, <2>2
  <2>4. Len(Screened(m)) = 1 /\ Screened(m)[1] = x
    BY <2>3
  <2>. QED BY <1>2, <2>3, <2>4
<1>. QED BY <1>1, <1>2

LEMMA RepliesNextMember ==
  ASSUME ServerInv, RepliesSound, NEW w \in Workers, NextMember(w)
  PROVE  RepliesSound'
<1>. DEFINE r == threads[w]
            members == r.body.members
<1>1. w \in Threads /\ w # Poller /\ r.pc = "next" /\ r \in WorkerJob /\ r # Idle
  BY WorkerFacts DEF NextMember, Idle
<1>2. r.i \in Nat \ {0} /\ Len(members) \in Nat
  BY <1>1, ServerConstants DEF WorkerJob, WorkerRecord
<1>3. Replied(r)
  BY <1>1 DEF RepliesSound
<1>4. CASE r.i > Len(members)
  <2>. DEFINE status == IF r.body.json = "one" /\ r.out = <<>> THEN 204 ELSE 200
              j == [r EXCEPT !.pc = "done", !.http = status]
  <2>1. threads' = [threads EXCEPT ![w] = j]
    BY <1>4, ZenonT(60) DEF NextMember
  <2>. HIDE DEF status
  <2>2. j.pc = "done" /\ j.out = r.out /\ j.body = r.body
    BY <1>1 DEF WorkerJob, WorkerRecord
  <2>. HIDE DEF j
  <2>3. r.i - 1 <= Len(members) /\ Matched(r.out, members, r.i - 1)
    BY <1>1, <1>3 DEF Replied
  <2>4. r.i - 1 = Len(members)
    BY <1>2, <1>4, <2>3
  <2>5. Replied(j)
    BY <2>2, <2>3, <2>4 DEF Replied, InMember
  <2>. QED BY <1>1, <2>1, <2>5, RepliesOfOne
<1>5. CASE r.i <= Len(members)
  <2>1. \/ Member(w).form = "ok" /\ Step(w, "refresh")
        \/ Answered(w, Screened(Member(w)))
    BY <1>2, <1>5 DEF NextMember
  <2>2. CASE Member(w).form = "ok" /\ Step(w, "refresh")
    <3>. DEFINE j == [r EXCEPT !.pc = "refresh"]
    <3>1. threads' = [threads EXCEPT ![w] = j]
      BY <2>2 DEF Step
    <3>2. j.pc = "refresh" /\ j.out = r.out /\ j.body = r.body /\ j.i = r.i
      BY <1>1 DEF WorkerJob, WorkerRecord
    <3>. HIDE DEF j
    <3>3. r.body.members[r.i].form = "ok"
      BY <2>2 DEF Member
    <3>4. Replied(j)
      BY <1>1, <1>3, <3>2, <3>3 DEF Replied
    <3>. QED BY <1>1, <3>1, <3>4, RepliesOfOne
  <2>3. CASE Answered(w, Screened(Member(w)))
    <3>1. Screened(Member(w)) \in Seq(Answer)
      BY <1>1, <1>5, MemberId, ScreenedAnswers
    <3>. QED BY <1>1, <1>5, <2>3, <3>1, ScreenedReplies, RepliesAnswered
  <2>. QED BY <2>1, <2>2, <2>3
<1>. QED BY <1>2, <1>4, <1>5

\* A handler's answer is the member's own.
LEMMA RepliesHandled ==
  ASSUME ServerInv, RepliesSound, NEW w \in Workers, threads[w].pc \in InMember, NEW a, a.id = Member(w).id,
         Answered(w, <<a>>)
  PROVE  RepliesSound'
<1>. DEFINE S == Answer \cup {a}
<1>1. threads[w] \in WorkerJob /\ threads[w] # Idle
  BY WorkerFacts DEF InMember, Idle
<1>2. threads[w].i <= Len(threads[w].body.members)
  BY <1>1 DEF WorkerJob
<1>3. Member(w).form = "ok"
  BY <1>1 DEF RepliesSound, Replied, Member
<1>4. <<a>> \in Seq(S) /\ Answer \subseteq S /\ Len(<<a>>) = 1 /\ <<a>>[1] = a
  OBVIOUS
<1>. HIDE DEF S
<1>5. /\ Len(<<a>>) = IF Member(w).form # "notification" THEN 1 ELSE 0
      /\ <<a>>[1].id \in {Member(w).id, NoId}
  BY <1>3, <1>4
<1>. QED BY ONLY <1>2, <1>4, <1>5, RepliesAnswered, ServerInv, RepliesSound, w \in Workers,
                 threads[w].pc \in InMember, Answered(w, <<a>>)

LEMMA RepliesStep ==
  ASSUME ServerInv, RepliesSound, NEW t \in Threads, t \in Workers => threads[t].pc \in InMember, NEW pc \in InMember,
         Step(t, pc)
  PROVE  RepliesSound'
<1>. DEFINE r == threads[t]
            j == [r EXCEPT !.pc = pc]
<1>1. threads' = [threads EXCEPT ![t] = j]
  BY DEF Step
<1>2. ASSUME t \in Workers
      PROVE  j.pc = pc /\ j.body = r.body /\ j.i = r.i /\ j.out = r.out
  <2>1. r \in WorkerJob
    BY <1>2, WorkerFacts DEF InMember
  <2>. QED BY <2>1 DEF WorkerJob, WorkerRecord
<1>. HIDE DEF j
<1>. QED BY <1>1, <1>2, RepliesKept

LEMMA RepliesHandler ==
  ASSUME ServerInv, RepliesSound, NEW w \in Workers,
         UseHead(w) \/ ReadChain(w) \/ Syncing(w) \/ Sealing(w) \/ Status(w)
  PROVE  RepliesSound'
<1>1. w \in Threads /\ threads[w].pc \in {"use", "sealing", "status"} /\ threads[w].pc \in InMember
  BY WorkerFacts DEF UseHead, ReadChain, Syncing, Sealing, Status, InMember
<1>2. \/ \E a : a.id = Member(w).id /\ Answered(w, <<a>>)
      \/ Caught(w)
      \/ \E pc \in InMember : Step(w, pc)
  <2>1. \A v, c : Ok(Member(w).id, v).id = Member(w).id /\ Err(Member(w).id, c).id = Member(w).id
    BY DEF Ok, Err
  <2>2. CASE UseHead(w)
    <3>1. \/ Answered(w, <<Err(Member(w).id, ERR_NOT_SYNCED)>>)
          \/ Answered(w, <<Ok(Member(w).id, <<>>)>>)
          \/ Step(w, "sealing")
      BY <2>2 DEF UseHead
    <3>2. "sealing" \in InMember
      BY DEF InMember
    <3>. QED BY <2>1, <3>1, <3>2, Zenon
  <2>3. CASE ReadChain(w)
    <3>1. Caught(w) \/ Answered(w, <<Ok(Member(w).id, [torn |-> chain.torn])>>)
      BY <2>3 DEF ReadChain
    <3>. QED BY <2>1, <3>1, Zenon
  <2>4. CASE Syncing(w)
    <3>1. Answered(w, <<Ok(Member(w).id, [at |-> IF "chain" \in poisoned THEN 0 ELSE chain.head])>>)
      BY <2>4 DEF Syncing
    <3>. QED BY <2>1, <3>1, Zenon
  <2>5. CASE Sealing(w)
    BY <2>5 DEF Sealing, InMember
  <2>6. CASE Status(w)
    <3>1. Answered(w, <<Ok(Member(w).id, StatusOf(view))>>)
      BY <2>6 DEF Status
    <3>. QED BY <2>1, <3>1, Zenon
  <2>. QED BY <2>2, <2>3, <2>4, <2>5, <2>6
<1>3. threads[w].pc # "idle"
  BY <1>1
<1>4. ASSUME NEW a, a.id = Member(w).id, Answered(w, <<a>>)
      PROVE  RepliesSound'
  BY <1>1, <1>4, RepliesHandled
<1>5. ASSUME NEW pc \in InMember, Step(w, pc)
      PROVE  RepliesSound'
  BY <1>1, <1>5, RepliesStep
<1>. QED BY <1>1, <1>2, <1>3, <1>4, <1>5, RepliesCaught


\* A sync that fails leaves the worker at its member.
LEMMA RepliesFailed ==
  ASSUME ServerInv, RepliesSound, NEW t \in Threads, threads[t].pc \in InMember, Failed(t)
  PROVE  RepliesSound'
<1>1. CASE t = Poller
  <2>1. threads' = [threads EXCEPT ![t] = Idle]
    BY <1>1 DEF Failed
  <2>. QED BY <2>1, RepliesOfOne
<1>2. CASE t # Poller
  <2>. DEFINE r == threads[t]
              j == [r EXCEPT !.pc = "use", !.ok = FALSE, !.tip = NO_BLOCK]
  <2>1. r \in WorkerJob
    BY <1>2, WorkerFacts DEF Threads, InMember
  <2>2. threads' = [threads EXCEPT ![t] = j]
    BY <1>2 DEF Failed
  <2>3. j.pc \in InMember /\ j.body = r.body /\ j.i = r.i /\ j.out = r.out
    BY <2>1 DEF WorkerJob, WorkerRecord, InMember
  <2>. HIDE DEF j
  <2>. QED BY <2>2, <2>3, RepliesKept
<1>. QED BY <1>1, <1>2

LEMMA RepliesResumed ==
  ASSUME ServerInv, RepliesSound, NEW t \in Threads, threads[t].pc \in InMember, Resumed(t)
  PROVE  RepliesSound'
<1>1. CASE t = Poller
  <2>1. threads' = [threads EXCEPT ![t] = Idle]
    BY <1>1 DEF Resumed
  <2>. QED BY <1>1, <2>1, ThreadNames, RepliesOfOne
<1>2. CASE t # Poller
  <2>. DEFINE r == threads[t]
              j == [r EXCEPT !.pc = "use", !.tip = NO_BLOCK]
  <2>1. r \in WorkerJob
    BY <1>2, WorkerFacts DEF Threads, InMember
  <2>2. threads' = [threads EXCEPT ![t] = j]
    BY <1>2 DEF Resumed
  <2>3. j.pc \in InMember /\ j.body = r.body /\ j.i = r.i /\ j.out = r.out
    BY <2>1 DEF WorkerJob, WorkerRecord, InMember
  <2>. HIDE DEF j
  <2>. QED BY <2>2, <2>3, RepliesKept
<1>. QED BY <1>1, <1>2

LEMMA RepliesSync ==
  ASSUME ServerInv, RepliesSound, NEW t \in Threads, Sync(t)
  PROVE  RepliesSound'
<1>. DEFINE r == threads[t]
<1>1. ASSUME r.pc \in InMember, t \in Workers
      PROVE  r \in WorkerJob
  BY <1>1, WorkerFacts DEF InMember
<1>2. ASSUME NEW reached \in BOOLEAN, Poll(t, reached)
      PROVE  RepliesSound'
  <2>1. r.pc \in InMember
    BY <1>2 DEF Poll, InMember
  <2>2. CASE reached
    <3>. DEFINE j == [r EXCEPT !.pc = "lock", !.tip = tip]
    <3>1. threads' = [threads EXCEPT ![t] = j]
      BY <1>2, <2>2 DEF Poll
    <3>2. ASSUME t \in Workers
          PROVE  j.pc \in InMember /\ j.body = r.body /\ j.i = r.i /\ j.out = r.out
      BY <1>1, <2>1, <3>2 DEF WorkerJob, WorkerRecord, InMember
    <3>. HIDE DEF j
    <3>. QED BY <2>1, <3>1, <3>2, RepliesKept
  <2>3. CASE ~reached
    BY <1>2, <2>1, <2>3, RepliesFailed DEF Poll
  <2>. QED BY <2>2, <2>3
<1>3. CASE Lock(t)
  <2>1. r.pc = "lock" /\ (Caught(t) \/ Step(t, "resync") \/ Step(t, "lock"))
    BY <1>3 DEF Lock, Panic
  <2>2. r.pc \in InMember /\ "resync" \in InMember /\ "lock" \in InMember /\ r.pc # "idle"
    BY <2>1 DEF InMember
  <2>. QED BY <2>1, <2>2, RepliesCaught, RepliesStep
<1>4. ASSUME NEW outcome, Resync(t, outcome), outcome \in {"verified", "rejected", "panic"}
      PROVE  RepliesSound'
  <2>. DEFINE j == [r EXCEPT !.pc = "store", !.ok = TRUE, !.tip = Grown(t)]
  <2>1. r.pc = "resync" /\ (Caught(t) \/ Failed(t) \/ threads' = [threads EXCEPT ![t] = j])
    BY <1>4 DEF Resync, Panic
  <2>2. r.pc \in InMember /\ r.pc # "idle"
    BY <2>1 DEF InMember
  <2>3. CASE threads' = [threads EXCEPT ![t] = j]
    <3>1. ASSUME t \in Workers
          PROVE  j.pc \in InMember /\ j.body = r.body /\ j.i = r.i /\ j.out = r.out
      BY <1>1, <2>2, <3>1 DEF WorkerJob, WorkerRecord, InMember
    <3>. HIDE DEF j
    <3>. QED BY <2>2, <2>3, <3>1, RepliesKept
  <2>. HIDE DEF j
  <2>. QED BY <2>1, <2>2, <2>3, RepliesCaught, RepliesFailed
<1>5. CASE Store(t)
  BY <1>5 DEF Store, RepliesSound
<1>6. CASE Publish(t) \/ WriteTip(t)
  <2>1. r.pc \in {"store", "write"} /\ (Step(t, "persist") \/ Resumed(t))
    BY <1>6 DEF Publish, WriteTip
  <2>2. r.pc \in InMember /\ "persist" \in InMember
    BY <2>1 DEF InMember
  <2>. QED BY <2>1, <2>2, RepliesStep, RepliesResumed
<1>7. CASE Persist(t) \/ ReadTip(t)
  <2>1. r.pc \in {"persist", "tip"} /\ (Caught(t) \/ \E pc \in {"tip", "write"} : Step(t, pc))
    BY <1>7 DEF Persist, ReadTip, Panic
  <2>2. r.pc \in InMember /\ "tip" \in InMember /\ "write" \in InMember /\ r.pc # "idle"
    BY <2>1 DEF InMember
  <2>. QED BY <2>1, <2>2, RepliesCaught, RepliesStep
<1>. QED BY <1>2, <1>3, <1>4, <1>5, <1>6, <1>7 DEF Sync

LEMMA RepliesInvStep == ServerInv /\ RepliesSound /\ [Next]_vars => RepliesSound'
<1>. SUFFICES ASSUME ServerInv, RepliesSound, [Next]_vars PROVE RepliesSound'
  OBVIOUS
<1>1. ASSUME NEW w \in Workers, Refresh(w)
      PROVE  RepliesSound'
  <2>. DEFINE r == threads[w]
              pc == IF view.fresh THEN "use" ELSE "poll"
              j == [r EXCEPT !.pc = pc, !.ok = view.fresh]
  <2>1. r.pc = "refresh" /\ threads' = [threads EXCEPT ![w] = j]
    BY <1>1 DEF Refresh
  <2>2. r \in WorkerJob /\ w \in Threads /\ pc \in InMember /\ r.pc \in InMember
    BY <2>1, WorkerFacts DEF InMember
  <2>. HIDE DEF pc
  <2>3. j.pc = pc /\ j.body = r.body /\ j.i = r.i /\ j.out = r.out
    BY <2>2 DEF WorkerJob, WorkerRecord
  <2>. HIDE DEF j
  <2>. QED BY <2>1, <2>2, <2>3, RepliesKept
<1>2. ASSUME NEW w \in Workers, Load(w)
      PROVE  RepliesSound'
  <2>. DEFINE r == threads[w]
              pc == IF Len(r.scrape) = 3 THEN "done" ELSE "load"
              scrape == Append(r.scrape, gauges[GaugeOrder[Len(r.scrape) + 1]])
              j == [r EXCEPT !.scrape = scrape, !.pc = pc]
  <2>1. r.pc = "load" /\ threads' = [threads EXCEPT ![w] = j]
    BY <1>2 DEF Load
  <2>2. r \in WorkerJob /\ w \in Threads /\ pc \in {"load", "done"} /\ r # Idle
    BY <2>1, WorkerFacts DEF Idle
  <2>. HIDE DEF pc, scrape
  <2>3. j.pc = pc /\ j.out = r.out
    BY <2>2 DEF WorkerJob, WorkerRecord
  <2>4. r.out = <<>>
    BY <2>1, <2>2 DEF RepliesSound, Replied
  <2>. HIDE DEF j
  <2>5. Replied(j)
    BY <2>2, <2>3, <2>4 DEF Replied, InMember
  <2>. QED BY <2>1, <2>2, <2>5, RepliesOfOne
<1>3. ASSUME NEW w \in Workers, Done(w)
      PROVE  RepliesSound'
  BY <1>3, WorkerFacts, RepliesOfOne DEF Done
<1>4. ASSUME NEW w \in Workers, Serve(w)
      PROVE  RepliesSound'
  BY <1>1, <1>2, <1>3, <1>4, RepliesNextMember, RepliesHandler, RepliesSync DEF Serve, Threads
<1>5. CASE Wake
  <2>. DEFINE j == [pc |-> "poll", tip |-> NO_BLOCK, ok |-> FALSE]
  <2>1. threads' = [threads EXCEPT ![Poller] = j]
    BY <1>5 DEF Wake
  <2>. HIDE DEF j
  <2>. QED BY <2>1, ThreadNames, RepliesOfOne
<1>6. CASE Expire \/ Grow \/ UNCHANGED vars
  BY <1>6 DEF Expire, Grow, vars, RepliesSound
<1>. QED BY <1>4, <1>5, <1>6, RepliesReceive, RepliesSync, ThreadNames DEF Next

\* A reply that goes out is one error for the whole body or the answers of all its members, in
\* order, at their places and under their ids, none for a notification, for every body and
\* every number of workers, whatever panics strike meanwhile (dispatch, dispatch_caught).
THEOREM AnswersAlwaysMatch == Spec => []AnswersMatch
<1>1. Init => RepliesSound
  BY DEF Init, RepliesSound, Threads
<1>2. ServerInv /\ RepliesSound => AnswersMatch
  <2>. SUFFICES ASSUME ServerInv, RepliesSound, NEW w \in Workers, threads[w].pc = "done",
                       threads[w].out # <<>>, threads[w].out[1].id # NoId
                PROVE  LET members == threads[w].body.members
                       IN  /\ Len(threads[w].out) = Place(members, Len(members))
                           /\ \A k \in DOMAIN members : members[k].form # "notification" =>
                                threads[w].out[Place(members, k)].id \in {members[k].id, NoId}
    BY DEF AnswersMatch
  <2>. DEFINE members == threads[w].body.members
  <2>1. threads[w] # Idle /\ threads[w] \in WorkerJob
    BY WorkerFacts DEF Idle
  <2>2. Matched(threads[w].out, members, Len(members))
    BY <2>1 DEF RepliesSound, Replied
  <2>3. DOMAIN members = 1 .. Len(members)
    BY <2>1, ServerConstants DEF WorkerJob, WorkerRecord
  <2>. HIDE DEF members
  <2>4. /\ Len(threads[w].out) = Place(members, Len(members))
        /\ \A k \in DOMAIN members : members[k].form # "notification" =>
             threads[w].out[Place(members, k)].id \in {members[k].id, NoId}
    BY <2>2, <2>3 DEF Matched
  <2>. QED BY <2>4 DEF members
<1>. QED BY <1>1, <1>2, ServerInvInit, ServerInvStep, RepliesInvStep, PTL DEF Spec
=============================================================================
