-------------------------------- MODULE Soak ---------------------------------
(***************************************************************************)
(* The soak runner: it compares what the client verifies with what an      *)
(* independent oracle says, over rounds and bursts, keeps its tally in a   *)
(* file so that a crashed run can be resumed, and ends with a verdict that *)
(* gates a release (soak, soak_until and persist_soak in                   *)
(* bin/helios-bsc/src/main.rs, soak_state.rs, diff.rs).                    *)
(*                                                                         *)
(* Abstractions.  A comparison has an outcome; the fields it compared are  *)
(* left out, and so are the counters of skips and of single fields.  A     *)
(* burst takes one unit of time.  The file is replaced in one step (module *)
(* Store shows why that is sound).  A run has --state.                     *)
(*                                                                         *)
(* Each operator named X_Something is a plausible mistake in X: no         *)
(* definition uses it, and X replaced by it must break a property.         *)
(***************************************************************************)
EXTENDS Integers, Sequences, FiniteSets, SequencesExt, FiniteSetsExt

CONSTANTS
  Addresses,     \* the list that is compared, in order
  Probe,         \* those whose contract is called as well
  Target,        \* --duration-secs a run may ask for; 0 means a fixed number of rounds
  Fast,          \* --finality a run may ask for: is it fast?
  Rounds, MinUnique, Burst, MAX_EMPTY, FINALITY_ATTEMPTS, BARREN_LIMIT,
  NoFile,
  MaxTime, MaxSessions   \* bounds of the model

Addr == Range(Addresses)

\* How many comparisons, and whether one of them was made at the fast finality head, and
\* one was of the finality head itself.
Tally == [compared : Nat, at_fast : BOOLEAN, finality : BOOLEAN]

Session == [started : Nat, ended : Nat]

\* What is kept in the file.
SoakState == [fast : BOOLEAN, tally : Tally, unique : SUBSET Addr, sessions : Seq(Session)]

ASSUME SoakConstants ==
  /\ {Rounds, MinUnique, Burst, MAX_EMPTY, FINALITY_ATTEMPTS, BARREN_LIMIT} \subseteq Nat \ {0}
  /\ {MaxTime, MaxSessions} \subseteq Nat
  /\ Target \subseteq Nat /\ Fast \subseteq BOOLEAN
  /\ Probe \subseteq Addr
  /\ Addresses \in Seq(Addr) /\ IsInjective(Addresses)
  /\ NoFile \notin SoakState

VARIABLES
  now,
  state,     \* the file of --state
  run,       \* the run in progress
  verdict,   \* what the newest run that ended said
  ran,       \* time the runs have spent in their loops
  made,      \* comparisons they have made, less those a crash threw away
  differed   \* has a comparison ever shown a difference?

soakVars == <<now, state, run, verdict, ran, made, differed>>

NoRun == [at |-> "down"]

NoTally == [compared |-> 0, at_fast |-> FALSE, finality |-> FALSE]

Plus(s, t) == [compared |-> s.compared + t.compared,
               at_fast  |-> s.at_fast \/ t.at_fast,
               finality |-> s.finality \/ t.finality]

-----------------------------------------------------------------------------
(* SoakState *)

\* soaked_secs: the sum over the sessions.
Soaked(sessions) ==
  LET sum[i \in 0 .. Len(sessions)] ==
        IF i = 0 THEN 0 ELSE sum[i - 1] + sessions[i].ended - sessions[i].started
  IN  sum[Len(sessions)]

Remaining(sessions, target) == Max({0, target - Soaked(sessions)})

\* A new session has no end yet.
OpenSession_Unended(sessions) == Append(sessions, [started |-> now, ended |-> 0])

OpenSession(sessions) == Append(sessions, [started |-> now, ended |-> now])

\* touch_session moves the end of the newest session, whichever that is.
TouchSession(sessions, time) ==
  IF sessions = <<>> THEN sessions ELSE [sessions EXCEPT ![Len(sessions)].ended = Max({@, time})]

\* A save also leaves the session touched in memory.
Touched(r, time) == [r EXCEPT !.sessions = TouchSession(@, time)]

\* The round in progress is added to a total that has it already.
Written_Twice(r) ==
  [fast |-> r.fast, tally |-> Plus(Plus(r.tot, r.report), r.report), unique |-> r.done,
   sessions |-> r.sessions]

\* What is saved: the totals of the rounds before, and the round in progress.
Written(r) == [fast |-> r.fast, tally |-> Plus(r.tot, r.report), unique |-> r.done, sessions |-> r.sessions]

\* persist_soak
Saved(r, time) == Written(Touched(r, time))

-----------------------------------------------------------------------------
(* A run. *)

Exit(result) ==
  /\ run' = NoRun
  /\ verdict' = result

\* The checks of the end of soak: the tally of all sessions, and the time they add up to.
Passes(r) ==
  /\ r.tot.compared > 0
  /\ Cardinality(r.done) >= MinUnique
  /\ r.fast => r.tot.at_fast /\ r.tot.finality
  /\ r.target > 0 => Remaining(r.sessions, r.target) = 0

\* The end of a run that had nothing to do is stamped as well.
Conclude_AlwaysTouch(r) ==
  /\ state' = Saved(r, now)
  /\ Exit(IF Passes(Touched(r, now)) THEN "pass" ELSE "fail")

\* The session ends at the save of its last round.
Conclude_LastSave(r) ==
  /\ state' = state
  /\ Exit(IF Passes(r) THEN "pass" ELSE "fail")

\* The loop is over: the session ends here, if this run has opened one.
Conclude(r) ==
  LET s == IF r.met THEN r ELSE Touched(r, now)
  IN  /\ state' = IF r.met THEN state ELSE Saved(r, now)
      /\ Exit(IF Passes(s) THEN "pass" ELSE "fail")

\* SoakFingerprint::differs_from: the file is of this experiment.
SameExperiment(fast) == state.fast = fast

\* SoakState::load, or SoakState::new when there is nothing to resume.
Load(fast) ==
  IF state = NoFile THEN [fast |-> fast, tally |-> NoTally, unique |-> {}, sessions |-> <<>>] ELSE state

\* A run resumes the tally of the file, and soaks for what is left of its target.  The
\* file of another experiment is refused.
Start(target, fast) ==
  /\ run = NoRun
  /\ state # NoFile => SameExperiment(fast) /\ Len(state.sessions) < MaxSessions
  /\ LET old  == Load(fast)
         left == Remaining(old.sessions, target)
         met  == target > 0 /\ left = 0
     IN  run' = [at |-> "setup", target |-> target, fast |-> fast, met |-> met, left |-> left,
                 deadline |-> 0, tot |-> old.tally, report |-> NoTally, done |-> old.unique,
                 sessions |-> old.sessions, round |-> 0, barren |-> 0,
                 pending |-> <<>>, all |-> FALSE, empty |-> 0, gone |-> {},
                 checked |-> FALSE, attempts |-> 0]
  /\ verdict' = "none"
  /\ UNCHANGED <<now, state, ran, made, differed>>

\* The walk to the tip may fail.
SetupFails ==
  /\ run.at = "setup"
  /\ Exit("fail")
  /\ UNCHANGED <<now, state, ran, made, differed>>

\* The clock of the session starts after the walk.
OpenRun ==
  /\ run.at = "setup"
  /\ IF run.met
     THEN run' = [run EXCEPT !.at = "top"] /\ state' = state
     ELSE \E r \in {[run EXCEPT !.at = "top", !.sessions = OpenSession(@), !.deadline = now + run.left]} :
            run' = r /\ state' = Written(r)
  /\ UNCHANGED <<now, verdict, ran, made, differed>>

\* What is left of a list of addresses without those of a set.
Unmatched(list, done) == FlattenSeq([i \in DOMAIN list |-> IF list[i] \in done THEN <<>> ELSE <<list[i]>>])

LoopEnds == run.met \/ IF run.target > 0 THEN now >= run.deadline ELSE run.round >= Rounds

\* soak_repeat_full_list: once each address has matched, a run of some duration goes on to
\* compare all of them again.
VisitAll(target, done) == target > 0 /\ Cardinality(done) >= Len(Addresses)

\* A round starts: the unmatched addresses, or all of them once each has matched.
StartRound ==
  /\ run.at = "top"
  /\ ~LoopEnds
  /\ LET all == VisitAll(run.target, run.done)
     IN  run' = [run EXCEPT !.at = "burst", !.round = IF run.target > 0 THEN 0 ELSE @ + 1,
                            !.report = NoTally, !.all = all,
                            !.pending = IF all THEN Addresses ELSE Unmatched(Addresses, run.done),
                            !.empty = 0, !.gone = {}, !.checked = FALSE, !.attempts = 0]
  /\ UNCHANGED <<now, state, verdict, ran, made, differed>>

EndLoop ==
  /\ run.at = "top"
  /\ LoopEnds
  /\ Conclude(run)
  /\ UNCHANGED <<now, ran, made, differed>>

-----------------------------------------------------------------------------
(* A burst. *)

Wanted == IF run.target > 0 THEN Len(Addresses) ELSE MinUnique

RoundOver(r) == r.pending = <<>> \/ (~r.all /\ Cardinality(r.done) >= Wanted) \/ r.empty >= MAX_EMPTY

\* Where a round goes on to.
Onward(r) == [r EXCEPT !.at = IF RoundOver(r) THEN "closing" ELSE "burst"]

Elapse ==
  /\ now < MaxTime
  /\ now' = now + 1
  /\ ran' = ran + 1

\* The head does not get into the window in time: the round goes on, a bounded number of
\* times.
NoWindow ==
  /\ run.at = "burst" /\ ~RoundOver(run)
  /\ Elapse
  /\ run' = Onward([run EXCEPT !.empty = @ + 1])
  /\ UNCHANGED <<state, verdict, made, differed>>

\* The outcomes of the finality cross-check: one verdict a round, a few attempts, and none
\* of them is spent while the snapshot has no attestation.
FinalityOutcomes ==
  IF run.checked \/ run.attempts >= FINALITY_ATTEMPTS THEN {"none"}
  ELSE {"none", "match", "mismatch", "skip"}

First == SubSeq(run.pending, 1, Min({Burst, Len(run.pending)}))

\* What a burst compares, in order: an account, and the call of one that has a probe.
Slot(k) == First[(k + 1) \div 2]

IsAccount(k) == k % 2 = 1

\* diff_one: the verified account against what the oracle says of it.  A proof that does not
\* verify drops the address for the round, and any other failure leaves it for a later burst.
AccountOutcomes == {"match", "mismatch", "retry", "drop"}

\* diff_call_one: a call on verified state, where the address has a probe.  A call that
\* cannot be made or compared is no comparison.
CallOutcomes(a) == IF a \in Probe THEN {"match", "mismatch", "none"} ELSE {"none"}

\* "none" also stands for a comparison that a difference before it prevented.
Outcomes ==
  {o \in [1 .. 2 * Len(First) -> AccountOutcomes \cup {"none"}] :
     \A k \in DOMAIN o : ~IsAccount(k) => o[k] \in CallOutcomes(Slot(k))}

\* soak_empty_burst
IsEmptyBurst(all, fresh, hits) == IF all THEN hits = {} ELSE fresh = {}

\* Up to its k-th comparison a burst has no difference, and has read every account.
AgreesUpTo(k, o) == \A j \in 1 .. k : o[j] # "mismatch" /\ (IsAccount(j) => o[j] # "none")

\* rotate_front: a burst that did not get on goes to the end.
Rotated(list, n) ==
  LET k == Min({n, Len(list)})
  IN  SubSeq(list, k + 1, Len(list)) \o SubSeq(list, 1, k)

\* The burst in memory: n new comparisons, all equal; the list is cut down and turned.
AfterBurst(fin, o, at_fast) ==
  LET n      == Len(First)
      hits   == {k \in DOMAIN o : o[k] = "match"}
      Got(x) == {Slot(k) : k \in {j \in DOMAIN o : IsAccount(j) /\ o[j] = x}}
      fresh  == Got("match") \ run.done
      done   == run.done \cup fresh
      gone   == run.gone \cup Got("drop")
      agreed == fin = "match"
      add    == [compared |-> Cardinality(hits) + (IF agreed THEN 1 ELSE 0),
                 at_fast  |-> at_fast /\ hits # {},
                 finality |-> agreed]
      rest   == IF run.all THEN SubSeq(run.pending, n + 1, Len(run.pending)) ELSE Unmatched(run.pending, done)
      left   == Unmatched(rest, gone)
      idle   == IsEmptyBurst(run.all, fresh, hits)
  IN  [run EXCEPT !.at = "save", !.report = Plus(@, add), !.done = done, !.gone = gone,
                  !.pending = IF idle /\ ~run.all THEN Rotated(left, n) ELSE left,
                  !.empty = IF idle THEN @ + 1 ELSE 0,
                  !.checked = @ \/ agreed,
                  !.attempts = IF fin \in {"match", "skip"} THEN @ + 1 ELSE @]

\* A burst without a difference.
AgreeingBurst(fin, o, at_fast) ==
  /\ run.at = "burst" /\ ~RoundOver(run)
  /\ fin # "mismatch" /\ AgreesUpTo(2 * Len(First), o)
  /\ Elapse
  /\ \E r \in {AfterBurst(fin, o, at_fast)} :
       /\ run' = r
       /\ made' = made + r.report.compared - run.report.compared
  /\ UNCHANGED <<state, verdict, differed>>

\* The first difference ends the round and the run; what was compared before it is kept.
Difference(fin, o, at_fast) ==
  /\ run.at = "burst" /\ ~RoundOver(run)
  /\ IF fin = "mismatch" THEN \A k \in DOMAIN o : o[k] = "none"
     ELSE \E m \in DOMAIN o :
            /\ AgreesUpTo(m - 1, o)
            /\ o[m] = "mismatch"
            /\ \A k \in DOMAIN o : k > m => o[k] = "none"
  /\ Elapse
  /\ \E r \in {AfterBurst(fin, o, at_fast)} :
       /\ state' = Saved([r EXCEPT !.tot = Plus(@, r.report), !.report = NoTally], now')
       /\ made' = made + r.report.compared - run.report.compared
  /\ differed' = TRUE
  /\ Exit("fail")

\* The state is saved after every burst.
SaveBurst ==
  /\ run.at = "save"
  /\ state' = Saved(run, now)
  /\ run' = Onward(Touched(run, now))
  /\ UNCHANGED <<now, verdict, ran, made, differed>>

\* A round ends: the totals grow, the state is saved, and too many rounds that compared
\* nothing end the run.
CloseRound ==
  /\ run.at = "closing" \/ (run.at = "burst" /\ RoundOver(run))
  /\ LET barren == IF run.report.compared = 0 THEN run.barren + 1 ELSE 0
         r == [Touched(run, now) EXCEPT !.tot = Plus(@, run.report), !.report = NoTally,
                                        !.barren = barren, !.at = "between"]
     IN  /\ state' = Saved(r, now)
         /\ IF barren >= BARREN_LIMIT THEN Exit("fail") ELSE run' = r /\ UNCHANGED verdict
  /\ UNCHANGED <<now, ran, made, differed>>

MoreRounds == IF run.target > 0 THEN now < run.deadline ELSE run.round < Rounds

\* The interval between two rounds.
Interval ==
  /\ run.at = "between" /\ MoreRounds
  /\ Elapse
  /\ run' = [run EXCEPT !.at = "top"]
  /\ UNCHANGED <<state, verdict, made, differed>>

Finish ==
  /\ run.at = "between" /\ ~MoreRounds
  /\ Conclude(run)
  /\ UNCHANGED <<now, ran, made, differed>>

\* The host dies; what was not saved is lost.
Crash ==
  /\ run # NoRun
  /\ run' = NoRun
  /\ made' = IF state = NoFile THEN 0 ELSE state.tally.compared
  /\ UNCHANGED <<now, state, verdict, ran, differed>>

\* Time outside the loop: nobody runs, or the walk to the tip takes its time.
Wait ==
  /\ run.at \in {"down", "setup"}
  /\ now < MaxTime
  /\ now' = now + 1
  /\ UNCHANGED <<state, run, verdict, ran, made, differed>>

SoakInit ==
  /\ now = 0
  /\ state = NoFile
  /\ run = NoRun
  /\ verdict = "none"
  /\ ran = 0
  /\ made = 0
  /\ differed = FALSE

SoakNext ==
  \/ \E target \in Target, fast \in Fast : Start(target, fast)
  \/ SetupFails \/ OpenRun \/ StartRound \/ EndLoop
  \/ NoWindow
  \/ /\ run.at = "burst"
     /\ \E fin \in FinalityOutcomes, o \in Outcomes, at_fast \in {FALSE, run.fast} :
          AgreeingBurst(fin, o, at_fast) \/ Difference(fin, o, at_fast)
  \/ SaveBurst \/ CloseRound \/ Interval \/ Finish
  \/ Crash \/ Wait

SoakSpec == SoakInit /\ [][SoakNext]_soakVars

-----------------------------------------------------------------------------
(* Properties. *)

InOrder(sessions) ==
  \A i \in DOMAIN sessions :
    /\ sessions[i].started <= sessions[i].ended
    /\ i > 1 => sessions[i - 1].ended <= sessions[i].started

\* Shapes; the sessions of the file are in order and do not overlap.
SoakTypeOK ==
  /\ now \in 0 .. MaxTime /\ ran \in 0 .. now /\ made \in Nat
  /\ verdict \in {"none", "pass", "fail"} /\ differed \in BOOLEAN
  /\ state # NoFile => state \in SoakState /\ state.fast \in Fast /\ InOrder(state.sessions)
  /\ run # NoRun => run.tot \in Tally /\ run.report \in Tally /\ run.done \subseteq Addr

\* The time a resumed soak claims is time its runs have spent comparing, never a gap
\* between two runs, whichever of them crashed and wherever.
SoakedIsReal == state # NoFile => Soaked(state.sessions) <= ran

\* The tally counts every comparison once, though each is saved several times, as part of
\* the round in progress and of the totals; a crash costs what was not saved.
TallyExact ==
  /\ run # NoRun => run.tot.compared + run.report.compared = made
  /\ run = NoRun \/ run.at # "save" => made = IF state = NoFile THEN 0 ELSE state.tally.compared

\* A run that has occupied the whole of the time it was asked for is never failed for
\* being short: the tally of its sessions reaches the target, the last interval included.
FullTimeCounts ==
  [][run.at \in {"top", "between"} /\ run'.at = "down" /\ verdict' # "none"
       => Soaked(state'.sessions) >= run.target]_soakVars

\* A gate that passes has seen no difference, in any of its sessions.
PassMeansNoDifference == verdict = "pass" => ~differed

\* The file that a resumed run builds on is a true account: of the time that was spent, in
\* sessions that do not overlap, and of the comparisons that were made (persist_soak).
AccountTrue == SoakTypeOK /\ SoakedIsReal /\ TallyExact
=============================================================================
