----------------------------- MODULE FilterFeed -----------------------------
(***************************************************************************)
(* What a filter promises to the client that polls it: an id names one     *)
(* filter for the life of the process, and the answers to                  *)
(* eth_getFilterChanges cover the chain from the filter's first block on   *)
(* without a hole.  A block may be reported twice, when two polls of one   *)
(* filter overlap; it is never passed over.  A block filter promises less: *)
(* it reports blocks from its first one on, of which some may be missing.  *)
(***************************************************************************)
EXTENDS Integers

CONSTANTS Id, Height, NoFeed

VARIABLE feed    \* feed[f]: the filter's first block, and the blocks it has reported

Init == feed = [f \in Id |-> NoFeed]

\* An id is given out once.
Install(f) ==
  /\ feed[f] = NoFeed
  /\ \E kind \in {"logs", "blocks"}, start \in Height :
       feed' = [feed EXCEPT ![f] = [kind |-> kind, start |-> start, told |-> {}]]

\* The blocks up to some height have been reported.
ReportLogs(f) ==
  /\ feed[f] # NoFeed /\ feed[f].kind = "logs"
  /\ \E to \in Height :
       /\ feed[f].told \subseteq feed[f].start .. to
       /\ feed' = [feed EXCEPT ![f].told = feed[f].start .. to]

ReportBlocks(f) ==
  /\ feed[f] # NoFeed /\ feed[f].kind = "blocks"
  /\ \E from, to \in Height :
       /\ from >= feed[f].start
       /\ feed' = [feed EXCEPT ![f].told = @ \cup (from .. to)]

Next == \E f \in Id : Install(f) \/ ReportLogs(f) \/ ReportBlocks(f)

Spec == Init /\ [][Next]_feed
=============================================================================
