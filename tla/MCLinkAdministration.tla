------------------------ MODULE MCLinkAdministration ------------------------
(* Instances of LinkAdministration for TLC, with a history of what a run met. *)
EXTENDS LinkRaces, MCLinkLimits

(* The bodies that differ in what they do to the expiry. *)
ExpiryBodies ==
  {[Empty EXCEPT !.neverExpire = "true"]}
    \cup {[Empty EXCEPT !.neverExpire = "false", !.expiresAt = at] : at \in Dates \cup {Undefined}}
    \cup {[Empty EXCEPT !.expiresAt = at] : at \in Expiries}

VARIABLE failed  \* whether a tick, or a request that expired the link, gave up before notifying

GivesUp ==
  \/ \E w \in Sweeps : SweepFails(w) /\ sweep[w] = "notify"
  \/ \E r \in Requests : Fail(r) /\ pc[r] = "expiredNotice"

HistoryInit == RaceInit /\ failed = FALSE

HistoryNext == RaceNext /\ failed' = (failed \/ GivesUp)

HistorySpec == HistoryInit /\ [][HistoryNext]_<<everything, overtaken, failed>>

FairHistorySpec == HistorySpec /\ Fairness

(* scheduler.ts:8-9, streaming.service.ts:154-155: whoever expires the link, the *)
(* sweep or a viewer, announces it, unless it fails between the two calls.       *)
AnnouncedUnlessFailed == status = "EXPIRED" ~> (notices["expired"] >= 1 \/ failed)
=============================================================================
