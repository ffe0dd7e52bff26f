----------------------------- MODULE LinkAlerts -----------------------------
(***************************************************************************)
(* What an admin is told of a link whose limits he moves: the engine's     *)
(* alerts and notices under administration, with a history of what the     *)
(* requests have met.                                                      *)
(***************************************************************************)
EXTENDS LinkAdministration

VARIABLE met
  \* "overlap": two requests were in flight together; "failure": one failed;
  \* "reopened": a view was counted after the notice that no more are let in

Busy == {r \in Requests : pc[r] \notin Resting}

Meets(event) ==
  \/ event = "overlap" /\ Cardinality(Busy') > 1
  \/ event = "failure" /\ \E r \in Busy : pc'[r] = "failed"
  \/ event = "reopened" /\ lastThresholdFired = LimitReached /\ viewCount' # viewCount

AlertInit == LinkInit /\ met = {}

AlertNext ==
  /\ LinkNext
  /\ met' = met \cup {event \in {"overlap", "failure", "reopened"} : Meets(event)}

AlertSpec == AlertInit /\ [][AlertNext]_<<everything, met>>

(* evaluateViewThresholds: unless a request failed, no threshold that the count *)
(* has passed stays without its alert once all requests are answered, whatever  *)
(* marks they left on the link in which order and however its limit moved.      *)
NoThresholdMissed ==
  ("failure" \notin met /\ Busy = {}) =>
    \A t \in Thresholds : t <= viewCount => alerts[t] >= 1

(* As long as requests come one at a time, none fails and no view is counted    *)
(* after the limit notice, each alert and the limit notice are sent once, as    *)
(* notification.service.ts:85-89 and streaming.service.ts:185 say.  The notice  *)
(* puts -1 in the place of the mark and raising the limit leaves it there       *)
(* (link.service.ts:196), so the next view passes every threshold once more:    *)
(* the third exception is the code's, not the model's.                          *)
SentOnceSerially == met = {} => AlertSentOnce /\ LimitNotifiedOnce
=============================================================================
