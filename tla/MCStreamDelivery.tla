-------------------------- MODULE MCStreamDelivery --------------------------
(* Instances of StreamDelivery for TLC, with a history of what went wrong. *)
EXTENDS StreamDelivery

VARIABLE disturbed   \* whether a page asked twice at a time, or a request failed

HistoryInit == Init /\ disturbed = FALSE

AsksTwice ==
  \E c, d \in Calls :
    c # d /\ call[c] # None /\ call[d] # None /\ call[c].page = call[d].page

HistoryNext ==
  /\ Next
  /\ disturbed' = (disturbed \/ AsksTwice' \/ \E c \in Calls : LoseAnswer(c) \/ Fail(c))

HistorySpec ==
  /\ HistoryInit /\ [][HistoryNext]_<<vars, disturbed>>
  /\ \A p \in Pages : WF_vars(Resolve(p) \/ ResolveFails(p))
  /\ \A c \in Calls : WF_vars(Handle(c)) /\ WF_vars(Receive(c) \/ LoseAnswer(c))

(* watch/[token]/page.tsx: a visit uses one view of the link, unless Enter is   *)
(* pressed again while a request is under way or a request fails after it was   *)
(* counted: then the page asks again, and another view is used.                 *)
OneViewPerVisit == ~disturbed => Cardinality(views) <= Cardinality(Pages)
=============================================================================
