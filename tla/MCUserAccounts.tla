--------------------------- MODULE MCUserAccounts ---------------------------
(* Instances of UserAccounts for TLC, with a history of overlapping requests. *)
EXTENDS UserAccounts

Asks(kind, roles, states) == [kind : {kind}, role : roles, status : states]

(* What the users page asks for: one field at a time. *)
PageBodies ==
  Asks("create", {"SUPER_ADMIN"}, {Undefined})
    \cup Asks("update", {"READ_ONLY"}, {Undefined})
    \cup Asks("update", {Undefined}, {"ACTIVE", "SUSPENDED"})
    \cup Asks("remove", {Undefined}, {Undefined})
    \cup Asks("password", {Undefined}, {Undefined})

VARIABLE overlapped   \* whether two requests were ever in flight together

HistoryInit == Init /\ overlapped = FALSE

(* Bound: the boots and the requests that are under way at the same time.        *)
Booting == {p \in Processes : boot[p] \notin {Down, Up}}
InHand == {r \in Requests : request[r] # None}
Bounded ==
  /\ Cardinality(Booting) + Cardinality(InHand) <= 2
  /\ Booting = Processes => InHand = {}

HistoryNext ==
  /\ Next
  /\ Bounded'
  /\ overlapped' = (overlapped \/ Cardinality(InHand') > 1)

HistorySpec == HistoryInit /\ [][HistoryNext]_<<vars, overlapped>> /\ Booted

(* user.service.ts:59, 88: no check keeps the last administrator.  It is the     *)
(* page, which offers nobody his own row, that keeps one: without overlapping   *)
(* requests somebody is left who may manage users and can sign in.              *)
CanManage(u) ==
  role[u] = "SUPER_ADMIN" /\ status[u] = "ACTIVE" /\ u \in credential

ManagerLeftSerially == Serving /\ ~overlapped => \E u \in Users : CanManage(u)
=============================================================================
