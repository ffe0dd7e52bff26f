----------------------------- MODULE MCDispatch -----------------------------
(* Instances of Dispatch for TLC, with a history of edits. *)
EXTENDS Dispatch, TLC

CONSTANT MaxEdits   \* bound: the changes of the rules

Interchangeable == Permutations(Evaluations) \cup Permutations(Rules)

VARIABLES
  edits,    \* the changes of the rules so far
  steady,   \* the rules in force before the first view and unchanged since
  mute      \* the thresholds of the rules that were ever in force without a recipient

Mute == ThresholdsOf({r \in InForce : rule[r].recipient = None})

HistoryInit == Init /\ edits = 0 /\ steady = InForce /\ mute = Mute

HistoryNext ==
  /\ Next
  /\ edits' = IF rule' = rule THEN edits ELSE edits + 1
  /\ edits' <= MaxEdits
  /\ steady' = {r \in steady : rule'[r] = rule[r]}
  /\ mute' = mute \cup Mute'

HistorySpec == HistoryInit /\ [][HistoryNext]_<<vars, edits, steady, mute>>

(* notification.service.ts:75-82: SENT says that the mail server took the mail,   *)
(* unless none is configured.  That FAILED says it did not, and that no row      *)
(* stays PENDING, holds as long as no query fails.                               *)
StatusHonest ==
  \A n \in notices :
    /\ n.status = "SENT" => (n.mailed \/ ~smtp)
    /\ ~failed => (n.status # "PENDING" /\ (n.status = "FAILED" => ~n.mailed))

(* notification.service.ts:85-119: however evaluations overlap, mails fail and    *)
(* other rules are edited, no rule that was in force all the time is passed over  *)
(* once the views reach it: somebody is addressed, and its own recipient if no    *)
(* rule was edited and no other rule in force has the same threshold.            *)
(* The exception is lines 59-63 and 102-107: without ALERT_DEFAULT_RECIPIENT a    *)
(* rule that has no recipient drops its alert, and the alert of any other rule    *)
(* with the same threshold if it is found first.                                 *)
Settled == ~failed /\ \A e \in Evaluations : eval[e] = None

Addressed(r) == {n.recipient : n \in {m \in notices : m.threshold = rule[r].threshold}}
Alone(r) == edits = 0 /\ With(rule[r].threshold) = {r}
Heard(r) == fallback # None \/ rule[r].threshold \notin mute

RulesServed ==
  Settled => \A r \in steady : rule[r].threshold <= views =>
    /\ Heard(r) => Addressed(r) # {}
    /\ Alone(r) => Recipient(rule[r]) \in Addressed(r) \cup {None}
=============================================================================
