------------------------------ MODULE Dispatch ------------------------------
(***************************************************************************)
(* What becomes of a view-threshold alert (backend/src/services/           *)
(* notification.service.ts): each counted view evaluates the rules in      *)
(* force, and each rule crossed is dispatched: a row is created, a mail    *)
(* sent, the row marked, three calls that fail one by one.  Meanwhile      *)
(* other views are evaluated and admins edit the rules.                    *)
(*                                                                         *)
(* AccessEnforcement counts an alert as sent when its row is created; what *)
(* happens to it from there is the matter of this module.                  *)
(***************************************************************************)
EXTENDS Integers, Sequences, FiniteSets, FiniteSetsExt, Functions

CONSTANTS
  Rules,        \* the view-threshold rules of the link, and the global ones
  Thresholds,
  Recipients,
  Evaluations,  \* slots for evaluations under way at the same time
  MaxViews,     \* bound: the views that are counted
  None          \* no rule, no evaluation, no recipient

ASSUME ThresholdAssumption ==
  Thresholds \subseteq Nat \ {0} /\ MaxViews \in Nat /\ IsFiniteSet(Rules)

VARIABLES
  fallback,  \* ALERT_DEFAULT_RECIPIENT, None if it is not set
  smtp,      \* whether SMTP is configured
  rule,      \* the rows of the rules
  views, mark,  \* of the link: viewCount and lastThresholdFired
  eval,      \* the evaluations under way
  notices,   \* the rows of notifications nobody works on any more
  failed     \* history: whether a query failed or the process stopped

env == <<fallback, smtp>>
vars == <<env, rule, views, mark, eval, notices, failed>>

RuleRows == [threshold : Thresholds, recipient : Recipients \cup {None}, enabled : BOOLEAN]
Alerts == [threshold : Thresholds, recipient : Recipients \cup {None}]

(* mailed is no column: it says whether the mail server took the mail.          *)
Notices ==
  [threshold : Thresholds, recipient : Recipients,
   status : {"PENDING", "SENT", "FAILED"}, mailed : BOOLEAN]

(* An evaluation: the row it was given, and what is left of its loop.           *)
Loops ==
  [count : Nat, was : Nat, todo : Seq(Alerts), highest : Nat,
   at : {"rules", "create", "mail", "sent", "failed", "mark"}, mailed : BOOLEAN]

ASSUME NoneAssumption == None \notin Recipients \cup RuleRows \cup Loops

TypeOK ==
  /\ fallback \in Recipients \cup {None} /\ smtp \in BOOLEAN
  /\ rule \in [Rules -> RuleRows \cup {None}]
  /\ views \in 0 .. MaxViews
  /\ mark \in 0 .. views
  /\ eval \in [Evaluations -> Loops \cup {None}]
  /\ \A e \in Evaluations : eval[e] # None =>
       eval[e].count \in 1 .. views /\ {eval[e].was, eval[e].highest} \subseteq 0 .. views
  /\ notices \subseteq Notices
  /\ failed \in BOOLEAN

Init ==
  /\ fallback \in Recipients \cup {None} /\ smtp \in BOOLEAN
  /\ rule \in [Rules -> RuleRows \cup {None}]
  /\ views = 0 /\ mark = 0
  /\ eval = [e \in Evaluations |-> None]
  /\ notices = {} /\ failed = FALSE

-----------------------------------------------------------------------------
(* The rules CRUD: one query each, so a row that is gone is an error.           *)

CreateRule(r, row) ==
  /\ rule[r] = None
  /\ rule' = [rule EXCEPT ![r] = row]
  /\ UNCHANGED <<env, views, mark, eval, notices, failed>>

UpdateRule(r, row) ==
  /\ rule[r] # None /\ row # rule[r]
  /\ rule' = [rule EXCEPT ![r] = row]
  /\ UNCHANGED <<env, views, mark, eval, notices, failed>>

DeleteRule(r) ==
  /\ rule[r] # None
  /\ rule' = [rule EXCEPT ![r] = None]
  /\ UNCHANGED <<env, views, mark, eval, notices, failed>>

-----------------------------------------------------------------------------
(* evaluateViewThresholds.                                                      *)

(* A view is counted, and the row that the increment returns is evaluated.      *)
IncrementViewCount(e) ==
  /\ eval[e] = None /\ views < MaxViews
  /\ views' = views + 1
  /\ eval' = [eval EXCEPT ![e] =
       [count |-> views', was |-> mark, todo |-> <<>>, highest |-> 0,
        at |-> "rules", mailed |-> FALSE]]
  /\ UNCHANGED <<env, rule, mark, notices, failed>>

InForce == {r \in Rules : rule[r] # None /\ rule[r].enabled}
With(t) == {r \in InForce : rule[r].threshold = t}

CrossedLate(e) == {r \in InForce : eval[e].was < rule[r].threshold /\ rule[r].threshold < eval[e].count}
Crossed(e) == {r \in InForce : eval[e].was < rule[r].threshold /\ rule[r].threshold <= eval[e].count}

ThresholdsOf(S) == {rule[r].threshold : r \in S}

(* The thresholds crossed, lowest first. *)
Sorted(S) ==
  {order \in [1 .. Cardinality(S) -> S] :
    /\ IsInjective(order)
    /\ \A i, j \in DOMAIN order : i < j => rule[order[i]].threshold <= rule[order[j]].threshold}

HighestFound(order) == Max(ThresholdsOf(InForce))
Highest(order) == rule[order[Len(order)]].threshold

(* The recipient is looked up by threshold: of two rules with the same threshold *)
(* the first that the query returned stands for both.                           *)
FindRules(e) ==
  /\ eval[e] # None /\ eval[e].at = "rules"
  /\ \/ Crossed(e) = {} /\ eval' = [eval EXCEPT ![e] = None]
     \/ /\ Crossed(e) # {}
        /\ \E order \in Sorted(Crossed(e)), first \in [ThresholdsOf(Crossed(e)) -> InForce] :
             /\ \A t \in DOMAIN first : first[t] \in With(t)
             /\ eval' = [eval EXCEPT
                  ![e].todo = [i \in DOMAIN order |->
                    LET t == rule[order[i]].threshold IN
                      [threshold |-> t, recipient |-> rule[first[t]].recipient]],
                  ![e].highest = Highest(order),
                  ![e].at = "create"]
  /\ UNCHANGED <<env, rule, views, mark, notices, failed>>

Goto(e, l) == eval' = [eval EXCEPT ![e].at = l]

(* The loop goes on with the next threshold, or leaves it for the mark.         *)
Continue(e) ==
  eval' = [eval EXCEPT ![e].todo = Tail(@), ![e].mailed = FALSE,
                       ![e].at = IF Len(eval[e].todo) = 1 THEN "mark" ELSE "create"]

RecordThreshold(e) ==
  /\ eval[e] # None /\ eval[e].at = "mark"
  /\ mark' = eval[e].highest
  /\ eval' = [eval EXCEPT ![e] = None]
  /\ UNCHANGED <<env, rule, views, notices, failed>>

-----------------------------------------------------------------------------
(* dispatch.                                                                    *)

Recipient(alert) == IF alert.recipient # None THEN alert.recipient ELSE fallback

(* The row of the alert at the head of the loop, as it is left.                 *)
Leave(e, status) ==
  LET alert == Head(eval[e].todo) IN
    notices' = notices \cup
      {[threshold |-> alert.threshold, recipient |-> Recipient(alert),
        status |-> status, mailed |-> eval[e].mailed]}

Create(e) ==
  /\ eval[e] # None /\ eval[e].at = "create"
  /\ IF Recipient(Head(eval[e].todo)) = None THEN Continue(e) ELSE Goto(e, "mail")
  /\ UNCHANGED <<env, rule, views, mark, notices, failed>>

(* Without SMTP the mail is only logged, which counts as sent. *)
Send(e) ==
  /\ eval[e] # None /\ eval[e].at = "mail"
  /\ eval' = [eval EXCEPT ![e].at = "sent", ![e].mailed = smtp]
  /\ UNCHANGED <<env, rule, views, mark, notices, failed>>

SendFails(e) ==
  /\ eval[e] # None /\ eval[e].at = "mail" /\ smtp
  /\ Goto(e, "failed")
  /\ UNCHANGED <<env, rule, views, mark, notices, failed>>

MarkSent(e) ==
  /\ eval[e] # None /\ eval[e].at = "sent"
  /\ Leave(e, "SENT") /\ Continue(e)
  /\ UNCHANGED <<env, rule, views, mark, failed>>

(* markSent is inside the try: if it fails, a mail that was sent is FAILED.     *)
MarkSentFails(e) ==
  /\ eval[e] # None /\ eval[e].at = "sent"
  /\ Goto(e, "failed") /\ failed' = TRUE
  /\ UNCHANGED <<env, rule, views, mark, notices>>

MarkAsSent(e) ==
  /\ eval[e] # None /\ eval[e].at = "failed"
  /\ Leave(e, "SENT") /\ Continue(e)
  /\ UNCHANGED <<env, rule, views, mark, failed>>

MarkFailed(e) ==
  /\ eval[e] # None /\ eval[e].at = "failed"
  /\ Leave(e, "FAILED") /\ Continue(e)
  /\ UNCHANGED <<env, rule, views, mark, failed>>

(* Any other query fails, markFailed among them, or the process stops: the rest *)
(* of the loop and the mark are skipped, and a row that exists stays PENDING.   *)
Abort(e) ==
  /\ eval[e] # None
  /\ IF eval[e].at \in {"mail", "sent", "failed"} THEN Leave(e, "PENDING") ELSE UNCHANGED notices
  /\ eval' = [eval EXCEPT ![e] = None] /\ failed' = TRUE
  /\ UNCHANGED <<env, rule, views, mark>>

-----------------------------------------------------------------------------
Administer ==
  \E r \in Rules :
    DeleteRule(r) \/ \E row \in RuleRows : CreateRule(r, row) \/ UpdateRule(r, row)

Deliver(e) ==
  Create(e) \/ Send(e) \/ SendFails(e) \/ MarkSent(e) \/ MarkSentFails(e) \/ MarkFailed(e)

Evaluate(e) == IncrementViewCount(e) \/ FindRules(e) \/ Deliver(e) \/ RecordThreshold(e) \/ Abort(e)

Next == Administer \/ \E e \in Evaluations : Evaluate(e)

Spec == Init /\ [][Next]_vars
=============================================================================
