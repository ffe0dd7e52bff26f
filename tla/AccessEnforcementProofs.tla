----------------------- MODULE AccessEnforcementProofs -----------------------
(* What holds of the access engine for every number of requests, viewers,       *)
(* session keys, limits and rules, first on its own and then while any number of *)
(* admins edit its link and any number of ticks of the sweep expire it.          *)
EXTENDS LinkRaces, LinkAlerts, FiniteSetTheorems, TLAPS

(* What a request knows at each point of the handler: the facts that TypeOK and *)
(* the order of the rows rest on.                                               *)
Holding ==
  \A r \in Requests :
    /\ pc[r] \in Checking \cup {"upsert"} => viewer[r] \in Viewers
    /\ pc[r] \in Checking => seen[r] \in LimitsRead
    /\ pc[r] = "log" => key[r] \in sessions \ viewLogs
    /\ pc[r] \in {"count"} \cup Reporting => key[r] \in viewLogs

(* Requests about to write a log hold different keys: each drew a fresh one.    *)
KeysDiffer ==
  \A q, r \in Requests :
    (q # r /\ pc[q] = "log" /\ pc[r] = "log") => key[q] # key[r]

RowsInv == TypeOK /\ Holding /\ KeysDiffer

LEMMA RowsInit == Init => RowsInv
  BY LimitsAssumption
  DEF Init, RowsInv, TypeOK, Holding, KeysDiffer, Thresholds, Expiries, Kinds, Several, Resting,
      Checking, Reporting

(* No step takes a row back or hands a key out twice: the rows keep their order *)
(* through every call of requestAccess and every failure between two of them.   *)
LEMMA RowsStep == RowsInv /\ [Next]_vars => RowsInv'
<1> SUFFICES ASSUME RowsInv, [Next]_vars PROVE RowsInv'
  OBVIOUS
<1> USE DEF RowsInv, TypeOK, Holding, KeysDiffer, Answer, Goto, link, limits, expiry, rows, mail, local,
            Resting, Checking, Recording, Reporting, Denying
<1>1. ASSUME NEW r \in Requests, ReadLink(r) PROVE RowsInv'
  <2>1. CASE Refuse(r)
    BY <2>1 DEF Refuse
  <2>2. ASSUME NEW v \in Viewers, NEW l \in {"expire", "security", "limitNotice"},
               Proceed(r, v, l), UNCHANGED seen
        PROVE  RowsInv'
    BY <2>2 DEF Proceed, Receive
  <2>3. ASSUME NEW v \in Viewers, Admit(r, v) PROVE RowsInv'
    <3>1. LimitsInForce \in LimitsRead
      BY DEF LimitsInForce, LimitsRead
    <3>2. QED
      BY <2>3, <3>1 DEF Admit, Proceed, Receive
  <2>4. QED
    BY <1>1, <2>1, <2>2, <2>3 DEF ReadLink, RefuseInactive, RefuseCredentials, RefuseSilently,
       FindOverdue, BlockAddress, HitViewLimit
<1>2. ASSUME NEW r \in Requests, Deny(r) PROVE RowsInv'
  <2> USE DEF Notify, Tally, Several, Kinds, Statuses
  <2>1. CASE ExpireLink(r)
    BY <2>1 DEF ExpireLink
  <2>2. CASE NotifyExpired(r)
    BY <2>2 DEF NotifyExpired
  <2>3. CASE NotifySecurity(r)
    BY <2>3 DEF NotifySecurity
  <2>4. CASE NotifyLimit(r)
    BY <2>4 DEF NotifyLimit
  <2>5. CASE MarkLimit(r)
    BY <2>5 DEF MarkLimit
  <2>6. QED
    BY <1>2, <2>1, <2>2, <2>3, <2>4, <2>5 DEF Deny
<1>3. ASSUME NEW r \in Requests, Check(r) PROVE RowsInv'
  <2>1. CASE FindDevice(r)
    BY <2>1 DEF FindDevice
  <2>2. CASE CountDevices(r)
    BY <2>2 DEF CountDevices, DenyIf
  <2>3. CASE CountSessions(r)
    BY <2>3 DEF CountSessions, DenyIf
  <2>4. CASE CountWatching(r)
    BY <2>4 DEF CountWatching
  <2>5. QED
    BY <1>3, <2>1, <2>2, <2>3, <2>4 DEF Check
<1>4. ASSUME NEW r \in Requests, Record(r) PROVE RowsInv'
  <2>1. CASE UpsertDevice(r)
    BY <2>1 DEF UpsertDevice
  <2>2. CASE CreateSession(r)
    BY <2>2 DEF CreateSession
  <2>3. CASE CreateViewLog(r)
    BY <2>3 DEF CreateViewLog
  <2>4. CASE IncrementViewCount(r)
    BY <2>4 DEF IncrementViewCount, Crossed
  <2>5. QED
    BY <1>4, <2>1, <2>2, <2>3, <2>4 DEF Record
<1>5. ASSUME NEW r \in Requests, Report(r) PROVE RowsInv'
  <2>1. CASE FireAlert(r)
    BY <2>1 DEF FireAlert, Tally, Several, Thresholds
  <2>2. CASE RecordThreshold(r)
    BY <2>2 DEF RecordThreshold, Thresholds
  <2>3. CASE IssueGrant(r)
    BY <2>3 DEF IssueGrant
  <2>4. QED
    BY <1>5, <2>1, <2>2, <2>3 DEF Report
<1>6. ASSUME NEW r \in Requests, Fail(r) PROVE RowsInv'
  BY <1>6 DEF Fail
<1>7. ASSUME NEW s \in SessionKeys, Watch(s) PROVE RowsInv'
  BY <1>7 DEF Watch, Heartbeat, EndSession, Lapse
<1>8. CASE PassExpiry
  BY <1>8 DEF PassExpiry, Expiries
<1>9. CASE UNCHANGED vars
  BY <1>9 DEF vars
<1>10. QED
  BY <1>1, <1>2, <1>3, <1>4, <1>5, <1>6, <1>7, <1>8, <1>9 DEF Next, Handle

(* Every state of the engine is well formed, and each request holds what its    *)
(* next call needs.                                                             *)
THEOREM RowsCorrect == Spec => []RowsInv
  BY RowsInit, RowsStep, PTL DEF Spec

(* In particular the types: a log belongs to a session of the link and a grant  *)
(* to a logged view.                                                            *)
THEOREM TypesCorrect == Spec => []TypeOK
<1>1. RowsInv => TypeOK
  BY DEF RowsInv
<1>2. QED
  BY <1>1, RowsCorrect, PTL

-----------------------------------------------------------------------------
(* Alerts: what a request still has to send is all that separates the mark it   *)
(* will write from the alerts already dispatched.                               *)
Sent(t) == alerts[t] >= 1

AlertsInOrder ==
  \A r \in Requests : \A i \in DOMAIN Rules, j \in todo[r] :
    /\ (pc[r] = "alert" /\ i \notin todo[r] /\ Rules[i] <= Rules[j]) => Sent(Rules[i])
    /\ (pc[r] = "record" /\ Rules[i] <= Rules[j]) => Sent(Rules[i])

AlertsInv == RowsInv /\ MarkedMeansSent /\ AlertsInOrder

LEMMA AlertsInit == Init => AlertsInv
<1>1. ASSUME Init, NEW t \in Thresholds PROVE ~(t <= lastThresholdFired)
  BY <1>1, RulesAssumption DEF Init, Thresholds
<1>2. QED
  BY <1>1, RowsInit DEF Init, AlertsInv, MarkedMeansSent, AlertsInOrder

(* A tally never falls, so an alert that was sent stays sent. *)
LEMMA SentStays ==
  ASSUME RowsInv, [Next]_vars, NEW t \in Thresholds, Sent(t)
  PROVE  Sent(t)'
<1> USE DEF Sent, RowsInv, TypeOK
<1>1. ASSUME NEW r \in Requests, FireAlert(r) PROVE Sent(t)'
  <2>1. PICK i \in todo[r] : alerts' = [alerts EXCEPT ![Rules[i]] = Tally(@)]
    BY <1>1 DEF FireAlert
  <2>2. alerts'[t] \in {alerts[t], Tally(alerts[t])}
    BY <2>1
  <2>3. alerts[t] \in 0 .. Several
    OBVIOUS
  <2>4. QED
    BY <2>2, <2>3 DEF Tally, Several
<1>2. ASSUME UNCHANGED alerts PROVE Sent(t)'
  BY <1>2
<1>3. QED
  BY <1>1, <1>2 DEF Next, vars, mail, Handle, ReadLink, RefuseInactive, RefuseCredentials,
     RefuseSilently, Refuse, FindOverdue, BlockAddress, HitViewLimit, Admit, Proceed, Deny,
     ExpireLink, NotifyExpired, NotifySecurity, NotifyLimit, MarkLimit, Notify, Check,
     FindDevice, CountDevices, CountSessions, CountWatching, Record, UpsertDevice,
     CreateSession, CreateViewLog, IncrementViewCount, Report, RecordThreshold, IssueGrant,
     Fail, Watch, Heartbeat, EndSession, Lapse, PassExpiry

(* A step that neither sends nor marks, and leaves the other requests alone. *)
LEMMA AlertsUndisturbed ==
  ASSUME AlertsInv, [Next]_vars, lastThresholdFired' \in {lastThresholdFired, LimitReached},
         \A q \in Requests :
           (pc'[q] = pc[q] /\ todo'[q] = todo[q]) \/ pc'[q] \notin {"alert", "record"}
  PROVE  AlertsInv'
<1>1. \A t \in Thresholds : Sent(t) => Sent(t)'
  BY SentStays DEF AlertsInv
<1>2. RowsInv'
  BY RowsStep DEF AlertsInv
<1>3. \A t \in Thresholds : ~(t <= LimitReached)
  BY RulesAssumption DEF Thresholds, LimitReached
<1>4. MarkedMeansSent'
  BY <1>1, <1>3 DEF AlertsInv, MarkedMeansSent, Sent
<1>5. AlertsInOrder'
  BY <1>1 DEF AlertsInv, AlertsInOrder, Thresholds
<1>6. QED
  BY <1>2, <1>4, <1>5 DEF AlertsInv

LEMMA AlertsStep == AlertsInv /\ [Next]_vars => AlertsInv'
<1> SUFFICES ASSUME AlertsInv, [Next]_vars PROVE AlertsInv'
  OBVIOUS
<1> USE DEF AlertsInv, RowsInv, TypeOK
<1>1. RowsInv'
  BY RowsStep
<1>2. \A t \in Thresholds : Sent(t) => Sent(t)'
  BY SentStays
<1>3. \A i \in DOMAIN Rules : Rules[i] \in Nat \ {0} /\ Rules[i] \in Thresholds
  BY RulesAssumption DEF Thresholds
<1>4. ASSUME NEW r \in Requests, IncrementViewCount(r) PROVE AlertsInv'
  <2> USE <1>4 DEF IncrementViewCount, Goto
  <2>1. MarkedMeansSent'
    BY <1>2 DEF MarkedMeansSent, Sent
  <2>2. ASSUME NEW i \in DOMAIN Rules \ Crossed, NEW j \in Crossed, Rules[i] <= Rules[j]
        PROVE  Sent(Rules[i])'
    <3>1. Rules[i] <= lastThresholdFired
      BY <1>3, <2>2, LimitsAssumption DEF Crossed, LimitReached, Thresholds
    <3>2. QED
      BY <1>2, <1>3, <3>1 DEF MarkedMeansSent, Sent
  <2>3. AlertsInOrder'
    BY <1>2, <1>3, <2>2 DEF AlertsInOrder
  <2>4. QED
    BY <1>1, <2>1, <2>3
<1>5. ASSUME NEW r \in Requests, FireAlert(r) PROVE AlertsInv'
  <2> USE <1>5 DEF Goto
  <2>1. PICK i \in todo[r] :
          /\ alerts' = [alerts EXCEPT ![Rules[i]] = Tally(@)]
          /\ IF todo[r] = {i}
               THEN Goto(r, "record") /\ UNCHANGED todo
               ELSE UNCHANGED pc /\ todo' = [todo EXCEPT ![r] = @ \ {i}]
    BY DEF FireAlert
  <2>2. pc[r] = "alert" /\ lastThresholdFired' = lastThresholdFired
    BY DEF FireAlert, link, limits
  <2>3. i \in DOMAIN Rules /\ alerts[Rules[i]] \in 0 .. Several
    BY <1>3
  <2>4. Sent(Rules[i])'
    BY <1>3, <2>1, <2>3 DEF Sent, Tally, Several
  <2>5. MarkedMeansSent'
    BY <1>2, <2>2 DEF MarkedMeansSent, Sent
  <2>6. AlertsInOrder'
    <3>1. CASE todo[r] = {i}
      BY <1>2, <1>3, <2>1, <2>2, <2>4, <3>1 DEF AlertsInOrder
    <3>2. CASE todo[r] # {i}
      BY <1>2, <1>3, <2>1, <2>2, <2>4, <3>2 DEF AlertsInOrder
    <3>3. QED
      BY <3>1, <3>2
  <2>7. QED
    BY <1>1, <2>5, <2>6
<1>6. ASSUME NEW r \in Requests, RecordThreshold(r) PROVE AlertsInv'
  <2> USE <1>6 DEF RecordThreshold, Goto
  <2>1. PICK j \in todo[r] : lastThresholdFired' = Rules[j]
    OBVIOUS
  <2>2. ASSUME NEW t \in Thresholds, t <= lastThresholdFired' PROVE Sent(t)'
    <3>1. PICK i \in DOMAIN Rules : t = Rules[i]
      BY DEF Thresholds
    <3>2. QED
      BY <1>2, <2>1, <2>2, <3>1 DEF AlertsInOrder
  <2>3. MarkedMeansSent'
    BY <2>2 DEF MarkedMeansSent, Sent
  <2>4. AlertsInOrder'
    BY <1>2, <1>3 DEF AlertsInOrder
  <2>5. QED
    BY <1>1, <2>3, <2>4
<1>7. ASSUME NEW r \in Requests, Handle(r),
             ~IncrementViewCount(r), ~FireAlert(r), ~RecordThreshold(r)
      PROVE  AlertsInv'
  <2> DEFINE Undisturbed ==
               /\ lastThresholdFired' \in {lastThresholdFired, LimitReached}
               /\ \A q \in Requests :
                    \/ pc'[q] = pc[q] /\ todo'[q] = todo[q]
                    \/ pc'[q] \notin {"alert", "record"}
  <2> USE DEF Goto, Answer, link, limits, local
  <2>1. ASSUME ReadLink(r) PROVE Undisturbed
    BY <2>1 DEF ReadLink, RefuseInactive, RefuseCredentials, RefuseSilently, Refuse, FindOverdue,
       BlockAddress, HitViewLimit, Admit, Proceed
  <2>2. ASSUME Deny(r) PROVE Undisturbed
    BY <2>2 DEF Deny, ExpireLink, NotifyExpired, NotifySecurity, NotifyLimit, MarkLimit
  <2>3. ASSUME Check(r) PROVE Undisturbed
    BY <2>3 DEF Check, FindDevice, CountDevices, CountSessions, CountWatching, DenyIf
  <2>4. ASSUME UpsertDevice(r) \/ CreateSession(r) \/ CreateViewLog(r) PROVE Undisturbed
    BY <2>4 DEF UpsertDevice, CreateSession, CreateViewLog
  <2>5. ASSUME IssueGrant(r) \/ Fail(r) PROVE Undisturbed
    BY <2>5 DEF IssueGrant, Fail
  <2>6. Undisturbed
    BY <1>7, <2>1, <2>2, <2>3, <2>4, <2>5 DEF Handle, Record, Report
  <2>7. QED
    BY <2>6, AlertsUndisturbed
<1>8. ASSUME UNCHANGED <<lastThresholdFired, pc, todo>> PROVE AlertsInv'
  BY <1>8, AlertsUndisturbed
<1>9. QED
  BY <1>4, <1>5, <1>6, <1>7, <1>8 DEF Next, Watch, Heartbeat, EndSession, Lapse, PassExpiry,
     link, limits, local, vars

(* evaluateViewThresholds: whatever requests interleave or fail half-way, the    *)
(* mark on the link never covers a threshold whose alert was not dispatched.    *)
THEOREM MarksFollowAlerts == Spec => []MarkedMeansSent
<1>1. AlertsInv => MarkedMeansSent
  BY DEF AlertsInv
<1>2. QED
  BY <1>1, AlertsInit, AlertsStep, PTL DEF Spec

-----------------------------------------------------------------------------
(* Why no threshold is missed as long as no request fails: one that the count     *)
(* has passed is sent, or the request that counted has still to send it.         *)
NoneForgotten ==
  \A i \in DOMAIN Rules : Rules[i] <= viewCount =>
    Sent(Rules[i]) \/ \E r \in Requests : pc[r] = "alert" /\ i \in todo[r]


LEMMA SentOfRules ==
  ASSUME RowsInv, [Next]_vars
  PROVE  \A t \in Thresholds : t \in Nat \ {0} /\ (Sent(t) => Sent(t)')
<1>1. \A t \in Thresholds : t \in Nat \ {0}
  BY RulesAssumption DEF Thresholds
<1>2. QED
  BY <1>1, SentStays

LEMMA RuleThresholds ==
  \A i \in DOMAIN Rules : Rules[i] \in Thresholds /\ Rules[i] \in Nat \ {0} /\ i \in Nat
  BY RulesAssumption DEF Thresholds

LEMMA ForgottenInit == Init => NoneForgotten
  BY RuleThresholds DEF Init, NoneForgotten

LEMMA ForgottenStep ==
  ASSUME AlertsInv, NoneForgotten, [Next]_vars, \A r \in Requests : ~Fail(r)
  PROVE  NoneForgotten'
<1>1. RowsInv /\ TypeOK /\ \A i \in DOMAIN Rules : Sent(Rules[i]) => Sent(Rules[i])'
  BY SentOfRules, RuleThresholds DEF AlertsInv, RowsInv
<1>2. ASSUME NEW r \in Requests, IncrementViewCount(r) PROVE NoneForgotten'
  <2>1. /\ viewCount' = viewCount + 1 /\ pc[r] = "count" /\ viewCount \in Nat
        /\ lastThresholdFired \in {LimitReached, 0} \cup Thresholds
        /\ pc' = [pc EXCEPT ![r] = IF Crossed = {} THEN "grant" ELSE "alert"]
        /\ todo' = [todo EXCEPT ![r] = Crossed]
    BY <1>1, <1>2 DEF IncrementViewCount, Goto, TypeOK
  <2> SUFFICES ASSUME NEW i \in DOMAIN Rules, Rules[i] <= viewCount', ~Sent(Rules[i])'
               PROVE  \E q \in Requests : pc'[q] = "alert" /\ i \in todo'[q]
    BY DEF NoneForgotten
  <2>2. Rules[i] \in Thresholds /\ ~Sent(Rules[i])
    BY <1>1, RuleThresholds
  <2>3. CASE Rules[i] <= viewCount
    <3>1. PICK q \in Requests : pc[q] = "alert" /\ i \in todo[q]
      BY <2>2, <2>3 DEF NoneForgotten
    <3>2. q # r
      BY <2>1, <3>1
    <3>3. pc'[q] = "alert" /\ i \in todo'[q]
      BY <1>1, <2>1, <3>1, <3>2 DEF TypeOK
    <3>4. QED
      BY <3>3
  <2>4. CASE ~(Rules[i] <= viewCount)
    <3>1. ~(Rules[i] <= lastThresholdFired)
      BY <2>2 DEF AlertsInv, MarkedMeansSent, Sent
    <3>2. Rules[i] > lastThresholdFired
      BY <2>1, <3>1, RuleThresholds DEF LimitReached, Thresholds
    <3>3. i \in Crossed
      BY <2>1, <3>2 DEF Crossed
    <3>4. pc'[r] = "alert" /\ i \in todo'[r]
      BY <1>1, <2>1, <3>3 DEF TypeOK
    <3>5. QED
      BY <3>4
  <2>5. QED
    BY <2>3, <2>4
<1>3. ASSUME NEW r \in Requests, FireAlert(r) PROVE NoneForgotten'
  <2>1. PICK i \in todo[r] :
          /\ alerts' = [alerts EXCEPT ![Rules[i]] = Tally(@)]
          /\ IF todo[r] = {i}
               THEN Goto(r, "record") /\ UNCHANGED todo
               ELSE UNCHANGED pc /\ todo' = [todo EXCEPT ![r] = @ \ {i}]
    BY <1>3 DEF FireAlert
  <2>2. viewCount' = viewCount
    BY <1>3 DEF FireAlert, link, limits
  <2>3. i \in DOMAIN Rules /\ alerts[Rules[i]] \in 0 .. Several
    BY <1>1, RuleThresholds DEF TypeOK
  <2>4. Sent(Rules[i])'
    BY <1>1, <2>1, <2>3, RuleThresholds DEF Sent, Tally, Several, TypeOK
  <2> SUFFICES ASSUME NEW k \in DOMAIN Rules, Rules[k] <= viewCount, ~Sent(Rules[k])'
               PROVE  \E q \in Requests : pc'[q] = "alert" /\ k \in todo'[q]
    BY <2>2 DEF NoneForgotten
  <2>5. PICK q \in Requests : pc[q] = "alert" /\ k \in todo[q]
    BY <1>1 DEF NoneForgotten
  <2>6. k # i
    BY <2>4
  <2>7. pc'[q] = "alert" /\ k \in todo'[q]
    BY <1>1, <2>1, <2>5, <2>6 DEF TypeOK, Goto
  <2>8. QED
    BY <2>7
<1> DEFINE Waits == /\ viewCount' = viewCount
                    /\ \A q \in Requests : pc[q] = "alert" => pc'[q] = "alert" /\ todo'[q] = todo[q]
<1>4. ASSUME Waits PROVE NoneForgotten'
  <2> SUFFICES ASSUME NEW i \in DOMAIN Rules, Rules[i] <= viewCount, ~Sent(Rules[i])'
               PROVE  \E q \in Requests : pc'[q] = "alert" /\ i \in todo'[q]
    BY <1>4 DEF NoneForgotten
  <2>1. PICK q \in Requests : pc[q] = "alert" /\ i \in todo[q]
    BY <1>1 DEF NoneForgotten
  <2>2. QED
    BY <1>4, <2>1
<1>5. ASSUME NEW r \in Requests, Handle(r), ~IncrementViewCount(r), ~FireAlert(r) PROVE Waits
  <2> USE DEF TypeOK, Goto, Answer, link, limits, local, Resting
  <2>1. ASSUME ReadLink(r) PROVE Waits
    BY <1>1, <2>1 DEF ReadLink, RefuseInactive, RefuseCredentials, RefuseSilently, Refuse, FindOverdue,
       BlockAddress, HitViewLimit, Admit, Proceed, Receive
  <2>2. ASSUME Deny(r) PROVE Waits
    BY <1>1, <2>2 DEF Deny, ExpireLink, NotifyExpired, NotifySecurity, NotifyLimit, MarkLimit
  <2>3. ASSUME Check(r) PROVE Waits
    BY <1>1, <2>3 DEF Check, FindDevice, CountDevices, CountSessions, CountWatching, DenyIf
  <2>4. ASSUME UpsertDevice(r) \/ CreateSession(r) \/ CreateViewLog(r) PROVE Waits
    BY <1>1, <2>4 DEF UpsertDevice, CreateSession, CreateViewLog
  <2>5. ASSUME RecordThreshold(r) \/ IssueGrant(r) PROVE Waits
    BY <1>1, <2>5 DEF RecordThreshold, IssueGrant
  <2>6. QED
    BY <1>5, <2>1, <2>2, <2>3, <2>4, <2>5 DEF Handle, Record, Report
<1>6. ASSUME UNCHANGED <<viewCount, pc, todo>> PROVE Waits
  BY <1>6
<1>7. QED
  BY <1>2, <1>3, <1>4, <1>5, <1>6 DEF Next, Watch, Heartbeat, EndSession, Lapse, PassExpiry,
     link, limits, local, vars

-----------------------------------------------------------------------------
(* Why one request at a time sends nothing twice: its own steps see the mark that *)
(* covers all that was sent before, unless the limit notice has replaced it, and  *)
(* then no view is counted any more.                                            *)
OneAtATime ==
  \A q, r \in Requests : pc[q] \notin Resting /\ pc[r] \notin Resting => q = r

SilencedAtRest ==
  lastThresholdFired = LimitReached =>
    \A r \in Requests : pc[r] \notin {"alert", "record", "limitNotice", "limitMark"}

NoticeOnce ==
  /\ notices["limit"] < Several
  /\ notices["limit"] >= 1 =>
       lastThresholdFired = LimitReached \/ \E r \in Requests : pc[r] = "limitMark"

SentIsMarked ==
  (\A r \in Requests : pc[r] \notin {"alert", "record"}) =>
    \A t \in Thresholds : Sent(t) => t <= lastThresholdFired \/ lastThresholdFired = LimitReached

AlertsOnce ==
  /\ \A t \in Thresholds : alerts[t] < Several
  /\ \A r \in Requests : pc[r] \in {"alert", "record"} => \A j \in todo[r] :
       /\ \A t \in Thresholds : Sent(t) => t <= Rules[j]
       /\ pc[r] = "alert" => ~Sent(Rules[j])

SerialInv == OneAtATime /\ SilencedAtRest /\ NoticeOnce /\ SentIsMarked /\ AlertsOnce

(* The rules' thresholds differ: of two rules with one threshold both are sent.  *)
RulesDiffer == \A i, j \in DOMAIN Rules : Rules[i] = Rules[j] => i = j

LEMMA SerialInit == Init => SerialInv
<1> SUFFICES ASSUME Init PROVE SerialInv
  OBVIOUS
<1>1. OneAtATime /\ AlertsOnce
  BY DEF Init, OneAtATime, AlertsOnce, Resting, Several
<1>2. SilencedAtRest
  BY DEF Init, SilencedAtRest, LimitReached
<1>3. NoticeOnce
  BY DEF Init, NoticeOnce, Kinds, Several
<1>4. SentIsMarked
  BY DEF Init, SentIsMarked, Sent
<1>5. QED
  BY <1>1, <1>2, <1>3, <1>4 DEF SerialInv

(* A step of a request that neither sends, counts nor marks.                     *)
Quietly(r) ==
  /\ UNCHANGED <<viewCount, lastThresholdFired, alerts>> /\ notices'["limit"] = notices["limit"]
  /\ pc[r] \notin {"limitMark", "alert", "record"}
  /\ pc'[r] \notin {"limitMark", "alert", "record"}
  /\ pc'[r] = "limitNotice" => LimitUnnoticed
  /\ \A q \in Requests \ {r} : pc'[q] = pc[q] /\ todo'[q] = todo[q]

LEMMA QuietStep ==
  ASSUME SerialInv, OneAtATime', NEW r \in Requests, Quietly(r)
  PROVE  SerialInv'
<1> USE DEF SerialInv, Quietly
<1>1. SilencedAtRest'
  BY DEF SilencedAtRest, LimitUnnoticed
<1>2. NoticeOnce'
  BY DEF NoticeOnce
<1>3. SentIsMarked'
  <2> SUFFICES ASSUME \A q \in Requests : pc'[q] \notin {"alert", "record"}
               PROVE  \A t \in Thresholds : Sent(t) => t <= lastThresholdFired \/ lastThresholdFired = LimitReached
    BY DEF SentIsMarked, Sent
  <2>1. \A q \in Requests : pc[q] \notin {"alert", "record"}
    OBVIOUS
  <2>2. QED
    BY <2>1 DEF SentIsMarked
<1>4. AlertsOnce'
  BY DEF AlertsOnce, Sent
<1>5. QED
  BY <1>1, <1>2, <1>3, <1>4

LEMMA QuietHandlers ==
  ASSUME TypeOK, NEW r \in Requests, Handle(r), ~Fail(r), ~NotifyLimit(r), ~MarkLimit(r),
         ~IncrementViewCount(r), ~FireAlert(r), ~RecordThreshold(r)
  PROVE  Quietly(r)
<1> USE DEF Quietly, TypeOK, Goto, Answer, link, limits, expiry, local, mail, Resting, Checking, Recording
<1>1. ASSUME Refuse(r) PROVE Quietly(r)
  BY <1>1 DEF Refuse
<1>2. ASSUME NEW v \in Viewers, FindOverdue(r, v) \/ BlockAddress(r, v) PROVE Quietly(r)
  BY <1>2 DEF FindOverdue, BlockAddress, Proceed, Receive
<1>3. ASSUME NEW v \in Viewers, HitViewLimit(r, v) \/ Admit(r, v) PROVE Quietly(r)
  BY <1>3 DEF HitViewLimit, Admit, Proceed, Receive
<1>4. ASSUME ExpireLink(r) \/ NotifyExpired(r) \/ NotifySecurity(r) PROVE Quietly(r)
  BY <1>4 DEF ExpireLink, NotifyExpired, NotifySecurity, Notify, Kinds
<1>5. ASSUME Check(r) PROVE Quietly(r)
  BY <1>5 DEF Check, FindDevice, CountDevices, CountSessions, CountWatching, DenyIf
<1>6. ASSUME UpsertDevice(r) \/ CreateSession(r) \/ CreateViewLog(r) \/ IssueGrant(r) PROVE Quietly(r)
  BY <1>6 DEF UpsertDevice, CreateSession, CreateViewLog, IssueGrant
<1>7. QED
  BY <1>1, <1>2, <1>3, <1>4, <1>5, <1>6 DEF Handle, ReadLink, RefuseInactive, RefuseCredentials,
     RefuseSilently, Deny, Record, Report

LEMMA NotifyOnce ==
  ASSUME RowsInv, SerialInv, OneAtATime', NEW r \in Requests, NotifyLimit(r) \/ MarkLimit(r)
  PROVE  SerialInv'
<1> USE DEF SerialInv
<1>1. TypeOK /\ UNCHANGED <<viewCount, alerts>>
  BY DEF RowsInv, NotifyLimit, MarkLimit, Notify, link, limits, mail
<1>2. pc[r] \in {"limitNotice", "limitMark"} /\ \A q \in Requests \ {r} : pc[q] \in Resting
  BY DEF NotifyLimit, MarkLimit, OneAtATime, Resting
<1>3. lastThresholdFired # LimitReached
  BY <1>2 DEF SilencedAtRest
<1>4. PICK l \in {"limitMark", "denied"} : pc' = [pc EXCEPT ![r] = l]
  BY DEF NotifyLimit, MarkLimit, Goto, Answer
<1>5. /\ pc'[r] \in {"limitMark", "denied"} /\ \A q \in Requests \ {r} : pc'[q] = pc[q]
  BY <1>1, <1>4 DEF TypeOK
<1>6. \A q \in Requests : {pc[q], pc'[q]} \cap {"alert", "record"} = {}
  BY <1>2, <1>5 DEF Resting
<1>7. SentIsMarked'
  <2>1. lastThresholdFired' \in {lastThresholdFired, LimitReached}
    BY DEF NotifyLimit, MarkLimit, link, limits
  <2>2. QED
    BY <1>1, <1>6, <2>1 DEF SentIsMarked, Sent
<1>8. AlertsOnce'
  BY <1>1, <1>6 DEF AlertsOnce
<1>9. CASE NotifyLimit(r)
  <2>1. pc[r] = "limitNotice" /\ lastThresholdFired' = lastThresholdFired /\ pc'[r] = "limitMark"
    BY <1>1, <1>9 DEF NotifyLimit, Goto, link, limits, TypeOK
  <2>2. ~(notices["limit"] >= 1)
    BY <1>2, <1>3, <2>1 DEF NoticeOnce, Resting
  <2>3. notices["limit"] \in 0 .. Several /\ notices'["limit"] = Tally(notices["limit"])
    BY <1>1, <1>9 DEF NotifyLimit, Notify, TypeOK, Kinds
  <2>4. notices'["limit"] = 1
    BY <2>2, <2>3 DEF Tally, Several
  <2>5. NoticeOnce'
    BY <2>1, <2>4 DEF NoticeOnce, Several
  <2>6. SilencedAtRest'
    BY <1>3, <2>1 DEF SilencedAtRest
  <2>7. QED
    BY <1>7, <1>8, <2>5, <2>6
<1>10. CASE MarkLimit(r)
  <2>1. lastThresholdFired' = LimitReached /\ pc'[r] = "denied" /\ notices' = notices
    BY <1>1, <1>10 DEF MarkLimit, Answer, Goto, mail, TypeOK
  <2>2. NoticeOnce'
    BY <2>1 DEF NoticeOnce
  <2>3. SilencedAtRest'
    BY <1>2, <1>5, <2>1 DEF SilencedAtRest, Resting
  <2>4. QED
    BY <1>7, <1>8, <2>2, <2>3
<1>11. QED
  BY <1>9, <1>10

LEMMA CountOnce ==
  ASSUME RowsInv, SerialInv, OneAtATime', lastThresholdFired # LimitReached,
         NEW r \in Requests, IncrementViewCount(r)
  PROVE  SerialInv'
<1> USE DEF SerialInv
<1>1. /\ TypeOK /\ UNCHANGED <<lastThresholdFired, alerts, notices>> /\ pc[r] = "count"
      /\ todo' = [todo EXCEPT ![r] = Crossed]
      /\ pc' = [pc EXCEPT ![r] = IF Crossed = {} THEN "grant" ELSE "alert"]
  BY DEF RowsInv, IncrementViewCount, Goto, mail
<1>2. \A q \in Requests \ {r} : pc[q] \in Resting
  BY <1>1 DEF OneAtATime, Resting
<1>3. lastThresholdFired # LimitReached
  OBVIOUS
<1>4. /\ pc'[r] \in {"grant", "alert"} /\ todo'[r] = Crossed
      /\ \A q \in Requests \ {r} : pc'[q] \in Resting
  BY <1>1, <1>2 DEF TypeOK
<1>5. SilencedAtRest'
  BY <1>1, <1>3 DEF SilencedAtRest
<1>6. NoticeOnce'
  BY <1>1, <1>2, <1>3 DEF NoticeOnce, Resting
<1>7. \A t \in Thresholds : Sent(t) => t <= lastThresholdFired
  BY <1>1, <1>2, <1>3 DEF SentIsMarked, Resting
<1>8. SentIsMarked'
  BY <1>1, <1>7 DEF SentIsMarked, Sent
<1>9. AlertsOnce'
  <2>1. ASSUME NEW j \in Crossed
        PROVE  /\ \A t \in Thresholds : Sent(t) => t <= Rules[j]
               /\ ~Sent(Rules[j])
    <3>1. Rules[j] > lastThresholdFired /\ Rules[j] \in Nat /\ Rules[j] \in Thresholds
      BY RuleThresholds DEF Crossed
    <3>2. lastThresholdFired \in Int /\ \A t \in Thresholds : t \in Nat
      BY <1>1, RulesAssumption DEF TypeOK, LimitReached, Thresholds
    <3>3. \A t \in Thresholds : Sent(t) => t <= Rules[j]
      BY <1>7, <3>1, <3>2
    <3>4. ~Sent(Rules[j])
      BY <1>7, <3>1, <3>2
    <3>5. QED
      BY <3>3, <3>4
  <2>2. \A t \in Thresholds : alerts'[t] < Several
    BY <1>1 DEF AlertsOnce
  <2>3. ASSUME NEW q \in Requests, pc'[q] \in {"alert", "record"}, NEW j \in todo'[q]
        PROVE  /\ \A t \in Thresholds : Sent(t)' => t <= Rules[j]
               /\ pc'[q] = "alert" => ~Sent(Rules[j])'
    BY <1>1, <1>4, <2>1, <2>3 DEF Resting, Sent
  <2>4. QED
    BY <2>2, <2>3 DEF AlertsOnce
<1>10. QED
  BY <1>5, <1>6, <1>8, <1>9

LEMMA FireOnce ==
  ASSUME RulesDiffer, RowsInv, SerialInv, OneAtATime', NEW r \in Requests, FireAlert(r)
  PROVE  SerialInv'
<1> USE DEF SerialInv
<1>1. TypeOK /\ UNCHANGED <<viewCount, lastThresholdFired, notices>> /\ pc[r] = "alert"
  BY DEF RowsInv, FireAlert, link, limits
<1>2. PICK i \in todo[r] :
        /\ \A j \in todo[r] : i <= j
        /\ alerts' = [alerts EXCEPT ![Rules[i]] = Tally(@)]
        /\ IF todo[r] = {i}
             THEN Goto(r, "record") /\ UNCHANGED todo
             ELSE UNCHANGED pc /\ todo' = [todo EXCEPT ![r] = @ \ {i}]
  BY DEF FireAlert
<1>3. /\ \A q \in Requests \ {r} : pc[q] \in Resting /\ pc'[q] = pc[q]
      /\ pc'[r] \in {"alert", "record"}
      /\ pc'[r] = "record" => todo'[r] = {i}
      /\ pc'[r] = "alert" => todo'[r] = todo[r] \ {i}
      /\ todo'[r] \subseteq todo[r]
  <2>1. \A q \in Requests \ {r} : pc[q] \in Resting
    BY <1>1 DEF OneAtATime, Resting
  <2>2. CASE todo[r] = {i}
    <3>1. pc' = [pc EXCEPT ![r] = "record"] /\ todo' = todo
      BY <1>2, <2>2 DEF Goto
    <3>2. QED
      BY <1>1, <2>1, <2>2, <3>1 DEF TypeOK
  <2>3. CASE todo[r] # {i}
    <3>1. pc' = pc /\ todo' = [todo EXCEPT ![r] = @ \ {i}]
      BY <1>2, <2>3
    <3>2. QED
      BY <1>1, <2>1, <3>1 DEF TypeOK
  <2>4. QED
    BY <2>2, <2>3
<1>4. /\ todo[r] \subseteq DOMAIN Rules /\ Rules[i] \in Thresholds /\ Rules[i] \in Nat
      /\ alerts \in [Thresholds -> 0 .. Several]
  BY <1>1, RuleThresholds DEF TypeOK
<1>5. ~Sent(Rules[i])
  BY <1>1 DEF AlertsOnce
<1>6. alerts'[Rules[i]] = 1 /\ \A t \in Thresholds : t # Rules[i] => alerts'[t] = alerts[t]
  BY <1>2, <1>4, <1>5 DEF Sent, Tally, Several
<1>7. SilencedAtRest'
  BY <1>1, <1>3 DEF SilencedAtRest, Resting
<1>8. NoticeOnce'
  BY <1>1, <1>3 DEF NoticeOnce, Resting
<1>9. SentIsMarked'
  BY <1>3 DEF SentIsMarked
<1>10. AlertsOnce'
  <2>1. \A t \in Thresholds : alerts'[t] < Several
    BY <1>6 DEF AlertsOnce, Several
  <2>2. ASSUME NEW j \in todo'[r]
        PROVE  /\ \A t \in Thresholds : Sent(t)' => t <= Rules[j]
               /\ pc'[r] = "alert" => ~Sent(Rules[j])'
    <3>1. j \in todo[r] /\ j \in DOMAIN Rules /\ Rules[j] \in Thresholds
      BY <1>3, <1>4, RuleThresholds
    <3>2. Rules[i] <= Rules[j]
      BY <1>2, <1>4, <3>1, RulesAssumption
    <3>3. \A t \in Thresholds : Sent(t)' => t <= Rules[j]
      BY <1>1, <1>6, <3>1, <3>2 DEF AlertsOnce, Sent
    <3>4. ASSUME pc'[r] = "alert" PROVE ~Sent(Rules[j])'
      <4>1. j # i /\ Rules[j] # Rules[i]
        BY <1>3, <1>4, <3>1, <3>4 DEF RulesDiffer
      <4>2. ~Sent(Rules[j])
        BY <1>1, <3>1 DEF AlertsOnce
      <4>3. QED
        BY <1>6, <3>1, <4>1, <4>2 DEF Sent
    <3>5. QED
      BY <3>3, <3>4
  <2>3. QED
    BY <1>3, <2>1, <2>2 DEF AlertsOnce, Resting
<1>11. QED
  BY <1>7, <1>8, <1>9, <1>10

LEMMA RecordOnce ==
  ASSUME RowsInv, SerialInv, OneAtATime', NEW r \in Requests, RecordThreshold(r)
  PROVE  SerialInv'
<1> USE DEF SerialInv
<1>1. /\ TypeOK /\ UNCHANGED <<viewCount, alerts, notices>> /\ pc[r] = "record"
      /\ pc' = [pc EXCEPT ![r] = "grant"]
  BY DEF RowsInv, RecordThreshold, Goto, mail
<1>2. PICK i \in todo[r] : lastThresholdFired' = Rules[i]
  BY DEF RecordThreshold
<1>3. \A q \in Requests \ {r} : pc[q] \in Resting /\ pc'[q] = pc[q]
  BY <1>1 DEF OneAtATime, Resting, TypeOK
<1>4. pc'[r] = "grant" /\ lastThresholdFired # LimitReached
  BY <1>1 DEF SilencedAtRest, TypeOK
<1>5. lastThresholdFired' \in Nat
  BY <1>1, <1>2, RuleThresholds DEF TypeOK
<1>6. lastThresholdFired' # LimitReached
  BY <1>5 DEF LimitReached
<1>7. SilencedAtRest'
  BY <1>3, <1>4, <1>6 DEF SilencedAtRest, Resting
<1>8. NoticeOnce'
  BY <1>1, <1>3, <1>4 DEF NoticeOnce, Resting
<1>9. SentIsMarked'
  BY <1>1, <1>2 DEF SentIsMarked, AlertsOnce, Sent
<1>10. AlertsOnce'
  BY <1>1, <1>3, <1>4 DEF AlertsOnce, Resting
<1>11. QED
  BY <1>7, <1>8, <1>9, <1>10

LEMMA SerialStep ==
  ASSUME RulesDiffer, RowsInv, SerialInv, [Next]_vars, OneAtATime', \A r \in Requests : ~Fail(r),
         lastThresholdFired # LimitReached \/ viewCount' = viewCount
  PROVE  SerialInv'
<1>1. TypeOK
  BY DEF RowsInv
<1>2. ASSUME NEW r \in Requests, Handle(r) PROVE SerialInv'
  <2>1. CASE NotifyLimit(r) \/ MarkLimit(r)
    BY <2>1, NotifyOnce
  <2>2. CASE IncrementViewCount(r)
    <3>1. viewCount' # viewCount
      BY <1>1, <2>2 DEF IncrementViewCount, TypeOK
    <3>2. QED
      BY <2>2, <3>1, CountOnce
  <2>3. CASE FireAlert(r)
    BY <2>3, FireOnce
  <2>4. CASE RecordThreshold(r)
    BY <2>4, RecordOnce
  <2>5. CASE ~(NotifyLimit(r) \/ MarkLimit(r) \/ IncrementViewCount(r) \/ FireAlert(r) \/ RecordThreshold(r))
    BY <1>1, <1>2, <2>5, QuietHandlers, QuietStep
  <2>6. QED
    BY <2>1, <2>2, <2>3, <2>4, <2>5
<1>3. ASSUME UNCHANGED <<viewCount, lastThresholdFired, mail, pc, todo>> PROVE SerialInv'
  BY <1>3 DEF SerialInv, SilencedAtRest, NoticeOnce, SentIsMarked, AlertsOnce, Sent, mail
<1>4. QED
  BY <1>2, <1>3 DEF Next, Watch, Heartbeat, EndSession, Lapse, PassExpiry, link, limits, local, vars, rows

-----------------------------------------------------------------------------
(* The limits of a link and the accounts of its views, counted: the arguments   *)
(* that need the cardinalities of the sets AccessEnforcement is built from.     *)
Labels == Resting \cup Checking \cup Recording \cup Reporting \cup Denying

LEMMA SlotsType == Slots \in Nat
  BY RequestsAssumption, FS_CardinalityType DEF Slots

LEMMA PhaseType ==
  ASSUME NEW L
  PROVE  /\ IsFiniteSet(InPhase(L))
         /\ Cardinality(InPhase(L)) \in 0 .. Slots
<1>1. InPhase(L) \in SUBSET Requests
  BY DEF InPhase
<1>2. QED
  BY <1>1, SlotsType, RequestsAssumption, FS_Subset, FS_CardinalityType DEF Slots

(* What a request that moves from one label to another does to a phase. *)
LEMMA PhaseMove ==
  ASSUME RowsInv, NEW r \in Requests, NEW l, Goto(r, l), NEW L
  PROVE  /\ Cardinality(InPhase(L))' \in 0 .. Slots
         /\ pc[r] \in L /\ l \notin L =>
              Cardinality(InPhase(L))' = Cardinality(InPhase(L)) - 1
         /\ pc[r] \notin L /\ l \in L =>
              Cardinality(InPhase(L))' = Cardinality(InPhase(L)) + 1
         /\ (pc[r] \in L <=> l \in L) =>
              Cardinality(InPhase(L))' = Cardinality(InPhase(L))
<1> USE DEF RowsInv, TypeOK, Goto
<1>1. InPhase(L)' = IF l \in L THEN InPhase(L) \cup {r} ELSE InPhase(L) \ {r}
  BY DEF InPhase
<1>2. r \in InPhase(L) <=> pc[r] \in L
  BY DEF InPhase
<1>3. IsFiniteSet(InPhase(L)) /\ Cardinality(InPhase(L)) \in Nat
  BY PhaseType, SlotsType
<1>4. InPhase(L)' \in SUBSET Requests
  BY DEF InPhase
<1>5. Cardinality(InPhase(L))' \in 0 .. Slots
  BY <1>4, SlotsType, RequestsAssumption, FS_Subset, FS_CardinalityType DEF Slots
<1>6. CASE l \in L
  BY <1>1, <1>2, <1>3, <1>5, <1>6, FS_AddElement
<1>7. CASE l \notin L
  BY <1>1, <1>2, <1>3, <1>5, <1>7, FS_RemoveElement
<1>8. QED
  BY <1>6, <1>7

LEMMA PhaseStays ==
  ASSUME UNCHANGED pc, NEW L
  PROVE  Cardinality(InPhase(L))' = Cardinality(InPhase(L))
<1>1. InPhase(L)' = InPhase(L)
  BY DEF InPhase
<1>2. QED
  BY <1>1

(* The steps of a request that are not the check of a phase it enters: it stays  *)
(* in the phase or leaves it.                                                   *)
LEMMA PhaseLeaves ==
  ASSUME RowsInv, NEW r \in Requests, NEW l, Goto(r, l), NEW L, l \in L => pc[r] \in L
  PROVE  \/ Cardinality(InPhase(L))' = Cardinality(InPhase(L))
         \/ Cardinality(InPhase(L))' \in 0 .. Cardinality(InPhase(L)) - 1
  BY PhaseMove, PhaseType, SlotsType

-----------------------------------------------------------------------------
(* The view limit. *)

LEMMA ViewsInit == Init => Views!Init
<1>1. ASSUME Init PROVE Admitted = {}
  BY <1>1 DEF Init, Admitted, InPhase, Checking, Recording
<1>2. QED
  BY <1>1, FS_EmptySet DEF Init, Views!Init

(* A step that leaves the count and the limit alone and admits nobody. *)
LEMMA ViewsAbandon ==
  ASSUME RowsInv, NEW r \in Requests, NEW l, Goto(r, l), UNCHANGED <<maxViews, viewCount>>,
         l \in Checking \cup Recording => pc[r] \in Checking \cup Recording
  PROVE  [Views!Next]_(Views!quota)
  BY PhaseLeaves DEF Admitted, Views!Next, Views!quota, Views!Abandon

LEMMA ViewsStep == RowsInv /\ [Next]_vars => [Views!Next]_(Views!quota)
<1> SUFFICES ASSUME RowsInv, [Next]_vars PROVE [Views!Next]_(Views!quota)
  OBVIOUS
<1> USE DEF Resting, Checking, Recording, Reporting, Denying, link, limits, Answer
<1>1. ASSUME NEW r \in Requests, ReadLink(r) PROVE [Views!Next]_(Views!quota)
  <2>1. ASSUME NEW v \in Viewers, Admit(r, v) PROVE Views!Next
    <3>1. Goto(r, "device") /\ pc[r] \in Resting /\ UNCHANGED <<maxViews, viewCount>>
      BY <2>1 DEF Admit, Proceed, Receive
    <3>2. /\ Cardinality(Admitted)' = Cardinality(Admitted) + 1
          /\ Cardinality(Admitted) \in 0 .. Slots
          /\ Cardinality(Admitted)' \in 0 .. Slots
      BY <3>1, PhaseMove, PhaseType DEF Admitted
    <3>3. Views!Room(maxViews)
      BY <2>1, LimitsAssumption DEF Admit, AtLimit, NoLimit, Views!Room, Views!Unlimited,
         RowsInv, TypeOK
    <3>4. Cardinality(Admitted) < Slots
      BY <3>2, SlotsType
    <3>5. QED
      BY <3>1, <3>2, <3>3, <3>4 DEF Views!Next, Views!Admit, Views!AdmitUnder
  <2>2. ASSUME Refuse(r) PROVE [Views!Next]_(Views!quota)
    BY <2>2, ViewsAbandon DEF Refuse
  <2>3. ASSUME NEW v \in Viewers, NEW l \in {"expire", "security", "limitNotice"},
               Proceed(r, v, l)
        PROVE  [Views!Next]_(Views!quota)
    BY <2>3, ViewsAbandon DEF Proceed
  <2>4. QED
    BY <1>1, <2>1, <2>2, <2>3 DEF ReadLink, RefuseInactive, RefuseCredentials,
       RefuseSilently, FindOverdue, BlockAddress, HitViewLimit
<1>2. ASSUME NEW r \in Requests, Deny(r) PROVE [Views!Next]_(Views!quota)
  BY <1>2, ViewsAbandon DEF Deny, ExpireLink, NotifyExpired, NotifySecurity, NotifyLimit,
     MarkLimit
<1>3. ASSUME NEW r \in Requests, Check(r) PROVE [Views!Next]_(Views!quota)
  BY <1>3, ViewsAbandon DEF Check, FindDevice, CountDevices, CountSessions, CountWatching,
     DenyIf
<1>4. ASSUME NEW r \in Requests, Record(r) PROVE [Views!Next]_(Views!quota)
  <2>1. ASSUME UpsertDevice(r) \/ CreateSession(r) \/ CreateViewLog(r)
        PROVE  [Views!Next]_(Views!quota)
    BY <2>1, ViewsAbandon DEF UpsertDevice, CreateSession, CreateViewLog
  <2>2. ASSUME IncrementViewCount(r) PROVE Views!Next
    <3>1. PICK l \in {"grant", "alert"} : Goto(r, l)
      BY <2>2 DEF IncrementViewCount
    <3>2. /\ Cardinality(Admitted)' = Cardinality(Admitted) - 1
          /\ Cardinality(Admitted) \in 0 .. Slots
          /\ Cardinality(Admitted)' \in 0 .. Slots
      BY <2>2, <3>1, PhaseMove, PhaseType DEF Admitted, IncrementViewCount
    <3>3. \E n \in 0 .. Cardinality(Admitted) - 1 : Cardinality(Admitted)' = n
      BY <3>2, SlotsType
    <3>4. QED
      BY <2>2, <3>3 DEF IncrementViewCount, Views!Next, Views!Use
  <2>3. QED
    BY <1>4, <2>1, <2>2 DEF Record
<1>5. ASSUME NEW r \in Requests, Report(r) PROVE [Views!Next]_(Views!quota)
  <2>1. ASSUME UNCHANGED <<pc, maxViews, viewCount>> PROVE [Views!Next]_(Views!quota)
    BY <2>1, PhaseStays DEF Views!quota, Admitted
  <2>2. QED
    BY <1>5, <2>1, ViewsAbandon DEF Report, FireAlert, RecordThreshold, IssueGrant
<1>6. ASSUME NEW r \in Requests, Fail(r) PROVE [Views!Next]_(Views!quota)
  BY <1>6, ViewsAbandon DEF Fail
<1>7. ASSUME UNCHANGED <<pc, maxViews, viewCount>> PROVE [Views!Next]_(Views!quota)
  BY <1>7, PhaseStays DEF Views!quota, Admitted
<1>8. QED
  BY <1>1, <1>2, <1>3, <1>4, <1>5, <1>6, <1>7 DEF Next, Handle, Watch, Heartbeat, EndSession,
     Lapse, PassExpiry, vars

(* requestAccess implements the view quota: reading the row is its admission,    *)
(* the atomic increment its use, and a denial or a failure in between gives the *)
(* admission back.                                                              *)
THEOREM ViewsRefineQuota == Spec => ViewQuota
  BY ViewsInit, ViewsStep, RowsCorrect, PTL DEF Spec, ViewQuota, Views!Spec

ViewProofs == INSTANCE QuotaProofs WITH
  Limits <- ViewLimits, limit <- maxViews, used <- viewCount,
  pending <- Cardinality(Admitted)

(* What the quota promises, said of the row. *)
LEMMA ViewQuotaBounds == ViewQuota => []Views!Bounded
<1>1. Slots \in Nat /\ ViewLimits \subseteq Nat
  BY SlotsType, LimitsAssumption
<1>2. ViewProofs!Spec => []ViewProofs!QuotaInv
  BY <1>1, ViewProofs!QuotaIsLate
<1>3. ViewProofs!QuotaInv => Views!Bounded
  BY DEF ViewProofs!QuotaInv, ViewProofs!Bounded, Views!Bounded, ViewProofs!Unlimited, Views!Unlimited
<1>4. Views!Init => ViewProofs!Init
  BY DEF Views!Init, ViewProofs!Init
<1>5. [Views!Next]_(Views!quota) => [ViewProofs!Next]_(ViewProofs!quota)
  BY DEF Views!Next, Views!Admit, Views!AdmitUnder, Views!Use, Views!Abandon, Views!SetLimit,
     Views!Room, Views!Unlimited, Views!quota, ViewProofs!Next, ViewProofs!Admit,
     ViewProofs!AdmitUnder, ViewProofs!Use, ViewProofs!Abandon, ViewProofs!SetLimit,
     ViewProofs!Room, ViewProofs!Unlimited, ViewProofs!quota
<1>6. QED
  BY <1>2, <1>3, <1>4, <1>5, PTL DEF ViewQuota, Views!Spec, ViewProofs!Spec

(* The view limit is overshot by no more than the other requests in flight; with *)
(* one request at a time it is exact.                                           *)
THEOREM ViewsBounded == Spec => []Views!Bounded
  BY ViewsRefineQuota, ViewQuotaBounds, PTL

-----------------------------------------------------------------------------
(* The limits a request goes by are those of the row it has read: as long as    *)
(* nobody edits the link, the limits in force.                                  *)
SeenInForce == \A r \in Requests : pc[r] \in Checking => seen[r] = LimitsInForce

LEMMA LimitsStay ==
  ASSUME [Next]_vars
  PROVE  UNCHANGED limits
<1> USE DEF link
<1>1. ASSUME NEW r \in Requests, ReadLink(r) \/ Deny(r) \/ Check(r) PROVE UNCHANGED limits
  BY <1>1 DEF ReadLink, RefuseInactive, RefuseCredentials, RefuseSilently, Refuse, FindOverdue,
     BlockAddress, HitViewLimit, Admit, Proceed, Deny, ExpireLink, NotifyExpired, NotifySecurity,
     NotifyLimit, MarkLimit, Check, FindDevice, CountDevices, CountSessions, CountWatching
<1>2. ASSUME NEW r \in Requests, Record(r) \/ Report(r) \/ Fail(r) PROVE UNCHANGED limits
  BY <1>2 DEF Record, UpsertDevice, CreateSession, CreateViewLog, IncrementViewCount, Report,
     FireAlert, RecordThreshold, IssueGrant, Fail
<1>3. QED
  BY <1>1, <1>2 DEF Next, Handle, Watch, Heartbeat, EndSession, Lapse, PassExpiry, vars

LEMMA SeenInit == Init => SeenInForce
  BY DEF Init, SeenInForce, Checking

LEMMA SeenStep == RowsInv /\ SeenInForce /\ [Next]_vars => SeenInForce'
<1> SUFFICES ASSUME RowsInv, SeenInForce, [Next]_vars PROVE SeenInForce'
  OBVIOUS
<1> DEFINE Keeps == \A q \in Requests :
                      pc'[q] \in Checking => pc[q] \in Checking /\ seen'[q] = seen[q]
<1>1. LimitsInForce' = LimitsInForce
  BY LimitsStay DEF limits, LimitsInForce
<1>2. ASSUME Keeps PROVE SeenInForce'
  BY <1>1, <1>2 DEF SeenInForce
<1> USE DEF RowsInv, TypeOK, Answer, Goto, local, Resting, Checking, Recording, Reporting, Denying
<1>3. ASSUME NEW r \in Requests, ReadLink(r) PROVE SeenInForce'
  <2>1. CASE Refuse(r)
    BY <1>2, <2>1 DEF Refuse
  <2>2. ASSUME NEW v \in Viewers, FindOverdue(r, v) \/ BlockAddress(r, v) \/ HitViewLimit(r, v)
        PROVE  SeenInForce'
    BY <1>2, <2>2 DEF FindOverdue, BlockAddress, HitViewLimit, Proceed, Receive
  <2>3. ASSUME NEW v \in Viewers, Admit(r, v) PROVE SeenInForce'
    BY <1>1, <2>3 DEF Admit, Proceed, Receive, SeenInForce
  <2>4. QED
    BY <1>3, <2>1, <2>2, <2>3 DEF ReadLink, RefuseInactive, RefuseCredentials, RefuseSilently
<1>4. ASSUME NEW r \in Requests, Deny(r) PROVE Keeps
  BY <1>4 DEF Deny, ExpireLink, NotifyExpired, NotifySecurity, NotifyLimit, MarkLimit
<1>5. ASSUME NEW r \in Requests, Check(r) PROVE Keeps
  BY <1>5 DEF Check, FindDevice, CountDevices, CountSessions, CountWatching, DenyIf
<1>6. ASSUME NEW r \in Requests, Record(r) PROVE Keeps
  BY <1>6 DEF Record, UpsertDevice, CreateSession, CreateViewLog, IncrementViewCount
<1>7. ASSUME NEW r \in Requests, Report(r) \/ Fail(r) PROVE Keeps
  BY <1>7 DEF Report, FireAlert, RecordThreshold, IssueGrant, Fail
<1>8. ASSUME UNCHANGED <<pc, seen>> PROVE Keeps
  BY <1>8
<1>9. QED
  BY <1>2, <1>3, <1>4, <1>5, <1>6, <1>7, <1>8 DEF Next, Handle, Watch, Heartbeat, EndSession,
     Lapse, PassExpiry, vars

-----------------------------------------------------------------------------
(* The session limit: the count admits, the create uses. *)

LEMMA SessionsFinite ==
  ASSUME RowsInv
  PROVE  /\ IsFiniteSet(sessions) /\ Cardinality(sessions) \in Nat
         /\ IsFiniteSet(viewLogs) /\ Cardinality(viewLogs) \in Nat
         /\ IsFiniteSet(grants) /\ Cardinality(grants) \in Nat
         /\ IsFiniteSet(Watching) /\ Cardinality(Watching) \in Nat
<1>1. /\ sessions \subseteq SessionKeys /\ viewLogs \subseteq SessionKeys
      /\ grants \subseteq SessionKeys /\ Watching \subseteq SessionKeys
  BY DEF RowsInv, TypeOK, Watching
<1>2. QED
  BY <1>1, RequestsAssumption, FS_Subset, FS_CardinalityType

LEMMA SessionsInit == Init => SessionRows!Init
<1>1. ASSUME Init PROVE NewSessions = {}
  BY <1>1 DEF Init, NewSessions, InPhase
<1>2. QED
  BY <1>1, FS_EmptySet DEF Init, SessionRows!Init

(* A step of the engine as the quota sees it: a request is admitted by the limit *)
(* it has read.                                                                 *)
SessionsMove ==
  \/ SessionRows!Use \/ SessionRows!Abandon \/ UNCHANGED SessionRows!quota
  \/ \E r \in Requests : pc[r] \in Checking /\ SessionRows!AdmitUnder(seen[r].maxSessions)

LEMMA SessionsAbandon ==
  ASSUME RowsInv, NEW r \in Requests, NEW l, Goto(r, l), UNCHANGED <<maxSessions, sessions>>,
         l \in {"concurrent", "upsert", "create"} => pc[r] \in {"concurrent", "upsert", "create"}
  PROVE  SessionsMove
  BY PhaseLeaves DEF NewSessions, SessionsMove, SessionRows!quota, SessionRows!Abandon

LEMMA SessionsStep == RowsInv /\ [Next]_vars => SessionsMove
<1> SUFFICES ASSUME RowsInv, [Next]_vars PROVE SessionsMove
  OBVIOUS
<1> USE DEF Resting, rows, link, limits, Answer
<1>1. ASSUME NEW r \in Requests, CountSessions(r) PROVE SessionsMove
  <2>1. CASE Goto(r, "concurrent") /\ ~AtLimit(seen[r].maxSessions, Cardinality(sessions))
    <3>1. /\ Cardinality(NewSessions)' = Cardinality(NewSessions) + 1
          /\ Cardinality(NewSessions) \in 0 .. Slots
          /\ Cardinality(NewSessions)' \in 0 .. Slots
      BY <1>1, <2>1, PhaseMove, PhaseType DEF CountSessions, NewSessions
    <3>2. pc[r] \in Checking /\ seen[r].maxSessions \in Nat
      BY <1>1, LimitsAssumption DEF CountSessions, Checking, RowsInv, Holding, LimitsRead
    <3>3. SessionRows!Room(seen[r].maxSessions)
      BY <2>1, <3>2, SessionsFinite DEF AtLimit, NoLimit, SessionRows!Room, SessionRows!Unlimited
    <3>4. Cardinality(NewSessions) < Slots
      BY <3>1, SlotsType
    <3>5. QED
      BY <1>1, <3>1, <3>2, <3>3, <3>4 DEF CountSessions, SessionsMove, SessionRows!AdmitUnder
  <2>2. CASE Answer(r, "denied")
    BY <1>1, <2>2, SessionsAbandon DEF CountSessions
  <2>3. QED
    BY <1>1, <2>1, <2>2 DEF CountSessions, DenyIf
<1>2. ASSUME NEW r \in Requests, CreateSession(r) PROVE SessionsMove
  <2>1. PICK s \in SessionKeys \ sessions : sessions' = sessions \cup {s}
    BY <1>2 DEF CreateSession
  <2>2. Cardinality(sessions)' = Cardinality(sessions) + 1
    BY <2>1, SessionsFinite, FS_AddElement
  <2>3. /\ Cardinality(NewSessions)' = Cardinality(NewSessions) - 1
        /\ Cardinality(NewSessions) \in 0 .. Slots
        /\ Cardinality(NewSessions)' \in 0 .. Slots
    BY <1>2, PhaseMove, PhaseType DEF CreateSession, NewSessions
  <2>4. \E n \in 0 .. Cardinality(NewSessions) - 1 : Cardinality(NewSessions)' = n
    BY <2>3, SlotsType
  <2>5. QED
    BY <2>2, <1>2, <2>4 DEF CreateSession, SessionsMove, SessionRows!Use
<1>3. ASSUME NEW r \in Requests, ReadLink(r) PROVE SessionsMove
  BY <1>3, SessionsAbandon DEF ReadLink, RefuseInactive, RefuseCredentials, RefuseSilently, Refuse,
     FindOverdue, BlockAddress, HitViewLimit, Admit, Proceed
<1>4. ASSUME NEW r \in Requests, Deny(r) PROVE SessionsMove
  BY <1>4, SessionsAbandon DEF Deny, ExpireLink, NotifyExpired, NotifySecurity, NotifyLimit,
     MarkLimit
<1>5. ASSUME NEW r \in Requests, FindDevice(r) \/ CountDevices(r) \/ CountWatching(r)
      PROVE  SessionsMove
  BY <1>5, SessionsAbandon DEF FindDevice, CountDevices, CountWatching, DenyIf
<1>6. ASSUME NEW r \in Requests, UpsertDevice(r) \/ CreateViewLog(r) \/ IncrementViewCount(r)
      PROVE  SessionsMove
  BY <1>6, SessionsAbandon DEF UpsertDevice, CreateViewLog, IncrementViewCount
<1>7. ASSUME UNCHANGED <<pc, maxSessions, sessions>> PROVE SessionsMove
  BY <1>7, PhaseStays DEF SessionsMove, SessionRows!quota, NewSessions
<1>8. ASSUME NEW r \in Requests, Report(r) PROVE SessionsMove
  BY <1>7, <1>8, SessionsAbandon DEF Report, FireAlert, RecordThreshold, IssueGrant
<1>9. ASSUME NEW r \in Requests, Fail(r) PROVE SessionsMove
  BY <1>9, SessionsAbandon DEF Fail
<1>10. QED
  BY <1>1, <1>2, <1>3, <1>4, <1>5, <1>6, <1>7, <1>8, <1>9 DEF Next, Handle, Check, Record,
     Watch, Heartbeat, EndSession, Lapse, PassExpiry, vars

(* requestAccess implements the session quota: countForLink admits, the create   *)
(* of the session uses, and nothing ever returns a session.                     *)
THEOREM SessionsRefineQuota == Spec => SessionQuota
<1>1. RowsInv /\ SeenInForce /\ [Next]_vars => [SessionRows!Next]_(SessionRows!quota)
  BY SessionsStep DEF SessionsMove, SeenInForce, LimitsInForce, SessionRows!Next, SessionRows!Admit
<1>2. QED
  BY <1>1, SeenInit, SeenStep, SessionsInit, RowsCorrect, PTL
  DEF Spec, SessionQuota, SessionRows!Spec

-----------------------------------------------------------------------------
(* The device limit: the count admits, the upsert of a fingerprint without a row *)
(* uses.  Requests of one new device share its row, so one use settles them all. *)

LEMMA DevicesFinite ==
  ASSUME RowsInv
  PROVE  IsFiniteSet(devices) /\ Cardinality(devices) \in Nat
  BY RequestsAssumption, FS_Subset, FS_CardinalityType DEF RowsInv, TypeOK

LEMMA NewDevicesType ==
  /\ IsFiniteSet(NewDevices) /\ Cardinality(NewDevices) \in 0 .. Slots
  /\ IsFiniteSet(NewDevices') /\ Cardinality(NewDevices)' \in 0 .. Slots
<1>1. NewDevices \in SUBSET Requests /\ NewDevices' \in SUBSET Requests
  BY DEF NewDevices
<1>2. QED
  BY <1>1, SlotsType, RequestsAssumption, FS_Subset, FS_CardinalityType DEF Slots

LEMMA DevicesInit == Init => DeviceRows!Init
<1>1. ASSUME Init PROVE NewDevices = {}
  BY <1>1 DEF Init, NewDevices
<1>2. QED
  BY <1>1, FS_EmptySet DEF Init, DeviceRows!Init

DevicesMove ==
  \/ DeviceRows!Use \/ DeviceRows!Abandon \/ UNCHANGED DeviceRows!quota
  \/ \E r \in Requests : pc[r] \in Checking /\ DeviceRows!AdmitUnder(seen[r].maxDevices)

(* Without a new row, requests can only drop out of the new devices. *)
LEMMA DevicesAbandon ==
  ASSUME UNCHANGED <<maxDevices, devices>>, NewDevices' \subseteq NewDevices
  PROVE  DevicesMove
<1>1. CASE NewDevices' = NewDevices
  BY <1>1 DEF DevicesMove, DeviceRows!quota
<1>2. CASE NewDevices' # NewDevices
  <2>1. Cardinality(NewDevices)' < Cardinality(NewDevices)
    BY <1>2, NewDevicesType, FS_Subset
  <2>2. \E n \in 0 .. Cardinality(NewDevices) - 1 : Cardinality(NewDevices)' = n
    BY <2>1, NewDevicesType, SlotsType
  <2>3. QED
    BY <2>2 DEF DevicesMove, DeviceRows!Abandon
<1>3. QED
  BY <1>1, <1>2

LEMMA DevicesStep == RowsInv /\ [Next]_vars => DevicesMove
<1> SUFFICES ASSUME RowsInv, [Next]_vars PROVE DevicesMove
  OBVIOUS
<1>12. \A r \in Requests : pc[r] \in {"device", "countDevices"} =>
          pc[r] \in Checking /\ seen[r].maxDevices \in Nat
  BY LimitsAssumption DEF Checking, RowsInv, Holding, LimitsRead
<1> USE DEF RowsInv, TypeOK, Resting, rows, link, limits, local, Answer, Goto
<1>1. ASSUME NEW r \in Requests, CountDevices(r) PROVE DevicesMove
  <2>1. CASE /\ Goto(r, "session") /\ UNCHANGED local /\ viewer[r] \notin devices
             /\ ~AtLimit(seen[r].maxDevices, Cardinality(devices))
    <3>1. NewDevices' = NewDevices \cup {r} /\ r \notin NewDevices
      BY <1>1, <2>1 DEF CountDevices, NewDevices
    <3>2. Cardinality(NewDevices)' = Cardinality(NewDevices) + 1
      BY <3>1, NewDevicesType, FS_AddElement
    <3>3. DeviceRows!Room(seen[r].maxDevices)
      BY <1>12, <1>1, <2>1, DevicesFinite DEF CountDevices, AtLimit, NoLimit, DeviceRows!Room,
         DeviceRows!Unlimited
    <3>4. Cardinality(NewDevices) < Slots
      BY <3>2, NewDevicesType, SlotsType
    <3>5. QED
      BY <1>1, <1>12, <3>2, <3>3, <3>4 DEF CountDevices, DevicesMove, DeviceRows!AdmitUnder
  <2>2. CASE Goto(r, "session") /\ UNCHANGED local /\ viewer[r] \in devices
    BY <1>1, <2>2, DevicesAbandon DEF CountDevices, NewDevices
  <2>3. CASE Answer(r, "denied")
    BY <1>1, <2>3, DevicesAbandon DEF CountDevices, NewDevices
  <2>4. QED
    BY <1>1, <2>1, <2>2, <2>3 DEF CountDevices, DenyIf
<1>2. ASSUME NEW r \in Requests, UpsertDevice(r) PROVE DevicesMove
  <2>1. /\ devices' = devices \cup {viewer[r]} /\ pc[r] = "upsert"
        /\ pc' = [pc EXCEPT ![r] = "create"] /\ UNCHANGED <<viewer, maxDevices>>
    BY <1>2 DEF UpsertDevice
  <2>2. CASE viewer[r] \in devices
    BY <2>1, <2>2, DevicesAbandon DEF NewDevices
  <2>3. CASE viewer[r] \notin devices
    <3>1. Cardinality(devices)' = Cardinality(devices) + 1
      BY <2>1, <2>3, DevicesFinite, FS_AddElement
    <3>2. NewDevices' \subseteq NewDevices /\ r \in NewDevices \ NewDevices'
      BY <2>1, <2>3 DEF NewDevices
    <3>3. Cardinality(NewDevices)' < Cardinality(NewDevices)
      BY <3>2, NewDevicesType, FS_Subset
    <3>4. \E n \in 0 .. Cardinality(NewDevices) - 1 : Cardinality(NewDevices)' = n
      BY <3>3, NewDevicesType, SlotsType
    <3>5. QED
      BY <1>2, <3>1, <3>4 DEF UpsertDevice, DevicesMove, DeviceRows!Use
  <2>4. QED
    BY <2>2, <2>3
<1>3. ASSUME NEW r \in Requests, FindDevice(r) PROVE DevicesMove
  <2>1. CASE seen[r].maxDevices # NoLimit \/ viewer[r] \in devices
    BY <1>3, <2>1, DevicesAbandon DEF FindDevice, NewDevices
  <2>2. CASE seen[r].maxDevices = NoLimit /\ viewer[r] \notin devices
    <3>1. NewDevices' = NewDevices \cup {r} /\ r \notin NewDevices
      BY <1>3, <2>2 DEF FindDevice, NewDevices
    <3>2. Cardinality(NewDevices)' = Cardinality(NewDevices) + 1
      BY <3>1, NewDevicesType, FS_AddElement
    <3>3. Cardinality(NewDevices) < Slots
      BY <3>2, NewDevicesType, SlotsType
    <3>4. QED
      BY <1>3, <1>12, <2>2, <3>2, <3>3 DEF FindDevice, NoLimit, DevicesMove, DeviceRows!AdmitUnder,
         DeviceRows!Room, DeviceRows!Unlimited
  <2>3. QED
    BY <2>1, <2>2
<1>4. ASSUME NEW r \in Requests, ReadLink(r) PROVE UNCHANGED <<maxDevices, devices>> /\ NewDevices' \subseteq NewDevices
  <2>1. CASE Refuse(r)
    BY <2>1 DEF Refuse, NewDevices
  <2>2. ASSUME NEW v \in Viewers, NEW l \in {"expire", "security", "limitNotice", "device"},
               Proceed(r, v, l)
        PROVE  UNCHANGED <<maxDevices, devices>> /\ NewDevices' \subseteq NewDevices
    BY <2>2 DEF Proceed, Receive, NewDevices
  <2>3. QED
    BY <1>4, <2>1, <2>2 DEF ReadLink, RefuseInactive, RefuseCredentials, RefuseSilently,
       FindOverdue, BlockAddress, HitViewLimit, Admit
<1>5. ASSUME NEW r \in Requests, Deny(r) PROVE UNCHANGED <<maxDevices, devices>> /\ NewDevices' \subseteq NewDevices
  BY <1>5 DEF Deny, ExpireLink, NotifyExpired, NotifySecurity, NotifyLimit, MarkLimit, NewDevices
<1>6. ASSUME NEW r \in Requests, CountSessions(r) \/ CountWatching(r)
      PROVE  UNCHANGED <<maxDevices, devices>> /\ NewDevices' \subseteq NewDevices
  BY <1>6 DEF CountSessions, CountWatching, DenyIf, NewDevices
<1>7. ASSUME NEW r \in Requests, CreateSession(r) \/ CreateViewLog(r) \/ IncrementViewCount(r)
      PROVE  UNCHANGED <<maxDevices, devices>> /\ NewDevices' \subseteq NewDevices
  BY <1>7 DEF CreateSession, CreateViewLog, IncrementViewCount, NewDevices
<1>8. ASSUME NEW r \in Requests, Report(r) PROVE UNCHANGED <<maxDevices, devices>> /\ NewDevices' \subseteq NewDevices
  BY <1>8 DEF Report, FireAlert, RecordThreshold, IssueGrant, NewDevices
<1>9. ASSUME NEW r \in Requests, Fail(r) PROVE UNCHANGED <<maxDevices, devices>> /\ NewDevices' \subseteq NewDevices
  BY <1>9 DEF Fail, NewDevices
<1>10. ASSUME UNCHANGED <<pc, viewer, maxDevices, devices>>
       PROVE  UNCHANGED <<maxDevices, devices>> /\ NewDevices' \subseteq NewDevices
  BY <1>10 DEF NewDevices
<1>11. QED
  BY <1>1, <1>2, <1>3, <1>4, <1>5, <1>6, <1>7, <1>8, <1>9, <1>10, DevicesAbandon
  DEF Next, Handle, Check, Record, Watch, Heartbeat, EndSession, Lapse, PassExpiry, vars

(* requestAccess implements the device quota, though requests of one device race *)
(* for the same row.                                                            *)
THEOREM DevicesRefineQuota == Spec => DeviceQuota
<1>1. RowsInv /\ SeenInForce /\ [Next]_vars => [DeviceRows!Next]_(DeviceRows!quota)
  BY DevicesStep DEF DevicesMove, SeenInForce, LimitsInForce, DeviceRows!Next, DeviceRows!Admit
<1>2. QED
  BY <1>1, SeenInit, SeenStep, DevicesInit, RowsCorrect, PTL
  DEF Spec, DeviceQuota, DeviceRows!Spec

-----------------------------------------------------------------------------
(* The accounts of the views: the requests that report a view were counted, and *)
(* those about to count one have logged it.                                     *)

Accounts ==
  /\ Cardinality(grants) + Cardinality(InPhase(Reporting)) <= viewCount
  /\ viewCount + Cardinality(InPhase({"count"})) <= Cardinality(viewLogs)

LEMMA AccountsInit == Init => Accounts
<1>1. ASSUME Init PROVE InPhase(Reporting) = {} /\ InPhase({"count"}) = {}
  BY <1>1 DEF Init, InPhase, Reporting
<1>2. QED
  BY <1>1, FS_EmptySet DEF Init, Accounts

(* A request that neither starts to report nor comes to count a view. *)
LEMMA AccountsKeep ==
  ASSUME RowsInv, Accounts, NEW r \in Requests, NEW l, Goto(r, l),
         UNCHANGED <<grants, viewCount, viewLogs>>,
         l \in Reporting => pc[r] \in Reporting, l # "count"
  PROVE  Accounts'
<1>1. /\ Cardinality(InPhase(Reporting))' <= Cardinality(InPhase(Reporting))
      /\ Cardinality(InPhase({"count"}))' <= Cardinality(InPhase({"count"}))
      /\ Cardinality(InPhase(Reporting))' \in Nat /\ Cardinality(InPhase({"count"}))' \in Nat
  BY PhaseLeaves, PhaseType, PhaseMove, SlotsType
<1>2. QED
  BY <1>1, PhaseType, SlotsType, SessionsFinite DEF Accounts, RowsInv, TypeOK

LEMMA AccountsStep == RowsInv /\ Accounts /\ [Next]_vars => Accounts'
<1> SUFFICES ASSUME RowsInv, Accounts, [Next]_vars PROVE Accounts'
  OBVIOUS
<1> USE DEF Resting, Reporting, rows, link, limits, Answer
<1>1. ASSUME NEW r \in Requests, CreateViewLog(r) PROVE Accounts'
  <2>1. /\ Goto(r, "count") /\ pc[r] = "log" /\ UNCHANGED <<grants, viewCount>>
        /\ viewLogs' = viewLogs \cup {key[r]} /\ key[r] \notin viewLogs
    BY <1>1 DEF CreateViewLog, RowsInv, Holding
  <2>2. Cardinality(viewLogs)' = Cardinality(viewLogs) + 1
    BY <2>1, SessionsFinite, FS_AddElement
  <2>3. /\ Cardinality(InPhase({"count"}))' = Cardinality(InPhase({"count"})) + 1
        /\ Cardinality(InPhase(Reporting))' = Cardinality(InPhase(Reporting))
    BY <2>1, PhaseMove
  <2>4. QED
    BY <2>1, <2>2, <2>3, PhaseType, SlotsType, SessionsFinite DEF Accounts, RowsInv, TypeOK
<1>2. ASSUME NEW r \in Requests, IncrementViewCount(r) PROVE Accounts'
  <2>1. PICK l \in {"grant", "alert"} : Goto(r, l)
    BY <1>2 DEF IncrementViewCount
  <2>2. pc[r] = "count" /\ viewCount' = viewCount + 1 /\ UNCHANGED <<grants, viewLogs>>
    BY <1>2 DEF IncrementViewCount
  <2>3. /\ Cardinality(InPhase({"count"}))' = Cardinality(InPhase({"count"})) - 1
        /\ Cardinality(InPhase(Reporting))' = Cardinality(InPhase(Reporting)) + 1
    BY <2>1, <2>2, PhaseMove
  <2>4. QED
    BY <2>2, <2>3, PhaseType, SlotsType, SessionsFinite DEF Accounts, RowsInv, TypeOK
<1>3. ASSUME NEW r \in Requests, IssueGrant(r) PROVE Accounts'
  <2>1. /\ Goto(r, "granted") /\ pc[r] = "grant" /\ UNCHANGED <<viewCount, viewLogs>>
        /\ grants' = grants \cup {key[r]}
    BY <1>3 DEF IssueGrant
  <2>2. Cardinality(grants)' \in {Cardinality(grants), Cardinality(grants) + 1}
    BY <2>1, SessionsFinite, FS_AddElement
  <2>3. /\ Cardinality(InPhase({"count"}))' = Cardinality(InPhase({"count"}))
        /\ Cardinality(InPhase(Reporting))' = Cardinality(InPhase(Reporting)) - 1
    BY <2>1, PhaseMove
  <2>4. QED
    BY <2>1, <2>2, <2>3, PhaseType, SlotsType, SessionsFinite DEF Accounts, RowsInv, TypeOK
<1>4. ASSUME NEW r \in Requests, ReadLink(r) \/ Deny(r) PROVE Accounts'
  <2>1. CASE ReadLink(r)
    BY <2>1, AccountsKeep DEF ReadLink, RefuseInactive, RefuseCredentials, RefuseSilently, Refuse,
       FindOverdue, BlockAddress, HitViewLimit, Admit, Proceed
  <2>2. CASE Deny(r)
    BY <2>2, AccountsKeep DEF Deny, ExpireLink, NotifyExpired, NotifySecurity, NotifyLimit,
       MarkLimit
  <2>3. QED
    BY <1>4, <2>1, <2>2
<1>5. ASSUME NEW r \in Requests, Check(r) PROVE Accounts'
  BY <1>5, AccountsKeep DEF Check, FindDevice, CountDevices, CountSessions, CountWatching, DenyIf
<1>6. ASSUME NEW r \in Requests, UpsertDevice(r) \/ CreateSession(r) \/ RecordThreshold(r) \/ Fail(r)
      PROVE  Accounts'
  BY <1>6, AccountsKeep DEF UpsertDevice, CreateSession, RecordThreshold, Fail
<1>7. ASSUME UNCHANGED <<pc, grants, viewCount, viewLogs>> PROVE Accounts'
  BY <1>7, PhaseStays DEF Accounts
<1>8. ASSUME NEW r \in Requests, FireAlert(r) PROVE Accounts'
  BY <1>7, <1>8, AccountsKeep DEF FireAlert
<1>9. QED
  BY <1>1, <1>2, <1>3, <1>4, <1>5, <1>6, <1>7, <1>8 DEF Next, Handle, Record, Report, Watch,
     Heartbeat, EndSession, Lapse, PassExpiry, vars

(* However requests interleave and wherever they fail, no viewer holds a grant  *)
(* for a view that was not counted, and no view is counted without its log.     *)
THEOREM GrantsAreAccounted == Spec => []GrantsAccounted
<1>1. RowsInv /\ Accounts => GrantsAccounted
  BY PhaseType, SlotsType, SessionsFinite DEF Accounts, GrantsAccounted, RowsInv, TypeOK
<1>2. QED
  BY <1>1, AccountsInit, AccountsStep, RowsCorrect, PTL DEF Spec

-----------------------------------------------------------------------------
(* The concurrency limit. *)

LEMMA ConcurrencyInit == Init => ConcurrencyBounded
<1>1. ASSUME Init PROVE Watching = {} /\ NewWatchers = {}
  BY <1>1 DEF Init, Watching, NewWatchers, InPhase
<1>2. ConcurrentLimits \subseteq Nat /\ Slots \in Nat
  BY SlotsType, LimitsAssumption
<1>3. ASSUME Init PROVE Cardinality(Watching) = 0 /\ Cardinality(NewWatchers) = 0
  BY <1>1, <1>3, FS_EmptySet
<1>4. QED
  BY <1>2, <1>3 DEF ConcurrencyBounded, NoLimit

(* Sessions can only stop being watched, and nobody comes to watch. *)
LEMMA ConcurrencyKeeps ==
  ASSUME RowsInv, ConcurrencyBounded, Watching' \subseteq Watching,
         \/ UNCHANGED pc
         \/ \E r \in Requests, l \in Labels :
              Goto(r, l) /\ (l \in {"upsert", "create"} => pc[r] \in {"upsert", "create"})
  PROVE  ConcurrencyBounded'
<1>1. Cardinality(Watching)' <= Cardinality(Watching) /\ Cardinality(Watching)' \in Nat
  BY SessionsFinite, FS_Subset, FS_CardinalityType
<1>2. Cardinality(NewWatchers)' <= Cardinality(NewWatchers) /\ Cardinality(NewWatchers)' \in Nat
  BY PhaseStays, PhaseLeaves, PhaseType, SlotsType DEF NewWatchers
<1>3. QED
  BY <1>1, <1>2, SessionsFinite, PhaseType, SlotsType, LimitsAssumption
  DEF ConcurrencyBounded, NewWatchers, Slots

LEMMA ConcurrencyStep == RowsInv /\ ConcurrencyBounded /\ [Next]_vars => ConcurrencyBounded'
<1> SUFFICES ASSUME RowsInv, ConcurrencyBounded, [Next]_vars PROVE ConcurrencyBounded'
  OBVIOUS
<1> USE DEF Labels, Resting, Checking, Recording, Reporting, Denying, rows, Answer, Watching
<1>1. ASSUME NEW r \in Requests, CountWatching(r) PROVE ConcurrencyBounded'
  <2>1. CASE Answer(r, "denied")
    BY <1>1, <2>1, ConcurrencyKeeps DEF CountWatching
  <2>2. CASE Goto(r, "upsert") /\ ~AtLimit(seen[r].maxConcurrent, Cardinality(Watching))
    <3>1. Cardinality(NewWatchers)' \in 0 .. Slots /\ Watching' = Watching
      BY <1>1, <2>2, PhaseMove DEF CountWatching, NewWatchers
    <3>2. /\ seen[r].maxConcurrent \in ConcurrentLimits
          /\ seen[r].maxConcurrent # NoLimit => Cardinality(Watching)' < seen[r].maxConcurrent
      BY <1>1, <2>2, <3>1, SessionsFinite, LimitsAssumption
      DEF AtLimit, CountWatching, RowsInv, Holding, LimitsRead
    <3>3. /\ ConcurrentLimits \subseteq Nat /\ Slots \in Nat /\ Slots' = Slots
          /\ Cardinality(Watching)' = Cardinality(Watching) /\ Cardinality(Watching) \in Nat
      BY <3>1, SessionsFinite, SlotsType, LimitsAssumption DEF Slots
    <3>4. ASSUME NEW L \in ConcurrentLimits,
                 \A m \in ConcurrentLimits : m # NoLimit /\ m <= L
          PROVE  Cardinality(Watching)' + Cardinality(NewWatchers)' <= L + Slots - 1
      <4>1. Cardinality(Watching)' < seen[r].maxConcurrent /\ seen[r].maxConcurrent <= L
        BY <3>2, <3>4
      <4>2. L \in Nat /\ seen[r].maxConcurrent \in Nat /\ Cardinality(Watching)' \in Nat
        BY <3>2, <3>3
      <4>3. QED
        BY <3>1, <3>3, <4>1, <4>2
    <3>5. QED
      BY <3>3, <3>4 DEF ConcurrencyBounded
  <2>3. QED
    BY <1>1, <2>1, <2>2 DEF CountWatching
<1>2. ASSUME NEW r \in Requests, CreateSession(r) PROVE ConcurrencyBounded'
  <2>1. PICK s \in SessionKeys \ sessions : Watching' = Watching \cup {s}
    BY <1>2 DEF CreateSession
  <2>2. Cardinality(Watching)' \in {Cardinality(Watching), Cardinality(Watching) + 1}
    BY <2>1, SessionsFinite, FS_AddElement
  <2>3. Cardinality(NewWatchers)' = Cardinality(NewWatchers) - 1
    BY <1>2, PhaseMove DEF CreateSession, NewWatchers
  <2>4. QED
    BY <2>2, <2>3, SessionsFinite, PhaseType, SlotsType, LimitsAssumption
    DEF ConcurrencyBounded, NewWatchers, Slots
<1>3. ASSUME NEW s \in SessionKeys, Heartbeat(s) PROVE ConcurrencyBounded'
  <2>1. CASE LapsedResume
    BY <2>1 DEF ConcurrencyBounded
  <2>2. CASE ~LapsedResume
    BY <1>3, <2>2, ConcurrencyKeeps DEF Heartbeat
  <2>3. QED
    BY <2>1, <2>2, SwitchesAssumption
<1>4. ASSUME NEW s \in SessionKeys, EndSession(s) \/ Lapse(s) PROVE ConcurrencyBounded'
  BY <1>4, ConcurrencyKeeps DEF EndSession, Lapse
<1>5. ASSUME NEW r \in Requests, ReadLink(r) \/ Deny(r) PROVE ConcurrencyBounded'
  <2>1. CASE ReadLink(r)
    BY <2>1, ConcurrencyKeeps DEF ReadLink, RefuseInactive, RefuseCredentials, RefuseSilently,
       Refuse, FindOverdue, BlockAddress, HitViewLimit, Admit, Proceed
  <2>2. CASE Deny(r)
    BY <2>2, ConcurrencyKeeps DEF Deny, ExpireLink, NotifyExpired, NotifySecurity, NotifyLimit,
       MarkLimit
  <2>3. QED
    BY <1>5, <2>1, <2>2
<1>6. ASSUME NEW r \in Requests, FindDevice(r) \/ CountDevices(r) \/ CountSessions(r)
      PROVE  ConcurrencyBounded'
  BY <1>6, ConcurrencyKeeps DEF FindDevice, CountDevices, CountSessions, DenyIf
<1>7. ASSUME NEW r \in Requests, UpsertDevice(r) \/ CreateViewLog(r) \/ IncrementViewCount(r)
      PROVE  ConcurrencyBounded'
  BY <1>7, ConcurrencyKeeps DEF UpsertDevice, CreateViewLog, IncrementViewCount
<1>8. ASSUME NEW r \in Requests, Report(r) PROVE ConcurrencyBounded'
  BY <1>8, ConcurrencyKeeps DEF Report, FireAlert, RecordThreshold, IssueGrant
<1>9. ASSUME NEW r \in Requests, Fail(r) PROVE ConcurrencyBounded'
  BY <1>9, ConcurrencyKeeps DEF Fail
<1>10. ASSUME UNCHANGED <<pc, active, recent>> PROVE ConcurrencyBounded'
  BY <1>10, ConcurrencyKeeps
<1>11. QED
  BY <1>1, <1>2, <1>3, <1>4, <1>5, <1>6, <1>7, <1>8, <1>9, <1>10 DEF Next, Handle, Check,
     Record, Watch, PassExpiry, vars

(* The concurrency limit is overshot by no more than the other requests in       *)
(* flight, as long as nobody touches a session that lapsed.                     *)
THEOREM ConcurrencyIsBounded == Spec => []ConcurrencyBounded
  BY ConcurrencyInit, ConcurrencyStep, RowsCorrect, PTL DEF Spec

-----------------------------------------------------------------------------
(* Link administration and the sweep (LinkAdministration).                       *)

Writes == StatusWrites \cup Extensions \cup LimitWrites \cup Updates

OfficeTyped ==
  /\ op \in [Admins -> Writes \cup {None}]
  /\ sweep \in [Sweeps -> {"idle", "write", "notify"}]

LEMMA KindsOfWrites ==
  ASSUME NEW write \in Writes
  PROVE  /\ write.kind = "status" => write \in StatusWrites
         /\ write.kind = "extend" => write \in Extensions
         /\ write.kind = "limit" => write \in LimitWrites
         /\ write.kind = "update" => write \in Updates
         /\ write.kind \in {"status", "extend", "limit", "update"}
<1>1. CASE write \in StatusWrites
  BY <1>1 DEF StatusWrites
<1>2. CASE write \in Extensions
  BY <1>2 DEF Extensions
<1>3. CASE write \in LimitWrites
  BY <1>3 DEF LimitWrites
<1>4. CASE write \in Updates
  BY <1>4 DEF Updates
<1>5. QED
  BY <1>1, <1>2, <1>3, <1>4 DEF Writes

LimitsTyped ==
  /\ maxViews \in ViewLimits /\ maxDevices \in DeviceLimits /\ maxSessions \in SessionLimits
  /\ maxConcurrent \in ConcurrentLimits /\ ipAllowlist \in AllowLists

(* What the admin API and the sweep never touch, and what they leave of the rest. *)
OfficeLeaves ==
  /\ UNCHANGED <<viewCount, lastThresholdFired, rows, alerts, pc, local>>
  /\ status' \in Statuses /\ neverExpire' \in BOOLEAN /\ expiresAt' \in Expiries
  /\ LimitsTyped'
  /\ notices' \in [Kinds -> 0 .. Several] /\ notices'["limit"] = notices["limit"]
  /\ OfficeTyped'

LEMMA NothingLeft ==
  ASSUME RowsInv, UNCHANGED vars, OfficeTyped'
  PROVE  OfficeLeaves
  BY DEF OfficeLeaves, LimitsTyped, RowsInv, TypeOK, vars, link, limits, expiry, mail

LEMMA ReadLeaves ==
  ASSUME RowsInv, OfficeTyped, NEW a \in Admins, NEW write \in Writes, Read(a, write)
  PROVE  OfficeLeaves
<1>1. OfficeTyped' /\ UNCHANGED vars
  BY DEF OfficeTyped, Read
<1>2. QED
  BY <1>1, NothingLeft

LEMMA StoreLeaves ==
  ASSUME RowsInv, OfficeTyped, NEW a \in Admins, Store(a)
  PROVE  OfficeLeaves
<1>1. op[a] \in Writes
  BY DEF OfficeTyped, Store
<1>2. OfficeTyped' /\ UNCHANGED <<viewCount, lastThresholdFired, rows, mail, pc, local>>
  BY DEF OfficeTyped, Store, Done
<1>3. /\ status' \in Statuses /\ neverExpire' \in BOOLEAN /\ expiresAt' \in Expiries
      /\ LimitsTyped'
  <2> USE DEF RowsInv, TypeOK, expiry, limits, LimitsTyped
  <2>1. CASE StoreStatus(a)
    BY <1>1, <2>1, KindsOfWrites DEF StoreStatus, StatusWrites, Statuses
  <2>2. CASE StoreExtension(a)
    BY <1>1, <2>2, KindsOfWrites DEF StoreExtension, Extensions, Dates, Expiries, Statuses
  <2>3. CASE StoreLimit(a)
    BY <1>1, <2>3, KindsOfWrites DEF StoreLimit, LimitWrites
  <2>4. CASE StoreUpdate(a)
    BY <1>1, <2>4, KindsOfWrites DEF StoreUpdate, StoreExpiry, Given, Updates, Dates, Expiries
  <2>5. QED
    BY <2>1, <2>2, <2>3, <2>4 DEF Store
<1>4. QED
  BY <1>2, <1>3 DEF OfficeLeaves, RowsInv, TypeOK, mail

LEMMA AdminLeaves ==
  ASSUME RowsInv, OfficeTyped, NEW a \in Admins, Administer(a)
  PROVE  OfficeLeaves
<1>1. ASSUME NEW to \in {"ACTIVE", "DISABLED", "REVOKED"}, SetStatus(a, to) PROVE OfficeLeaves
  <2>1. [kind |-> "status", to |-> to] \in Writes
    BY DEF Writes, StatusWrites
  <2>2. QED
    BY <1>1, <2>1, ReadLeaves DEF SetStatus
<1>2. CASE Remove(a)
  <2>1. [kind |-> "status", to |-> "DELETED"] \in Writes
    BY DEF Writes, StatusWrites
  <2>2. QED
    BY <1>2, <2>1, ReadLeaves DEF Remove
<1>3. ASSUME NEW at \in Dates, ExtendExpiration(a, at) PROVE OfficeLeaves
  <2>1. [kind |-> "extend", expiresAt |-> at] \in Writes
    BY DEF Writes, Extensions
  <2>2. QED
    BY <1>3, <2>1, ReadLeaves DEF ExtendExpiration
<1>4. ASSUME NEW limit \in ViewLimits, IncreaseViewLimit(a, limit) PROVE OfficeLeaves
  <2>1. [kind |-> "limit", maxViews |-> limit] \in Writes
    BY DEF Writes, LimitWrites
  <2>2. QED
    BY <1>4, <2>1, ReadLeaves DEF IncreaseViewLimit
<1>5. ASSUME NEW body \in Bodies, Update(a, body) PROVE OfficeLeaves
  <2>1. body \in Writes
    BY BodiesAssumption DEF Writes
  <2>2. QED
    BY <1>5, <2>1, ReadLeaves DEF Update
<1>6. CASE AdminFails(a)
  <2>1. OfficeTyped' /\ UNCHANGED vars
    BY <1>6 DEF AdminFails, OfficeTyped
  <2>2. QED
    BY <2>1, NothingLeft
<1>7. QED
  BY <1>1, <1>2, <1>3, <1>4, <1>5, <1>6, StoreLeaves DEF Administer

LEMMA SweepLeaves ==
  ASSUME RowsInv, OfficeTyped, NEW w \in Sweeps, Sweep(w) \/ SweepFails(w)
  PROVE  OfficeLeaves
<1>1. OfficeTyped'
  BY DEF OfficeTyped, Sweep, Find, ExpireFound, NotifyFound, SweepFails
<1>2. CASE Find(w) \/ SweepFails(w)
  BY <1>1, <1>2, NothingLeft DEF Find, SweepFails
<1>3. CASE ExpireFound(w)
  BY <1>1, <1>3
  DEF ExpireFound, OfficeLeaves, LimitsTyped, RowsInv, TypeOK, Statuses, mail, expiry, limits
<1>4. CASE NotifyFound(w)
  <2>1. notices' \in [Kinds -> 0 .. Several] /\ notices'["limit"] = notices["limit"]
    BY <1>4 DEF NotifyFound, Notify, Tally, Several, Kinds, RowsInv, TypeOK
  <2>2. QED
    BY <1>1, <1>4, <2>1
    DEF NotifyFound, Notify, OfficeLeaves, LimitsTyped, RowsInv, TypeOK, Statuses, link, limits, expiry
<1>5. QED
  BY <1>2, <1>3, <1>4 DEF Sweep

-----------------------------------------------------------------------------
(* A step of the link is one of the engine or one of the office. *)
LEMMA TwoHouses ==
  ASSUME RowsInv, OfficeTyped, [LinkNext]_everything
  PROVE  ([Next]_vars /\ UNCHANGED office) \/ OfficeLeaves
  BY AdminLeaves, SweepLeaves DEF LinkNext, everything, office

LinkInv == RowsInv /\ OfficeTyped

LEMMA LinkInvInit == LinkInit => LinkInv
  BY RowsInit DEF LinkInit, LinkInv, OfficeTyped

LEMMA LinkInvStep == LinkInv /\ [LinkNext]_everything => LinkInv'
<1> SUFFICES ASSUME LinkInv, [LinkNext]_everything PROVE LinkInv'
  OBVIOUS
<1>1. CASE [Next]_vars /\ UNCHANGED office
  BY <1>1, RowsStep DEF LinkInv, OfficeTyped, office
<1>2. CASE OfficeLeaves
  BY <1>2 DEF LinkInv, OfficeLeaves, LimitsTyped, RowsInv, TypeOK, Holding, KeysDiffer, rows, local
<1>3. QED
  BY <1>1, <1>2, TwoHouses DEF LinkInv

(* link.service.ts and scheduler.ts leave the engine every row it rests on, and     *)
(* the link in a state that it knows, whatever they write over what.              *)
THEOREM LinkCorrect == LinkSpec => []LinkInv
<1>1. QED
  BY LinkInvInit, LinkInvStep, PTL DEF LinkSpec

(* The row, the requests, the writes that admins are about to make (link.service.ts:     *)
(* 165-237) and the ticks (scheduler.ts:14-27) keep their types.                   *)
THEOREM LinkTyped == LinkSpec => []LinkTypeOK
<1>1. LinkInv => LinkTypeOK
  BY KindsOfWrites DEF LinkInv, RowsInv, OfficeTyped, LinkTypeOK
<1>2. QED
  BY <1>1, LinkCorrect, PTL

-----------------------------------------------------------------------------
(* The quota of views, now with admins who change the limit.                     *)

LEMMA OfficeViews ==
  ASSUME OfficeLeaves
  PROVE  [Views!Next]_(Views!quota)
<1>1. UNCHANGED <<viewCount, Cardinality(Admitted)>> /\ maxViews' \in ViewLimits
  BY PhaseStays DEF OfficeLeaves, LimitsTyped, Admitted
<1>2. QED
  BY <1>1 DEF Views!Next, Views!SetLimit

LEMMA LinkViewsStep == LinkInv /\ [LinkNext]_everything => [Views!Next]_(Views!quota)
  BY TwoHouses, ViewsStep, OfficeViews DEF LinkInv

(* increaseViewLimit and the PATCH write the limit without looking at the count;    *)
(* the engine still implements the quota, whose limit may change at any time.    *)
THEOREM LinkViewsRefineQuota == LinkSpec => ViewQuota
<1>1. LinkInit => Views!Init
  BY ViewsInit DEF LinkInit
<1>2. QED
  BY <1>1, LinkViewsStep, LinkCorrect, PTL DEF LinkSpec, ViewQuota, Views!Spec

-----------------------------------------------------------------------------
(* A request that enters no phase of the admitted leaves no more of them than      *)
(* there were.                                                                  *)
Draining == viewCount' + Cardinality(Admitted)' <= viewCount + Cardinality(Admitted)

LEMMA NoMoreAdmitted ==
  ASSUME RowsInv, NEW r \in Requests, NEW l, Goto(r, l), UNCHANGED viewCount,
         l \in Checking \cup Recording => pc[r] \in Checking \cup Recording
  PROVE  Draining
<1>1. /\ Cardinality(Admitted)' \in 0 .. Slots /\ Cardinality(Admitted) \in 0 .. Slots
      /\ Cardinality(Admitted)' <= Cardinality(Admitted)
  BY PhaseMove, PhaseType, PhaseLeaves, SlotsType DEF Admitted
<1>2. QED
  BY <1>1, SlotsType DEF Draining, RowsInv, TypeOK

LEMMA EngineDrains ==
  ASSUME RowsInv, [Next]_vars, status # "ACTIVE"
  PROVE  Draining
<1> USE DEF Resting, Checking, Recording, Reporting, Denying, link, limits, Answer
<1>1. ASSUME NEW r \in Requests, ReadLink(r) PROVE Draining
  <2>1. CASE Refuse(r)
    BY <2>1, NoMoreAdmitted DEF Refuse
  <2>2. QED
    BY <1>1, <2>1 DEF ReadLink, RefuseInactive, RefuseCredentials, RefuseSilently, FindOverdue,
       BlockAddress, HitViewLimit, Admit, Open
<1>2. ASSUME NEW r \in Requests, Deny(r) \/ Check(r) PROVE Draining
  <2>1. CASE Deny(r)
    BY <2>1, NoMoreAdmitted DEF Deny, ExpireLink, NotifyExpired, NotifySecurity, NotifyLimit,
       MarkLimit
  <2>2. CASE Check(r)
    BY <2>2, NoMoreAdmitted DEF Check, FindDevice, CountDevices, CountSessions, CountWatching,
       DenyIf
  <2>3. QED
    BY <1>2, <2>1, <2>2
<1>3. ASSUME NEW r \in Requests, Record(r) PROVE Draining
  <2>1. CASE UpsertDevice(r) \/ CreateSession(r) \/ CreateViewLog(r)
    BY <2>1, NoMoreAdmitted DEF UpsertDevice, CreateSession, CreateViewLog
  <2>2. CASE IncrementViewCount(r)
    <3>1. PICK l \in {"grant", "alert"} : Goto(r, l)
      BY <2>2 DEF IncrementViewCount
    <3>2. /\ Cardinality(Admitted)' = Cardinality(Admitted) - 1
          /\ Cardinality(Admitted) \in 0 .. Slots
      BY <2>2, <3>1, PhaseMove, PhaseType DEF Admitted, IncrementViewCount
    <3>3. viewCount' = viewCount + 1 /\ viewCount \in Nat
      BY <2>2 DEF IncrementViewCount, RowsInv, TypeOK
    <3>4. QED
      BY <3>2, <3>3, SlotsType DEF Draining
  <2>3. QED
    BY <1>3, <2>1, <2>2 DEF Record
<1>4. ASSUME UNCHANGED <<pc, viewCount>> PROVE Draining
  <2>1. Cardinality(Admitted)' = Cardinality(Admitted) /\ Cardinality(Admitted) \in 0 .. Slots
    BY <1>4, PhaseStays, PhaseType DEF Admitted
  <2>2. QED
    BY <1>4, <2>1, SlotsType DEF Draining, RowsInv, TypeOK
<1>5. ASSUME NEW r \in Requests, Report(r) \/ Fail(r) PROVE Draining
  BY <1>4, <1>5, NoMoreAdmitted DEF Report, FireAlert, RecordThreshold, IssueGrant, Fail
<1>6. QED
  BY <1>1, <1>2, <1>3, <1>4, <1>5 DEF Next, Handle, Watch, Heartbeat, EndSession, Lapse,
     PassExpiry, vars

(* requestAccess reads the status before anything else: once the link is closed, by   *)
(* an admin, the sweep or a viewer, only those admitted before can still be       *)
(* counted, whoever of them fails.                                              *)
THEOREM ViewsAlwaysDrain == LinkSpec => ViewsDrain
<1> DEFINE A == status # "ACTIVE" /\ status' # "ACTIVE" => Draining
<1>1. ASSUME LinkInv, [LinkNext]_everything PROVE A
  <2>1. CASE [Next]_vars
    BY <1>1, <2>1, EngineDrains DEF LinkInv
  <2>2. CASE OfficeLeaves
    <3>1. UNCHANGED <<viewCount, Cardinality(Admitted)>> /\ Cardinality(Admitted) \in 0 .. Slots
      BY <2>2, PhaseStays, PhaseType DEF OfficeLeaves, Admitted
    <3>2. QED
      BY <1>1, <3>1, SlotsType DEF Draining, LinkInv, RowsInv, TypeOK
  <2>3. QED
    BY <1>1, <2>1, <2>2, TwoHouses DEF LinkInv
<1>2. ASSUME LinkInv, [LinkNext]_everything PROVE [A]_everything
  BY <1>1, <1>2
<1>3. ViewsDrain <=> [][A]_everything
  BY PTL DEF ViewsDrain, Draining
<1>4. QED
  BY <1>2, <1>3, LinkCorrect, PTL DEF LinkSpec

-----------------------------------------------------------------------------
(* The engine's other promises.                                                  *)
EngineInv == AlertsInv /\ Accounts /\ ConcurrencyBounded

LEMMA OfficeKeepsEngine == LinkInv /\ EngineInv /\ OfficeLeaves => EngineInv'
<1> SUFFICES ASSUME LinkInv, EngineInv, OfficeLeaves PROVE EngineInv'
  OBVIOUS
<1> USE DEF OfficeLeaves, rows, local
<1>1. AlertsInv'
  <2>1. RowsInv'
    BY DEF LinkInv, LimitsTyped, RowsInv, TypeOK, Holding, KeysDiffer
  <2>2. MarkedMeansSent' /\ AlertsInOrder'
    BY DEF EngineInv, AlertsInv, MarkedMeansSent, AlertsInOrder, Sent
  <2>3. QED
    BY <2>1, <2>2 DEF AlertsInv
<1>2. Accounts'
  BY PhaseStays DEF EngineInv, Accounts
<1>3. ConcurrencyBounded'
  BY PhaseStays DEF EngineInv, ConcurrencyBounded, Watching, NewWatchers, Slots
<1>4. QED
  BY <1>1, <1>2, <1>3 DEF EngineInv

LEMMA EngineInit == LinkInit => EngineInv
  BY AlertsInit, AccountsInit, ConcurrencyInit DEF LinkInit, EngineInv

LEMMA EngineStep == LinkInv /\ EngineInv /\ [LinkNext]_everything => EngineInv'
  BY TwoHouses, OfficeKeepsEngine, AlertsStep, AccountsStep, ConcurrencyStep DEF LinkInv, EngineInv

LEMMA EngineAlways == LinkSpec => []EngineInv
  BY EngineInit, EngineStep, LinkCorrect, PTL DEF LinkSpec

(* Neither the admin API nor the sweep takes anything from what the engine promises    *)
(* on its own: no mark without its alert, no grant without a counted and logged   *)
(* view.                                                                        *)
THEOREM EngineKeepsItsPromises == LinkSpec => [](MarkedMeansSent /\ GrantsAccounted)
<1>1. LinkInv /\ Accounts => GrantsAccounted
  BY PhaseType, SlotsType, SessionsFinite DEF Accounts, GrantsAccounted, LinkInv, RowsInv, TypeOK
<1>2. LinkInv /\ EngineInv => MarkedMeansSent /\ GrantsAccounted
  BY <1>1 DEF EngineInv, AlertsInv
<1>3. QED
  BY <1>2, EngineAlways, LinkCorrect, PTL

-----------------------------------------------------------------------------
(* The limits under administration: a request goes by a limit that may have     *)
(* changed since it read the row.                                               *)

LEMMA LateSessions == LinkInv /\ [LinkNext]_everything => [SessionRows!LateNext]_(SessionRows!quota)
<1> SUFFICES ASSUME LinkInv, [LinkNext]_everything
             PROVE  [SessionRows!LateNext]_(SessionRows!quota)
  OBVIOUS
<1>1. CASE [Next]_vars
  <2>1. \A r \in Requests : pc[r] \in Checking => seen[r].maxSessions \in SessionLimits
    BY DEF LinkInv, RowsInv, Holding, LimitsRead
  <2>2. QED
    BY <1>1, <2>1, SessionsStep
    DEF LinkInv, SessionsMove, SessionRows!LateNext, SessionRows!AdmitLate
<1>2. CASE OfficeLeaves
  BY <1>2, PhaseStays
  DEF OfficeLeaves, LimitsTyped, rows, NewSessions, SessionRows!LateNext, SessionRows!SetLimit
<1>3. QED
  BY <1>1, <1>2, TwoHouses DEF LinkInv

LEMMA LateDevices == LinkInv /\ [LinkNext]_everything => [DeviceRows!LateNext]_(DeviceRows!quota)
<1> SUFFICES ASSUME LinkInv, [LinkNext]_everything
             PROVE  [DeviceRows!LateNext]_(DeviceRows!quota)
  OBVIOUS
<1>1. CASE [Next]_vars
  <2>1. \A r \in Requests : pc[r] \in Checking => seen[r].maxDevices \in DeviceLimits
    BY DEF LinkInv, RowsInv, Holding, LimitsRead
  <2>2. QED
    BY <1>1, <2>1, DevicesStep
    DEF LinkInv, DevicesMove, DeviceRows!LateNext, DeviceRows!AdmitLate
<1>2. CASE OfficeLeaves
  <2>1. NewDevices' = NewDevices /\ devices' = devices /\ maxDevices' \in DeviceLimits
    BY <1>2 DEF OfficeLeaves, LimitsTyped, rows, local, NewDevices
  <2>2. QED
    BY <2>1 DEF DeviceRows!LateNext, DeviceRows!SetLimit
<1>3. QED
  BY <1>1, <1>2, TwoHouses DEF LinkInv

SessionProofs == INSTANCE QuotaProofs WITH
  Limits <- SessionLimits, limit <- maxSessions, used <- Cardinality(sessions),
  pending <- Cardinality(NewSessions)

LEMMA LinkSessionsBounded == LinkSpec => []SessionRows!Bounded
<1>1. Slots \in Nat /\ SessionLimits \subseteq Nat
  BY SlotsType, LimitsAssumption
<1>2. SessionProofs!LateSpec => []SessionProofs!QuotaInv
  BY <1>1, SessionProofs!QuotaBounded
<1>3. SessionProofs!QuotaInv => SessionRows!Bounded
  BY DEF SessionProofs!QuotaInv, SessionProofs!Bounded, SessionRows!Bounded,
     SessionProofs!Unlimited, SessionRows!Unlimited
<1>4. LinkInit => SessionProofs!Init
  BY SessionsInit DEF LinkInit, SessionRows!Init, SessionProofs!Init
<1>5. [SessionRows!LateNext]_(SessionRows!quota) => [SessionProofs!LateNext]_(SessionProofs!quota)
  BY DEF SessionRows!LateNext, SessionRows!AdmitLate, SessionRows!AdmitUnder, SessionRows!Use,
     SessionRows!Abandon, SessionRows!SetLimit, SessionRows!Room, SessionRows!Unlimited,
     SessionRows!quota, SessionProofs!LateNext, SessionProofs!AdmitLate,
     SessionProofs!AdmitUnder, SessionProofs!Use, SessionProofs!Abandon,
     SessionProofs!SetLimit, SessionProofs!Room, SessionProofs!Unlimited, SessionProofs!quota
<1>6. QED
  BY <1>2, <1>3, <1>4, <1>5, LateSessions, LinkCorrect, PTL DEF LinkSpec, SessionProofs!LateSpec

DeviceProofs == INSTANCE QuotaProofs WITH
  Limits <- DeviceLimits, limit <- maxDevices, used <- Cardinality(devices),
  pending <- Cardinality(NewDevices)

LEMMA LinkDevicesBounded == LinkSpec => []DeviceRows!Bounded
<1>1. Slots \in Nat /\ DeviceLimits \subseteq Nat
  BY SlotsType, LimitsAssumption
<1>2. DeviceProofs!LateSpec => []DeviceProofs!QuotaInv
  BY <1>1, DeviceProofs!QuotaBounded
<1>3. DeviceProofs!QuotaInv => DeviceRows!Bounded
  BY DEF DeviceProofs!QuotaInv, DeviceProofs!Bounded, DeviceRows!Bounded,
     DeviceProofs!Unlimited, DeviceRows!Unlimited
<1>4. LinkInit => DeviceProofs!Init
  BY DevicesInit DEF LinkInit, DeviceRows!Init, DeviceProofs!Init
<1>5. [DeviceRows!LateNext]_(DeviceRows!quota) => [DeviceProofs!LateNext]_(DeviceProofs!quota)
  BY DEF DeviceRows!LateNext, DeviceRows!AdmitLate, DeviceRows!AdmitUnder, DeviceRows!Use,
     DeviceRows!Abandon, DeviceRows!SetLimit, DeviceRows!Room, DeviceRows!Unlimited,
     DeviceRows!quota, DeviceProofs!LateNext, DeviceProofs!AdmitLate, DeviceProofs!AdmitUnder,
     DeviceProofs!Use, DeviceProofs!Abandon, DeviceProofs!SetLimit, DeviceProofs!Room,
     DeviceProofs!Unlimited, DeviceProofs!quota
<1>6. QED
  BY <1>2, <1>3, <1>4, <1>5, LateDevices, LinkCorrect, PTL DEF LinkSpec, DeviceProofs!LateSpec

(* link.service.ts:137-196 and streaming.service.ts:168-222: whatever limits admins *)
(* set, before and while requests are in flight, views, devices, sessions and the  *)
(* watchers exceed the largest limit the link can have had by less than the number *)
(* of requests in flight at a time.  It says nothing of a limit in force that is   *)
(* lower: what was let in before stays.                                           *)
THEOREM LimitsStayBounded == LinkSpec => []LimitsBounded
<1>1. LinkSpec => []Views!Bounded
  BY LinkViewsRefineQuota, ViewQuotaBounds, PTL
<1>2. EngineInv => ConcurrencyBounded
  BY DEF EngineInv
<1>3. Views!Bounded /\ DeviceRows!Bounded /\ SessionRows!Bounded /\ ConcurrencyBounded => LimitsBounded
  BY DEF LimitsBounded
<1>4. QED
  BY <1>1, <1>2, <1>3, LinkDevicesBounded, LinkSessionsBounded, EngineAlways, PTL

-----------------------------------------------------------------------------
(* What admins are told of the link (LinkAlerts).                                *)
AlertVars == <<everything, met>>

(* What a history that met no failure tells of the step.                         *)
LEMMA NoFailureMet ==
  ASSUME TypeOK, [AlertNext]_AlertVars, "failure" \notin met'
  PROVE  "failure" \notin met /\ \A r \in Requests : ~Fail(r)
<1>1. CASE UNCHANGED AlertVars
  <2>1. \A r \in Requests : pc[r] \notin Resting => ~(pc' = [pc EXCEPT ![r] = "failed"])
    BY <1>1 DEF AlertVars, everything, vars, Resting, TypeOK
  <2>2. QED
    BY <1>1, <2>1 DEF AlertVars, Fail, Answer, Goto
<1>2. CASE AlertNext
  <2>1. met \subseteq met' /\ ~\E r \in Busy : pc'[r] = "failed"
    BY <1>2 DEF AlertNext, Meets
  <2>2. ASSUME NEW r \in Requests, Fail(r) PROVE FALSE
    <3>1. r \in Busy /\ pc'[r] = "failed"
      BY <2>2 DEF Fail, Answer, Goto, TypeOK, Busy
    <3>2. QED
      BY <2>1, <3>1
  <2>3. QED
    BY <2>1, <2>2
<1>3. QED
  BY <1>1, <1>2

LEMMA AlertsAreLinks == ASSUME [AlertNext]_AlertVars PROVE [LinkNext]_everything
  BY DEF AlertNext, AlertVars

(* notification.service.ts:85-119: unless a request failed, no threshold that the *)
(* view count has passed stays without its alert once all requests are answered, *)
(* for any rules, any number of requests and whatever limits admins set.        *)
THEOREM NoneIsMissed == AlertSpec => []NoThresholdMissed
<1> DEFINE Remembered == LinkInv /\ EngineInv /\ ("failure" \notin met => NoneForgotten)
<1>1. AlertInit => Remembered
  BY LinkInvInit, EngineInit, ForgottenInit DEF AlertInit, LinkInit
<1>2. Remembered /\ [AlertNext]_AlertVars => Remembered'
  <2> SUFFICES ASSUME Remembered, [AlertNext]_AlertVars PROVE Remembered'
    OBVIOUS
  <2>1. [LinkNext]_everything /\ LinkInv /\ EngineInv /\ AlertsInv /\ TypeOK
    BY AlertsAreLinks DEF EngineInv, AlertsInv, RowsInv
  <2>2. ASSUME "failure" \notin met' PROVE NoneForgotten'
    <3>1. NoneForgotten /\ \A r \in Requests : ~Fail(r)
      BY <2>1, <2>2, NoFailureMet
    <3>2. CASE [Next]_vars
      BY <2>1, <3>1, <3>2, ForgottenStep
    <3>3. CASE OfficeLeaves
      BY <3>1, <3>3 DEF OfficeLeaves, NoneForgotten, Sent, local
    <3>4. QED
      BY <2>1, <3>2, <3>3, TwoHouses DEF LinkInv
  <2>3. QED
    BY <2>1, <2>2, LinkInvStep, EngineStep
<1>3. Remembered => NoThresholdMissed
  <2> SUFFICES ASSUME NoneForgotten, Busy = {}, NEW t \in Thresholds, t <= viewCount
               PROVE  alerts[t] >= 1
    BY DEF NoThresholdMissed
  <2>1. PICK i \in DOMAIN Rules : t = Rules[i]
    BY DEF Thresholds
  <2>2. \A r \in Requests : pc[r] # "alert"
    BY DEF Busy, Resting
  <2>3. QED
    BY <2>1, <2>2 DEF NoneForgotten, Sent
<1>4. QED
  BY <1>1, <1>2, <1>3, PTL DEF AlertSpec, AlertVars

(* A history that met nothing says that at most one request is under way and that *)
(* none counts a view once the limit notice has replaced the mark.               *)
LEMMA NothingMet ==
  ASSUME RowsInv, [AlertNext]_AlertVars, met' = {}, OneAtATime
  PROVE  /\ met = {} /\ OneAtATime'
         /\ lastThresholdFired # LimitReached \/ viewCount' = viewCount
<1>1. CASE UNCHANGED AlertVars
  BY <1>1 DEF OneAtATime, AlertVars, everything, vars, link
<1>2. CASE AlertNext
  <2>1. /\ met = {} /\ ~(Cardinality(Busy') > 1)
        /\ lastThresholdFired # LimitReached \/ viewCount' = viewCount
    BY <1>2 DEF AlertNext, Meets
  <2> SUFFICES ASSUME NEW q \in Requests, NEW r \in Requests, q # r,
                      pc'[q] \notin Resting, pc'[r] \notin Resting
               PROVE  FALSE
    BY <2>1 DEF OneAtATime
  <2>2. {q, r} \subseteq Busy' /\ Busy' \subseteq Requests
    BY DEF Busy
  <2>3. IsFiniteSet(Busy') /\ Cardinality({q, r}) <= Cardinality(Busy') /\ Cardinality(Busy') \in Nat
    BY <2>2, RequestsAssumption, FS_Subset, FS_CardinalityType
  <2>4. Cardinality({q, r}) = 2
    <3>1. IsFiniteSet({q}) /\ Cardinality({q}) = 1
      BY FS_Singleton
    <3>2. {q, r} = {q} \cup {r} /\ r \notin {q}
      OBVIOUS
    <3>3. Cardinality({q} \cup {r}) = Cardinality({q}) + 1
      BY <3>1, <3>2, FS_AddElement
    <3>4. QED
      BY <3>1, <3>2, <3>3
  <2>5. QED
    BY <2>1, <2>3, <2>4
<1>3. QED
  BY <1>1, <1>2

(* notification.service.ts:85-89 and streaming.service.ts:185: as long as requests *)
(* come one at a time, none fails and none counts a view after the limit notice,   *)
(* each alert and the notice are sent once, however admins move the limits,        *)
(* provided that no two rules have the same threshold.                            *)
THEOREM SerialAlertsOnce ==
  ASSUME RulesDiffer
  PROVE  AlertSpec => []SentOnceSerially
<1> DEFINE Once == LinkInv /\ (met = {} => SerialInv)
<1>1. AlertInit => Once
  BY LinkInvInit, SerialInit DEF AlertInit, LinkInit
<1>2. Once /\ [AlertNext]_AlertVars => Once'
  <2> SUFFICES ASSUME Once, [AlertNext]_AlertVars PROVE Once'
    OBVIOUS
  <2>1. [LinkNext]_everything /\ LinkInv /\ RowsInv /\ TypeOK
    BY AlertsAreLinks DEF LinkInv, RowsInv
  <2>2. ASSUME met' = {} PROVE SerialInv'
    <3>1. met = {}
      BY <2>2 DEF AlertNext, AlertVars
    <3>2. /\ SerialInv /\ OneAtATime'
          /\ lastThresholdFired # LimitReached \/ viewCount' = viewCount
      BY <2>1, <2>2, <3>1, NothingMet DEF SerialInv
    <3>3. \A r \in Requests : ~Fail(r)
      BY <2>1, <2>2, NoFailureMet
    <3>4. CASE [Next]_vars
      BY <2>1, <3>2, <3>3, <3>4, SerialStep
    <3>5. CASE OfficeLeaves
      BY <3>2, <3>5 DEF OfficeLeaves, local, SerialInv, SilencedAtRest, NoticeOnce, SentIsMarked,
         AlertsOnce, Sent
    <3>6. QED
      BY <2>1, <3>4, <3>5, TwoHouses DEF LinkInv
  <2>3. QED
    BY <2>1, <2>2, LinkInvStep
<1>3. Once => SentOnceSerially
  BY DEF SerialInv, AlertsOnce, NoticeOnce, SentOnceSerially, AlertSentOnce, LimitNotifiedOnce
<1>4. QED
  BY <1>1, <1>2, <1>3, PTL DEF AlertSpec, AlertVars

-----------------------------------------------------------------------------
(* What has been decided and not been overtaken (LinkRaces).                      *)

(* Whoever is about to write has read a row that still says what he decided on,    *)
(* unless he is overtaken.                                                      *)
RaceInv ==
  /\ \A r \in Requests :
       pc[r] = "expire" /\ <<"request", r>> \notin overtaken => status = "ACTIVE" /\ Overdue
  /\ \A w \in Sweeps :
       sweep[w] = "write" /\ <<"sweep", w>> \notin overtaken => status = "ACTIVE" /\ Overdue
  /\ \A a \in Admins :
       op[a] # None /\ <<"admin", a>> \notin overtaken /\ status = "DELETED" =>
         (op[a].kind = "status" => op[a].to = "ACTIVE")

(* What is decided in a step is so by the row as it is.                            *)
DecidesRightly ==
  /\ \A r \in Requests : pc'[r] = "expire" => pc[r] = "expire" \/ (status = "ACTIVE" /\ Overdue)
  /\ \A w \in Sweeps : sweep'[w] = "write" => sweep[w] = "write" \/ (status = "ACTIVE" /\ Overdue)
  /\ \A a \in Admins : op'[a] # None /\ op'[a] # op[a] /\ status = "DELETED" =>
       (op'[a].kind = "status" => op'[a].to = "ACTIVE")

(* Who changes the status has decided on it before, and is done with it.          *)
WritesDecided ==
  \/ status' = status
  \/ \E r \in Requests : pc[r] = "expire" /\ pc'[r] # "expire"
  \/ \E w \in Sweeps : sweep[w] = "write" /\ sweep'[w] # "write"
  \/ \E a \in Admins :
       /\ op[a] # None /\ op'[a] = None
       /\ status' = "ACTIVE" \/ (op[a].kind = "status" /\ op[a].to = status')

LEMMA MovesElsewhere ==
  ASSUME RowsInv, NEW r \in Requests, NEW l, l # "expire", Goto(r, l)
  PROVE  \A q \in Requests : pc'[q] = "expire" => pc[q] = "expire"
  BY DEF Goto, RowsInv, TypeOK

LEMMA EngineDecides ==
  ASSUME RowsInv, [Next]_vars, UNCHANGED office
  PROVE  DecidesRightly /\ WritesDecided
<1> DEFINE Keeps == \A q \in Requests : pc'[q] = "expire" => pc[q] = "expire"
<1>1. ASSUME Keeps \/ (status = "ACTIVE" /\ Overdue) PROVE DecidesRightly
  BY <1>1 DEF DecidesRightly, office
<1> USE DEF link, limits, Answer
<1>2. ASSUME NEW r \in Requests, ReadLink(r) PROVE DecidesRightly /\ status' = status
  <2>1. CASE Refuse(r)
    BY <1>1, <2>1, MovesElsewhere DEF Refuse
  <2>2. ASSUME NEW v \in Viewers, FindOverdue(r, v) PROVE DecidesRightly /\ status' = status
    BY <1>1, <2>2 DEF FindOverdue, Proceed
  <2>3. ASSUME NEW v \in Viewers, BlockAddress(r, v) \/ HitViewLimit(r, v) \/ Admit(r, v)
        PROVE  DecidesRightly /\ status' = status
    BY <1>1, <2>3, MovesElsewhere DEF BlockAddress, HitViewLimit, Admit, Proceed
  <2>4. QED
    BY <1>2, <2>1, <2>2, <2>3 DEF ReadLink, RefuseInactive, RefuseCredentials, RefuseSilently
<1>3. ASSUME NEW r \in Requests, Deny(r) PROVE DecidesRightly /\ WritesDecided
  <2>1. CASE ExpireLink(r)
    <3>1. pc[r] = "expire" /\ pc'[r] # "expire"
      BY <2>1 DEF ExpireLink, Goto, RowsInv, TypeOK
    <3>2. QED
      BY <1>1, <2>1, <3>1, MovesElsewhere DEF ExpireLink, WritesDecided
  <2>2. CASE NotifyExpired(r) \/ NotifySecurity(r) \/ NotifyLimit(r) \/ MarkLimit(r)
    BY <1>1, <2>2, MovesElsewhere
    DEF NotifyExpired, NotifySecurity, NotifyLimit, MarkLimit, WritesDecided
  <2>3. QED
    BY <1>3, <2>1, <2>2 DEF Deny
<1>4. ASSUME NEW r \in Requests, Check(r) PROVE DecidesRightly /\ status' = status
  BY <1>1, <1>4, MovesElsewhere
  DEF Check, FindDevice, CountDevices, CountSessions, CountWatching, DenyIf
<1>5. ASSUME NEW r \in Requests, Record(r) PROVE DecidesRightly /\ status' = status
  BY <1>1, <1>5, MovesElsewhere
  DEF Record, UpsertDevice, CreateSession, CreateViewLog, IncrementViewCount
<1>6. ASSUME NEW r \in Requests, Report(r) \/ Fail(r) PROVE DecidesRightly /\ status' = status
  BY <1>1, <1>6, MovesElsewhere DEF Report, FireAlert, RecordThreshold, IssueGrant, Fail
<1>7. ASSUME UNCHANGED <<pc, status>> PROVE DecidesRightly /\ status' = status
  BY <1>1, <1>7
<1>8. QED
  BY <1>2, <1>3, <1>4, <1>5, <1>6, <1>7
  DEF WritesDecided, Next, Handle, Watch, Heartbeat, EndSession, Lapse, PassExpiry, vars

LEMMA ReadDecides ==
  ASSUME LinkInv, NEW a \in Admins, NEW write, Read(a, write),
         status = "DELETED" => (write.kind = "status" => write.to = "ACTIVE")
  PROVE  DecidesRightly /\ status' = status
<1>1. /\ pc' = pc /\ sweep' = sweep /\ status' = status
      /\ op' = [op EXCEPT ![a] = write] /\ op \in [Admins -> Writes \cup {None}]
  BY DEF Read, vars, link, limits, LinkInv, OfficeTyped
<1>2. QED
  BY <1>1 DEF DecidesRightly

LEMMA AdminDecides ==
  ASSUME LinkInv, NEW a \in Admins, Administer(a)
  PROVE  DecidesRightly /\ WritesDecided
<1>1. ASSUME NEW to \in {"ACTIVE", "DISABLED", "REVOKED"}, SetStatus(a, to)
      PROVE  DecidesRightly /\ status' = status
  BY <1>1, ReadDecides DEF SetStatus
<1>2. ASSUME Remove(a) PROVE DecidesRightly /\ status' = status
  BY <1>2, ReadDecides DEF Remove
<1>3. ASSUME NEW at \in Dates, ExtendExpiration(a, at) PROVE DecidesRightly /\ status' = status
  BY <1>3, ReadDecides DEF ExtendExpiration
<1>4. ASSUME NEW limit \in ViewLimits, IncreaseViewLimit(a, limit)
      PROVE  DecidesRightly /\ status' = status
  BY <1>4, ReadDecides DEF IncreaseViewLimit
<1>5. ASSUME NEW body \in Bodies, Update(a, body) PROVE DecidesRightly /\ status' = status
  BY <1>5, ReadDecides, BodiesAssumption DEF Update, Updates
<1>6. ASSUME Store(a) \/ AdminFails(a) PROVE DecidesRightly
  BY <1>6 DEF Store, Done, AdminFails, vars, DecidesRightly, LinkInv, OfficeTyped
<1>7. CASE Store(a)
  <2>1. op[a] # None /\ op'[a] = None
    BY <1>7 DEF Store, Done, LinkInv, OfficeTyped
  <2>2. status' \in {status, "ACTIVE"} \/ (op[a].kind = "status" /\ op[a].to = status')
    BY <1>7 DEF Store, StoreStatus, StoreExtension, StoreLimit, StoreUpdate
  <2>3. QED
    BY <1>6, <1>7, <2>1, <2>2 DEF WritesDecided
<1>8. CASE AdminFails(a)
  BY <1>6, <1>8 DEF AdminFails, vars, link, limits, WritesDecided
<1>9. QED
  BY <1>1, <1>2, <1>3, <1>4, <1>5, <1>7, <1>8 DEF Administer, WritesDecided

LEMMA SweepDecides ==
  ASSUME LinkInv, NEW w \in Sweeps, Sweep(w) \/ SweepFails(w)
  PROVE  DecidesRightly /\ WritesDecided
<1>1. pc' = pc /\ op' = op /\ sweep \in [Sweeps -> {"idle", "write", "notify"}]
  BY DEF Sweep, Find, ExpireFound, NotifyFound, SweepFails, vars, LinkInv, OfficeTyped
<1>2. DecidesRightly
  BY <1>1
  DEF DecidesRightly, Sweep, Find, FindsOverdue, ExpireFound, NotifyFound, SweepFails
<1>3. WritesDecided
  BY <1>1
  DEF WritesDecided, Sweep, Find, ExpireFound, NotifyFound, SweepFails, vars, link, limits
<1>4. QED
  BY <1>2, <1>3

LEMMA AllDecide ==
  ASSUME LinkInv, [LinkNext]_everything
  PROVE  DecidesRightly /\ WritesDecided
  BY EngineDecides, AdminDecides, SweepDecides DEF LinkNext, everything, LinkInv

(* A change of the row overtakes all who are about to write.                       *)
LEMMA RaceInvStep ==
  ASSUME LinkInv, RaceInv, RaceNext
  PROVE  RaceInv'
<1>1. DecidesRightly
  BY AllDecide DEF RaceNext
<1>2. /\ \A r \in Requests : pc'[r] = "expire" => <<"request", r>> \in Deciding'
      /\ \A w \in Sweeps : sweep'[w] = "write" => <<"sweep", w>> \in Deciding'
      /\ \A a \in Admins : op'[a] # None => <<"admin", a>> \in Deciding'
  BY DEF Deciding
<1>3. CASE status' # status \/ expiry' # expiry
  <2>1. overtaken' = Deciding'
    BY <1>3 DEF RaceNext, Overtakes
  <2>2. QED
    BY <1>2, <2>1 DEF RaceInv
<1>4. CASE status' = status /\ expiry' = expiry
  <2>1. overtaken' = overtaken \cap Deciding' /\ (Overdue' <=> Overdue)
    BY <1>4 DEF RaceNext, Overtakes, Overdue, expiry
  <2>2. \A d \in Deciding' : d \notin overtaken' => d \notin overtaken
    BY <2>1
  <2>3. ASSUME NEW r \in Requests, pc'[r] = "expire", <<"request", r>> \notin overtaken'
        PROVE  status = "ACTIVE" /\ Overdue
    BY <1>1, <1>2, <2>2, <2>3 DEF RaceInv, DecidesRightly
  <2>4. ASSUME NEW w \in Sweeps, sweep'[w] = "write", <<"sweep", w>> \notin overtaken'
        PROVE  status = "ACTIVE" /\ Overdue
    BY <1>1, <1>2, <2>2, <2>4 DEF RaceInv, DecidesRightly
  <2>5. ASSUME NEW a \in Admins, op'[a] # None, <<"admin", a>> \notin overtaken',
               status = "DELETED", op'[a].kind = "status"
        PROVE  op'[a].to = "ACTIVE"
    BY <1>1, <1>2, <2>2, <2>5 DEF RaceInv, DecidesRightly
  <2>6. QED
    BY <1>4, <2>1, <2>3, <2>4, <2>5 DEF RaceInv
<1>5. QED
  BY <1>3, <1>4

RaceVars == <<everything, overtaken>>

LEMMA RaceStep == LinkInv /\ RaceInv /\ [RaceNext]_RaceVars => RaceInv'
<1> SUFFICES ASSUME LinkInv, RaceInv, [RaceNext]_RaceVars PROVE RaceInv'
  OBVIOUS
<1>1. CASE UNCHANGED RaceVars
  BY <1>1 DEF RaceVars, everything, vars, link, limits, expiry, office, RaceInv, Overdue
<1>2. QED
  BY <1>1, RaceInvStep

LEMMA RaceCorrect == RaceSpec => [](LinkInv /\ RaceInv)
<1>1. RaceInit => LinkInv /\ RaceInv
  BY LinkInvInit DEF RaceInit, LinkInit, Init, RaceInv
<1>2. LinkInv /\ [RaceNext]_RaceVars => LinkInv'
  BY LinkInvStep DEF RaceNext, RaceVars
<1>3. QED
  BY <1>1, <1>2, RaceStep, PTL DEF RaceSpec, RaceVars

(* scheduler.ts:16-27, streaming.service.ts:152-156, link.service.ts:196-237: however   *)
(* many admins, viewers and ticks there are, only someone whose row was written     *)
(* since he read it expires, and announces, what is not active and overdue, or     *)
(* gives a removed link another status than the active one of enabling and         *)
(* extending.                                                                   *)
THEOREM OnlyRacesWriteAgainstTheRow == RaceSpec => AgainstTheRowByRaceOnly
<1> DEFINE A == /\ Expires => status = "ACTIVE" /\ Overdue
                /\ status = "DELETED" /\ status' \notin {"DELETED", "ACTIVE"} =>
                     overtaken \ Deciding' # {}
<1>1. ASSUME LinkInv, RaceInv, [RaceNext]_RaceVars, status = "DELETED",
             status' \notin {"DELETED", "ACTIVE"}
      PROVE  overtaken \ Deciding' # {}
  <2>1. WritesDecided
    <3>1. [LinkNext]_everything
      BY <1>1 DEF RaceNext, RaceVars
    <3>2. QED
      BY <1>1, <3>1, AllDecide
  <2>2. ASSUME NEW r \in Requests, pc[r] = "expire", pc'[r] # "expire"
        PROVE  <<"request", r>> \in overtaken /\ <<"request", r>> \notin Deciding'
    BY <1>1, <2>2 DEF RaceInv, Deciding
  <2>3. ASSUME NEW w \in Sweeps, sweep[w] = "write", sweep'[w] # "write"
        PROVE  <<"sweep", w>> \in overtaken /\ <<"sweep", w>> \notin Deciding'
    BY <1>1, <2>3 DEF RaceInv, Deciding
  <2>4. ASSUME NEW a \in Admins, op[a] # None, op'[a] = None, op[a].kind = "status",
               op[a].to = status'
        PROVE  <<"admin", a>> \in overtaken /\ <<"admin", a>> \notin Deciding'
    BY <1>1, <2>4 DEF RaceInv, Deciding
  <2>5. QED
    BY <1>1, <2>1, <2>2, <2>3, <2>4 DEF WritesDecided
<1>2. LinkInv /\ RaceInv => (Expires => status = "ACTIVE" /\ Overdue)
  BY DEF RaceInv, Expires, ExpireLink, ExpireFound
<1>3. LinkInv /\ RaceInv /\ [RaceNext]_RaceVars => [A]_RaceVars
  BY <1>1, <1>2
<1>4. AgainstTheRowByRaceOnly <=> [][A]_RaceVars
  BY PTL DEF AgainstTheRowByRaceOnly, RaceVars
<1>5. QED
  BY <1>3, <1>4, RaceCorrect, PTL DEF RaceSpec, RaceVars
=============================================================================
