------------------------- MODULE AccessEnforcement -------------------------
(***************************************************************************)
(* The access engine of one delivery link:                                 *)
(* backend/src/services/streaming.service.ts, requestAccess, with the      *)
(* repository calls and the notification service it awaits.  Every await   *)
(* is an interleaving point, so a request is a process that takes one step *)
(* per database call; the calls themselves are atomic and no transaction   *)
(* spans two of them.  A request that fails (a call that throws, the       *)
(* process that exits) stops where it is and undoes nothing.               *)
(*                                                                         *)
(* A request judges all along by the row it read at first, while the rows  *)
(* it counts are read one by one: the limits it goes by are its own.       *)
(*                                                                         *)
(* Time is kept as what the code asks of the clock: whether expiresAt lies *)
(* ahead or is past, and which sessions were seen in the last five minutes *)
(* (recent).                                                               *)
(***************************************************************************)
EXTENDS Integers, FiniteSets, Sequences

CONSTANTS
  Requests,        \* slots for access requests in flight at the same time
  Viewers,         \* device fingerprints (link, IP address, user agent)
  SessionKeys,     \* bound: the session keys that can be drawn
  ViewLimits, DeviceLimits, SessionLimits, ConcurrentLimits,
                   \* the values that the columns maxViews, maxDevices, ... take
  AllowLists,      \* and the column ipAllowlist, by the viewers it lets pass
  Rules,           \* thresholds of the enabled VIEW_THRESHOLD rules, ascending
  MayFail,         \* whether requests fail half-way
  LapsedResume,    \* whether a viewer comes back after five silent minutes
  None             \* no viewer, no session

NoLimit == 0       \* a null limit: the schema accepts positive limits only
LimitReached == -1 \* the value of lastThresholdFired that silences the notice
Several == 2       \* bound: a tally tells apart none, one and several

ASSUME RequestsAssumption ==
  IsFiniteSet(Requests) /\ IsFiniteSet(SessionKeys) /\ IsFiniteSet(Viewers)
ASSUME NoneAssumption == None \notin Viewers \cup SessionKeys
ASSUME AllowListsAssumption == AllowLists \subseteq SUBSET Viewers
ASSUME LimitsAssumption ==
  ViewLimits \cup DeviceLimits \cup SessionLimits \cup ConcurrentLimits \subseteq Nat
ASSUME RulesAssumption ==
  /\ Rules \in Seq(Nat \ {0})
  /\ \A i, j \in DOMAIN Rules : i <= j => Rules[i] <= Rules[j]
ASSUME SwitchesAssumption == {MayFail, LapsedResume} \subseteq BOOLEAN

VARIABLES
  status, neverExpire, expiresAt,           \* the link's row
  maxViews, maxDevices, maxSessions, maxConcurrent, ipAllowlist,
  viewCount, lastThresholdFired,
  devices, sessions, viewLogs,  \* rows of the link; a log is named by its session
  active,          \* sessions whose active column is true
  recent,          \* sessions whose lastSeenAt is inside the concurrency window
  grants,          \* sessions whose stream grant was handed to the viewer
  alerts,          \* threshold -> tally of the alerts dispatched for it
  notices,         \* kind -> tally of the other notifications dispatched
  pc, viewer, seen, key, todo
                   \* per request: where it is, who asks, the limits of the row
                   \* it has read, its session and the rules it has to alert

expiry == <<neverExpire, expiresAt>>
limits == <<maxViews, maxDevices, maxSessions, maxConcurrent, ipAllowlist>>
link == <<status, expiry, limits, viewCount, lastThresholdFired>>
rows == <<devices, sessions, viewLogs, active, recent, grants>>
mail == <<alerts, notices>>
local == <<viewer, seen, key, todo>>
vars == <<link, rows, mail, pc, local>>

Statuses == {"ACTIVE", "EXPIRED", "DISABLED", "REVOKED", "DELETED"}
Expiries == {"null", "ahead", "past"}
Kinds == {"limit", "expired", "security"}
LimitsRead ==
  [maxDevices : DeviceLimits, maxSessions : SessionLimits, maxConcurrent : ConcurrentLimits]
Thresholds == {Rules[i] : i \in DOMAIN Rules}

Resting == {"idle", "denied", "granted", "failed"}
Checking == {"device", "countDevices", "session", "concurrent"}
Recording == {"upsert", "create", "log", "count"}
Reporting == {"alert", "record", "grant"}
Denying == {"expire", "expiredNotice", "security", "limitNotice", "limitMark"}

TypeOK ==
  /\ status \in Statuses
  /\ neverExpire \in BOOLEAN
  /\ expiresAt \in Expiries
  /\ maxViews \in ViewLimits
  /\ maxDevices \in DeviceLimits
  /\ maxSessions \in SessionLimits
  /\ maxConcurrent \in ConcurrentLimits
  /\ ipAllowlist \in AllowLists
  /\ viewCount \in Nat
  /\ lastThresholdFired \in {LimitReached, 0} \cup Thresholds
  /\ devices \subseteq Viewers
  /\ sessions \subseteq SessionKeys
  /\ viewLogs \subseteq sessions
  /\ active \subseteq sessions
  /\ recent \subseteq sessions
  /\ grants \subseteq viewLogs
  /\ alerts \in [Thresholds -> 0 .. Several]
  /\ notices \in [Kinds -> 0 .. Several]
  /\ pc \in [Requests -> Resting \cup Checking \cup Recording \cup Reporting \cup Denying]
  /\ viewer \in [Requests -> Viewers \cup {None}]
  /\ seen \in [Requests -> LimitsRead \cup {None}]
  /\ key \in [Requests -> SessionKeys \cup {None}]
  /\ todo \in [Requests -> SUBSET DOMAIN Rules]

(* A link that nobody has opened: as linkService.create stores it (no expiry, or *)
(* one that may already be past), in whatever status it was given since.        *)
Init ==
  /\ status \in Statuses
  /\ neverExpire \in BOOLEAN
  /\ expiresAt \in IF neverExpire THEN {"null"} ELSE {"ahead", "past"}
  /\ maxViews \in ViewLimits
  /\ maxDevices \in DeviceLimits
  /\ maxSessions \in SessionLimits
  /\ maxConcurrent \in ConcurrentLimits
  /\ ipAllowlist \in AllowLists
  /\ viewCount = 0
  /\ lastThresholdFired = 0
  /\ devices = {} /\ sessions = {} /\ viewLogs = {}
  /\ active = {} /\ recent = {} /\ grants = {}
  /\ alerts = [t \in Thresholds |-> 0]
  /\ notices = [k \in Kinds |-> 0]
  /\ pc = [r \in Requests |-> "idle"]
  /\ viewer = [r \in Requests |-> None]
  /\ seen = [r \in Requests |-> None]
  /\ key = [r \in Requests |-> None]
  /\ todo = [r \in Requests |-> {}]

-----------------------------------------------------------------------------
(* What effectiveStatus reads into an ACTIVE row. *)
Overdue == ~neverExpire /\ expiresAt = "past"
OpenUnlessRevoked == status \notin {"REVOKED", "DELETED"} /\ ~Overdue
Open == status = "ACTIVE" /\ ~Overdue

(* A limit that is set and not above the count of what it limits. *)
AtLimitLate(limit, n) == limit # NoLimit /\ n > limit
AtLimit(limit, n) == limit # NoLimit /\ n >= limit

(* The limits of the row as a request that reads it now will go by. *)
LimitsInForce ==
  [maxDevices |-> maxDevices, maxSessions |-> maxSessions, maxConcurrent |-> maxConcurrent]

(* Whether the admin has still to hear that the view limit was hit. *)
AlwaysUnnoticed == TRUE
LimitUnnoticed == lastThresholdFired # LimitReached

(* The rules that a view takes the link past: evaluateViewThresholds reads the  *)
(* row as the increment returned it.                                            *)
CrossedUnmarked == {i \in DOMAIN Rules : viewCount + 1 >= Rules[i]}
CrossedLate == {i \in DOMAIN Rules : Rules[i] > lastThresholdFired /\ viewCount >= Rules[i]}
CrossedExactly == {i \in DOMAIN Rules : Rules[i] = viewCount + 1}
Crossed == {i \in DOMAIN Rules : Rules[i] > lastThresholdFired /\ viewCount + 1 >= Rules[i]}

(* The sessions that the concurrency check counts. *)
Watching == active \cap recent

Tally(n) == IF n < Several THEN n + 1 ELSE n

Goto(r, l) == pc' = [pc EXCEPT ![r] = l]

(* The request is over, and its local variables with it. *)
Answer(r, outcome) ==
  /\ Goto(r, outcome)
  /\ viewer' = [viewer EXCEPT ![r] = None]
  /\ seen' = [seen EXCEPT ![r] = None]
  /\ key' = [key EXCEPT ![r] = None]
  /\ todo' = [todo EXCEPT ![r] = {}]

DenyIf(r, condition, l) ==
  \/ condition /\ Answer(r, "denied")
  \/ ~condition /\ Goto(r, l) /\ UNCHANGED local

Notify(kind) ==
  /\ notices' = [notices EXCEPT ![kind] = Tally(@)]
  /\ UNCHANGED alerts

-----------------------------------------------------------------------------
(* A request reads the link and judges the row it read.  Whatever is decided    *)
(* from that row alone is decided as of this step: status and expiry, password, *)
(* address, embedding domain and view limit, in that order.                     *)
(* Password and domain come with the request, so either may be wrong, whatever  *)
(* the row demands.                                                             *)

Receive(r, v) == pc[r] \in Resting /\ viewer' = [viewer EXCEPT ![r] = v]

Refuse(r) ==
  /\ pc[r] \in Resting
  /\ Answer(r, "denied")
  /\ UNCHANGED <<link, rows, mail>>

RefuseInactive(r) == status # "ACTIVE" /\ Refuse(r)

(* The wrong password, or the wrong domain from an allowed address. *)
RefuseCredentials(r) == Open /\ Refuse(r)

RefuseSilently(r) ==
  /\ Open /\ AtLimit(maxViews, viewCount) /\ ~LimitUnnoticed
  /\ Refuse(r)

Proceed(r, v, l) ==
  /\ Receive(r, v)
  /\ Goto(r, l)
  /\ UNCHANGED <<link, rows, mail, key, todo>>

FindOverdue(r, v) ==
  /\ status = "ACTIVE" /\ Overdue
  /\ Proceed(r, v, "expire") /\ UNCHANGED seen

BlockAddress(r, v) ==
  /\ Open /\ v \notin ipAllowlist
  /\ Proceed(r, v, "security") /\ UNCHANGED seen

HitViewLimit(r, v) ==
  /\ Open /\ v \in ipAllowlist
  /\ AtLimit(maxViews, viewCount) /\ LimitUnnoticed
  /\ Proceed(r, v, "limitNotice") /\ UNCHANGED seen

Admit(r, v) ==
  /\ Open /\ v \in ipAllowlist
  /\ ~AtLimit(maxViews, viewCount)
  /\ Proceed(r, v, "device")
  /\ seen' = [seen EXCEPT ![r] = LimitsInForce]

-----------------------------------------------------------------------------
(* Denials that write before they answer. *)

ExpireLink(r) ==
  /\ pc[r] = "expire"
  /\ status' = "EXPIRED"
  /\ Goto(r, "expiredNotice")
  /\ UNCHANGED <<expiry, limits, viewCount, lastThresholdFired, rows, mail, local>>

NotifyExpired(r) ==
  /\ pc[r] = "expiredNotice"
  /\ Notify("expired") /\ Answer(r, "denied")
  /\ UNCHANGED <<link, rows>>

NotifySecurity(r) ==
  /\ pc[r] = "security"
  /\ Notify("security") /\ Answer(r, "denied")
  /\ UNCHANGED <<link, rows>>

NotifyLimit(r) ==
  /\ pc[r] = "limitNotice"
  /\ Notify("limit") /\ Goto(r, "limitMark")
  /\ UNCHANGED <<link, rows, local>>

MarkLimit(r) ==
  /\ pc[r] = "limitMark"
  /\ lastThresholdFired' = LimitReached
  /\ Answer(r, "denied")
  /\ UNCHANGED <<status, expiry, limits, viewCount, rows, mail>>

-----------------------------------------------------------------------------
(* The limits that are checked against rows read on the way. *)

FindDevice(r) ==
  /\ pc[r] = "device"
  /\ Goto(r, IF seen[r].maxDevices = NoLimit \/ viewer[r] \in devices THEN "session" ELSE "countDevices")
  /\ UNCHANGED <<link, rows, mail, local>>

CountDevices(r) ==
  /\ pc[r] = "countDevices"
  /\ DenyIf(r, AtLimit(seen[r].maxDevices, Cardinality(devices)), "session")
  /\ UNCHANGED <<link, rows, mail>>

CountSessions(r) ==
  /\ pc[r] = "session"
  /\ DenyIf(r, AtLimit(seen[r].maxSessions, Cardinality(sessions)), "concurrent")
  /\ UNCHANGED <<link, rows, mail>>

(* After this check the limits are not needed any more. *)
CountWatching(r) ==
  /\ pc[r] = "concurrent"
  /\ IF AtLimit(seen[r].maxConcurrent, Cardinality(Watching))
       THEN Answer(r, "denied")
       ELSE /\ Goto(r, "upsert")
            /\ seen' = [seen EXCEPT ![r] = None]
            /\ UNCHANGED <<viewer, key, todo>>
  /\ UNCHANGED <<link, rows, mail>>

-----------------------------------------------------------------------------
(* The view is recorded, one row at a time. *)

UpsertDevice(r) ==
  /\ pc[r] = "upsert"
  /\ devices' = devices \cup {viewer[r]}
  /\ Goto(r, "create")
  /\ UNCHANGED <<link, sessions, viewLogs, active, recent, grants, mail, local>>

CreateSession(r) ==
  /\ pc[r] = "create"
  /\ \E s \in SessionKeys \ sessions :
       /\ sessions' = sessions \cup {s}
       /\ active' = active \cup {s}
       /\ recent' = recent \cup {s}
       /\ key' = [key EXCEPT ![r] = s]
  /\ Goto(r, "log")
  /\ UNCHANGED <<link, devices, viewLogs, grants, mail, viewer, seen, todo>>

ForgetViewLog(r) ==
  /\ pc[r] = "log"
  /\ Goto(r, "count")
  /\ UNCHANGED <<link, rows, mail, local>>

CreateViewLog(r) ==
  /\ pc[r] = "log"
  /\ viewLogs' = viewLogs \cup {key[r]}
  /\ Goto(r, "count")
  /\ UNCHANGED <<link, devices, sessions, active, recent, grants, mail, local>>

IncrementViewCount(r) ==
  /\ pc[r] = "count"
  /\ viewCount' = viewCount + 1
  /\ todo' = [todo EXCEPT ![r] = Crossed]
  /\ Goto(r, IF Crossed = {} THEN "grant" ELSE "alert")
  /\ UNCHANGED <<status, expiry, limits, lastThresholdFired, rows, mail, viewer, seen, key>>

(* One alert per crossed rule, lowest threshold first. *)
FireAlert(r) ==
  /\ pc[r] = "alert"
  /\ \E i \in todo[r] :
       /\ \A j \in todo[r] : i <= j
       /\ alerts' = [alerts EXCEPT ![Rules[i]] = Tally(@)]
       /\ IF todo[r] = {i}
            THEN Goto(r, "record") /\ UNCHANGED todo
            ELSE UNCHANGED pc /\ todo' = [todo EXCEPT ![r] = @ \ {i}]
  /\ UNCHANGED <<link, rows, notices, viewer, seen, key>>

(* The rule fired last is the highest one crossed. *)
RecordThreshold(r) ==
  /\ pc[r] = "record"
  /\ \E i \in todo[r] : lastThresholdFired' = Rules[i]
  /\ todo' = [todo EXCEPT ![r] = {}]
  /\ Goto(r, "grant")
  /\ UNCHANGED <<status, expiry, limits, viewCount, rows, mail, viewer, seen, key>>

IssueGrant(r) ==
  /\ pc[r] = "grant"
  /\ grants' = grants \cup {key[r]}
  /\ Answer(r, "granted")
  /\ UNCHANGED <<link, devices, sessions, viewLogs, active, recent, mail>>

(* The call that the request awaits throws, or the process exits. *)
Fail(r) ==
  /\ MayFail
  /\ pc[r] \notin Resting
  /\ Answer(r, "failed")
  /\ UNCHANGED <<link, rows, mail>>

-----------------------------------------------------------------------------
(* The viewers who hold a session key, and the clock. *)

(* The player's heartbeat touches the session whether or not it is active. *)
Heartbeat(s) ==
  /\ s \in grants
  /\ s \in recent \/ LapsedResume
  /\ recent' = recent \cup {s}
  /\ UNCHANGED <<link, devices, sessions, viewLogs, active, grants, mail, pc, local>>

EndSession(s) ==
  /\ s \in grants
  /\ active' = active \ {s}
  /\ UNCHANGED <<link, devices, sessions, viewLogs, recent, grants, mail, pc, local>>

(* Five minutes without a touch. *)
Lapse(s) ==
  /\ s \in recent
  /\ recent' = recent \ {s}
  /\ UNCHANGED <<link, devices, sessions, viewLogs, active, grants, mail, pc, local>>

PassExpiry ==
  /\ expiresAt = "ahead"
  /\ expiresAt' = "past"
  /\ UNCHANGED <<status, neverExpire, limits, viewCount, lastThresholdFired, rows, mail, pc, local>>

-----------------------------------------------------------------------------
ReadLink(r) ==
  \/ RefuseInactive(r)
  \/ RefuseCredentials(r)
  \/ RefuseSilently(r)
  \/ \E v \in Viewers :
       FindOverdue(r, v) \/ BlockAddress(r, v) \/ HitViewLimit(r, v) \/ Admit(r, v)

Deny(r) ==
  ExpireLink(r) \/ NotifyExpired(r) \/ NotifySecurity(r) \/ NotifyLimit(r) \/ MarkLimit(r)

Check(r) == FindDevice(r) \/ CountDevices(r) \/ CountSessions(r) \/ CountWatching(r)

Record(r) ==
  UpsertDevice(r) \/ CreateSession(r) \/ CreateViewLog(r) \/ IncrementViewCount(r)

Report(r) == FireAlert(r) \/ RecordThreshold(r) \/ IssueGrant(r)

Handle(r) == ReadLink(r) \/ Deny(r) \/ Check(r) \/ Record(r) \/ Report(r) \/ Fail(r)

Watch(s) == Heartbeat(s) \/ EndSession(s) \/ Lapse(s)

Next ==
  \/ \E r \in Requests : Handle(r)
  \/ \E s \in SessionKeys : Watch(s)
  \/ PassExpiry

Spec == Init /\ [][Next]_vars

-----------------------------------------------------------------------------
(* Requests that passed the check of a limit and have not yet used the unit it  *)
(* counts.                                                                      *)
InPhase(labels) == {r \in Requests : pc[r] \in labels}

Admitted == InPhase(Checking \cup Recording)
NewDevices ==
  {r \in Requests :
    /\ pc[r] \in {"session", "concurrent", "upsert"}
    /\ viewer[r] \notin devices}
NewSessions == InPhase({"concurrent", "upsert", "create"})
NewWatchers == InPhase({"upsert", "create"})

Slots == Cardinality(Requests)

(* The view limit as the engine enforces it: a quota whose admission is the     *)
(* read of the row and whose use is the increment, several awaits later.        *)
Views == INSTANCE Quota WITH
  Limits <- ViewLimits, limit <- maxViews, used <- viewCount,
  pending <- Cardinality(Admitted)
ViewQuota == Views!Spec

(* The same of the device limit: counted with countForLink, used by the upsert  *)
(* of a fingerprint that has no row.                                            *)
DeviceRows == INSTANCE Quota WITH
  Limits <- DeviceLimits, limit <- maxDevices, used <- Cardinality(devices),
  pending <- Cardinality(NewDevices)
DeviceQuota == DeviceRows!Spec

(* The same of the session limit. *)
SessionRows == INSTANCE Quota WITH
  Limits <- SessionLimits, limit <- maxSessions, used <- Cardinality(sessions),
  pending <- Cardinality(NewSessions)
SessionQuota == SessionRows!Spec

(* While viewers do not come back to a session that lapsed, the sessions being  *)
(* watched, with the requests about to create one, exceed the largest           *)
(* concurrency limit that a request can have read by less than the number of    *)
(* requests in flight at a time.                                                *)
ConcurrencyBounded ==
  ~LapsedResume =>
    \A L \in ConcurrentLimits :
      (\A m \in ConcurrentLimits : m # NoLimit /\ m <= L) =>
        Cardinality(Watching) + Cardinality(NewWatchers) <= L + Slots - 1

(* The same of the other limits: views, devices and sessions overshoot the      *)
(* largest limit the link can have had by less than the number of requests in   *)
(* flight at a time, however stale the limit was that admitted them.            *)
LimitsBounded ==
  Views!Bounded /\ DeviceRows!Bounded /\ SessionRows!Bounded /\ ConcurrencyBounded

(* Rows are written in an order that a failure anywhere cannot turn against the *)
(* owner: no grant without a counted view, no counted view without its log.     *)
GrantsAccounted ==
  /\ Cardinality(grants) <= viewCount
  /\ viewCount <= Cardinality(viewLogs)

(* Interleaved and failing requests may repeat alerts, but the mark on the link *)
(* never covers a threshold whose alert was not dispatched.                     *)
MarkedMeansSent ==
  \A t \in Thresholds : t <= lastThresholdFired => alerts[t] >= 1

(* notification.service.ts:85-89: "records the highest fired threshold on the   *)
(* link to guarantee each alert is sent at most once".                          *)
AlertSentOnce == \A t \in Thresholds : alerts[t] < Several

(* streaming.service.ts:185: "notify the admin only on the first time it is     *)
(* hit".                                                                        *)
LimitNotifiedOnce == notices["limit"] < Several

(* The view limit as README.md:12 lists it: "max views/sessions/devices/        *)
(* concurrent users".                                                           *)
MaxViewsRespected == maxViews # NoLimit => viewCount <= maxViews
=============================================================================
