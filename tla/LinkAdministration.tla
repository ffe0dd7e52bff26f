------------------------- MODULE LinkAdministration -------------------------
(***************************************************************************)
(* The life of a delivery link: the access engine together with the admin  *)
(* API that edits the link (backend/src/services/link.service.ts) and the  *)
(* sweep that expires it (backend/src/scheduler.ts).                       *)
(*                                                                         *)
(* Every admin handler reads the row, judges what it read and writes by    *)
(* id, whatever the row has become meanwhile; the sweep and the engine's   *)
(* lazy expiry write the same way.  So each operation is two steps, and    *)
(* what lies between them is the subject of this module.                   *)
(***************************************************************************)
EXTENDS AccessEnforcement

CONSTANTS
  Admins,   \* slots for admin requests in flight at the same time
  Offered,  \* bound: the kinds of writes that admins make
  Bodies,   \* bound: the bodies of a PATCH that they send
  Sweeps    \* ticks of the scheduler that may overlap

ASSUME OfferedAssumption == Offered \subseteq {"status", "extend", "limit", "update"}

VARIABLES
  op,       \* per admin request: the write it is about to make, or None
  sweep     \* per tick: where it is

office == <<op, sweep>>
everything == <<vars, office>>

Dates == {"ahead", "past"}
Undefined == None   \* a field that the request body leaves out

StatusWrites == [kind : {"status"}, to : {"ACTIVE", "DISABLED", "REVOKED", "DELETED"}]
Extensions == [kind : {"extend"}, expiresAt : Dates]
LimitWrites == [kind : {"limit"}, maxViews : ViewLimits]
Updates ==
  [kind : {"update"},
   neverExpire : {"true", "false", Undefined}, expiresAt : Expiries \cup {Undefined},
   maxViews : ViewLimits \cup {Undefined}, maxDevices : DeviceLimits \cup {Undefined},
   maxSessions : SessionLimits \cup {Undefined},
   maxConcurrent : ConcurrentLimits \cup {Undefined},
   ipAllowlist : AllowLists \cup {Undefined}]

ASSUME BodiesAssumption == Bodies \subseteq Updates

LinkTypeOK ==
  /\ TypeOK
  /\ \A a \in Admins :
       \/ op[a] = None
       \/ op[a].kind = "status" /\ op[a] \in StatusWrites
       \/ op[a].kind = "extend" /\ op[a] \in Extensions
       \/ op[a].kind = "limit" /\ op[a] \in LimitWrites
       \/ op[a].kind = "update" /\ op[a] \in Updates
  /\ sweep \in [Sweeps -> {"idle", "write", "notify"}]

(* The link as linkService.create leaves it. *)
LinkInit ==
  /\ Init
  /\ status = "ACTIVE"
  /\ op = [a \in Admins |-> None]
  /\ sweep = [w \in Sweeps |-> "idle"]
-----------------------------------------------------------------------------
(* The handlers up to their write: what they refuse, they refuse on this read. *)

Read(a, write) ==
  /\ op[a] = None /\ write.kind \in Offered
  /\ op' = [op EXCEPT ![a] = write]
  /\ UNCHANGED <<vars, sweep>>

(* enable, disable and revoke. *)
SetStatusUnread(a, to) == Read(a, [kind |-> "status", to |-> to])

SetStatus(a, to) ==
  /\ status = "DELETED" => to = "ACTIVE"
  /\ Read(a, [kind |-> "status", to |-> to])

Remove(a) ==
  /\ status # "DELETED"
  /\ Read(a, [kind |-> "status", to |-> "DELETED"])

ExtendExpiration(a, at) == Read(a, [kind |-> "extend", expiresAt |-> at])

IncreaseViewLimit(a, limit) == Read(a, [kind |-> "limit", maxViews |-> limit])

(* PATCH.  Password and embedding domains are written like the rest; what the   *)
(* engine makes of them is as the request's own may be right or wrong.          *)
Update(a, body) == Read(a, body)

-----------------------------------------------------------------------------
(* The writes. *)

Done(a) ==
  /\ op' = [op EXCEPT ![a] = None]
  /\ UNCHANGED <<viewCount, lastThresholdFired, rows, mail, pc, local, sweep>>

StoreStatus(a) ==
  /\ op[a].kind = "status"
  /\ status' = op[a].to
  /\ UNCHANGED <<expiry, limits>>

(* An extension also reactivates the link, from any status. *)
StoreExtension(a) ==
  /\ op[a].kind = "extend"
  /\ expiresAt' = op[a].expiresAt
  /\ neverExpire' = FALSE
  /\ status' = "ACTIVE"
  /\ UNCHANGED limits

StoreLimit(a) ==
  /\ op[a].kind = "limit"
  /\ maxViews' = op[a].maxViews
  /\ UNCHANGED <<status, expiry, maxDevices, maxSessions, maxConcurrent, ipAllowlist>>

Given(field, column) == IF field = Undefined THEN column ELSE field

StoreExpiry(body) ==
  LET never == body.neverExpire
      at == body.expiresAt
  IN  /\ neverExpire' = IF never = Undefined THEN neverExpire ELSE never = "true"
      /\ expiresAt' =
           IF never = "true" THEN "null"
           ELSE IF at \in Dates \/ (never = Undefined /\ at = "null") THEN at
           ELSE expiresAt

StoreUpdate(a) ==
  /\ op[a].kind = "update"
  /\ StoreExpiry(op[a])
  /\ maxViews' = Given(op[a].maxViews, maxViews)
  /\ maxDevices' = Given(op[a].maxDevices, maxDevices)
  /\ maxSessions' = Given(op[a].maxSessions, maxSessions)
  /\ maxConcurrent' = Given(op[a].maxConcurrent, maxConcurrent)
  /\ ipAllowlist' = Given(op[a].ipAllowlist, ipAllowlist)
  /\ UNCHANGED status

Store(a) ==
  /\ op[a] # None
  /\ StoreStatus(a) \/ StoreExtension(a) \/ StoreLimit(a) \/ StoreUpdate(a)
  /\ Done(a)

AdminFails(a) ==
  /\ op[a] # None
  /\ op' = [op EXCEPT ![a] = None]
  /\ UNCHANGED <<vars, sweep>>

Administer(a) ==
  \/ \E to \in {"ACTIVE", "DISABLED", "REVOKED"} : SetStatus(a, to)
  \/ Remove(a)
  \/ \E at \in Dates : ExtendExpiration(a, at)
  \/ \E limit \in ViewLimits : IncreaseViewLimit(a, limit)
  \/ \E body \in Bodies : Update(a, body)
  \/ Store(a)
  \/ AdminFails(a)

-----------------------------------------------------------------------------
(* One tick of the scheduler: find the overdue links, expire them by id, then    *)
(* notify.  The link is not read again before it is expired.                    *)

FindsUpcoming == status = "ACTIVE" /\ ~neverExpire /\ expiresAt = "ahead"
FindsOverdue == status = "ACTIVE" /\ Overdue

Find(w) ==
  /\ sweep[w] = "idle"
  /\ FindsOverdue
  /\ sweep' = [sweep EXCEPT ![w] = "write"]
  /\ UNCHANGED <<vars, op>>

ExpireSilently(w) ==
  /\ sweep[w] = "write"
  /\ status' = "EXPIRED"
  /\ sweep' = [sweep EXCEPT ![w] = "idle"]
  /\ UNCHANGED <<expiry, limits, viewCount, lastThresholdFired, rows, mail, pc, local, op>>

ExpireFound(w) ==
  /\ sweep[w] = "write"
  /\ status' = "EXPIRED"
  /\ sweep' = [sweep EXCEPT ![w] = "notify"]
  /\ UNCHANGED <<expiry, limits, viewCount, lastThresholdFired, rows, mail, pc, local, op>>

NotifyFound(w) ==
  /\ sweep[w] = "notify"
  /\ Notify("expired")
  /\ sweep' = [sweep EXCEPT ![w] = "idle"]
  /\ UNCHANGED <<link, rows, pc, local, op>>

(* The tick catches what it awaits and gives up; so does the process when it     *)
(* exits.                                                                       *)
SweepFails(w) ==
  /\ MayFail /\ sweep[w] # "idle"
  /\ sweep' = [sweep EXCEPT ![w] = "idle"]
  /\ UNCHANGED <<vars, op>>

Sweep(w) == Find(w) \/ ExpireFound(w) \/ NotifyFound(w)

-----------------------------------------------------------------------------
LinkNext ==
  \/ Next /\ UNCHANGED office
  \/ \E a \in Admins : Administer(a)
  \/ \E w \in Sweeps : Sweep(w) \/ SweepFails(w)

LinkSpec == LinkInit /\ [][LinkNext]_everything

(* The interval timer never stops and the event loop resumes what it started.   *)
(* A sweep that fails is followed by another a minute later, so the update that *)
(* is tried again and again goes through some time.                             *)
Fairness ==
  /\ \A w \in Sweeps :
       WF_everything(Find(w)) /\ SF_everything(ExpireFound(w)) /\ WF_everything(NotifyFound(w))
  /\ \A r \in Requests : WF_everything(Deny(r) /\ UNCHANGED office)
  /\ \A a \in Admins : WF_everything(Store(a))

FairLinkSpec == LinkSpec /\ Fairness

-----------------------------------------------------------------------------
(* A link that is not ACTIVE admits nobody: what can still be counted while it   *)
(* stays so are the views admitted before.                                      *)
ViewsDrain ==
  [][(status # "ACTIVE" /\ status' # "ACTIVE") =>
       viewCount' + Cardinality(Admitted)' <= viewCount + Cardinality(Admitted)]_everything

(* scheduler.ts:8: an overdue link does not stay ACTIVE for ever, whoever edits  *)
(* it: either the sweep or a viewer expires it, or an admin moves it on.        *)
OverdueEnforced == (status = "ACTIVE" /\ Overdue) ~> ~(status = "ACTIVE" /\ Overdue)
=============================================================================
