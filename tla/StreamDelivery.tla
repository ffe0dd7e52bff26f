---------------------------- MODULE StreamDelivery ----------------------------
(***************************************************************************)
(* From the watch page to the bytes: the page resolves a link and asks for *)
(* access (frontend watch/[token]/page.tsx), the viewer it embeds fetches  *)
(* ranges of the file with the grant it got, and the streaming proxy       *)
(* (streaming.service.ts: stream) judges each of them again, in several    *)
(* awaits, before it opens the file in Drive and pipes it.                 *)
(*                                                                         *)
(* What an access request decides in detail is AccessEnforcement's matter: *)
(* here it reads the link, records, counts and answers.                    *)
(***************************************************************************)
EXTENDS Integers, FiniteSets

CONSTANTS
  Pages,       \* watch pages that are open for the link
  Keys,        \* bound: the sessions that are ever created
  Calls,       \* slots for access requests in flight
  Transfers,   \* slots for range requests in flight
  FileTypes,   \* the types of content the link may deliver
  None         \* nothing there

VARIABLES
  link,        \* the row: status, whether its expiry has passed, its password
  fileType,    \* of the link's content
  session,     \* key -> None, or the state of the session
  views,       \* the sessions whose view has been counted
  live,        \* the sessions whose grant has been issued and not expired
  call, transfer,
  page         \* the state of each page

rows == <<link, fileType, session, views, live>>
vars == <<rows, call, transfer, page>>

Statuses == {"ACTIVE", "DISABLED", "REVOKED", "EXPIRED", "DELETED"}
LinkCodes == {"LINK_REVOKED", "LINK_DISABLED", "LINK_EXPIRED"}
Codes == LinkCodes \cup {"PASSWORD_REQUIRED", "RULE_BROKEN", "ERROR"}

Resolutions == [status : Statuses \ {"DELETED"}, locked : BOOLEAN]

Requests ==
  [page : Pages, right : BOOLEAN, at : {"read", "record", "count", "grant", "answer"},
   answer : Keys \cup Codes \cup {None}]

Ranges == [page : Pages, key : Keys, at : {"session", "link", "touch", "open", "piping"}]

Windows ==
  [loading : BOOLEAN, resolved : Resolutions \cup {None}, requesting : BOOLEAN,
   error : Codes \cup {None}, key : Keys \cup {None}, broken : BOOLEAN]

ASSUME DeliveryAssumption ==
  /\ IsFiniteSet(Pages)
  /\ None \notin Keys \cup Codes \cup Resolutions \cup Requests \cup Ranges \cup {"active", "ended"}
  /\ Keys \cap Codes = {}

(* Only a session whose view has been counted gets a grant, is shown or streamed. *)
TypeOK ==
  /\ link \in [status : Statuses, overdue : BOOLEAN, locked : BOOLEAN]
  /\ fileType \in FileTypes
  /\ session \in [Keys -> {None, "active", "ended"}]
  /\ views \subseteq {k \in Keys : session[k] # None}
  /\ live \subseteq views
  /\ call \in [Calls -> Requests \cup {None}]
  /\ transfer \in [Transfers -> Ranges \cup {None}]
  /\ \A t \in Transfers : transfer[t] # None => transfer[t].key \in views
  /\ page \in [Pages -> Windows]
  /\ \A p \in Pages : page[p].key \in views \cup {None}

Init ==
  /\ link \in [status : {"ACTIVE"}, overdue : {FALSE}, locked : BOOLEAN]
  /\ fileType \in FileTypes
  /\ session = [k \in Keys |-> None]
  /\ views = {} /\ live = {}
  /\ call = [c \in Calls |-> None]
  /\ transfer = [t \in Transfers |-> None]
  /\ page = [p \in Pages |->
       [loading |-> TRUE, resolved |-> None, requesting |-> FALSE, error |-> None,
        key |-> None, broken |-> FALSE]]

Effective ==
  IF link.status = "DELETED" THEN "REVOKED"
  ELSE IF link.status = "ACTIVE" /\ link.overdue THEN "EXPIRED"
  ELSE link.status

(* LinkAdministration, seen from here: the row changes at any time. *)
ChangeLink ==
  /\ \/ \E s \in Statuses : link' = [link EXCEPT !.status = s]
     \/ link' = [link EXCEPT !.overdue = ~@]
  /\ UNCHANGED <<fileType, session, views, live, call, transfer, page>>

-----------------------------------------------------------------------------
(* What a page shows (the conditions of its JSX).                               *)

DeniedFromResolve(w) == w.resolved # None /\ w.resolved.status # "ACTIVE"
StatusUiAny(w) == DeniedFromResolve(w) \/ w.error # None
StatusUi(w) == DeniedFromResolve(w) \/ w.error \in LinkCodes
Opened(w) == w.resolved # None /\ ~DeniedFromResolve(w)

ShowsStatus(w) ==
  \/ DeniedFromResolve(w)
  \/ StatusUi(w) /\ w.key = None /\ ~(Opened(w) /\ w.resolved.locked)

ShowsFormAlways(w) == Opened(w) /\ w.resolved.locked
ShowsForm(w) == Opened(w) /\ w.resolved.locked /\ w.key = None
ShowsFormError(w) == ShowsForm(w) /\ w.error # None /\ ~StatusUi(w)

ShowsDenied(w) ==
  Opened(w) /\ ~w.resolved.locked /\ w.key = None /\ w.error # None /\ ~StatusUi(w)

ShowsUnavailable(w) == w.resolved = None /\ w.error # None

(* While nothing else applies, the main part of the page is empty.              *)
ShowsNothing(w) ==
  w.loading \/ ~(w.key # None \/ ShowsStatus(w) \/ ShowsForm(w)
                   \/ ShowsDenied(w) \/ ShowsUnavailable(w))

-----------------------------------------------------------------------------
(* The page.                                                                    *)

(* requestAccess: the state it sets before its await, and the request.          *)
Send(p, w, right) ==
  /\ page' = [page EXCEPT ![p] = [w EXCEPT !.requesting = TRUE, !.error = None]]
  /\ \E c \in Calls :
       /\ call[c] = None
       /\ call' = [call EXCEPT ![c] =
            [page |-> p, right |-> right, at |-> "read", answer |-> None]]

(* resolvePublicLink answers; the effect asks at once when no password is due.  *)
Resolve(p) ==
  LET w == [page[p] EXCEPT !.loading = FALSE,
                           !.resolved = [status |-> Effective, locked |-> link.locked]]
  IN  /\ page[p].loading
      /\ IF Opened(w) /\ ~w.resolved.locked
           THEN Send(p, w, FALSE)
           ELSE page' = [page EXCEPT ![p] = w] /\ UNCHANGED call
      /\ UNCHANGED <<rows, transfer>>

ResolveFails(p) ==
  /\ page[p].loading
  /\ page' = [page EXCEPT ![p].loading = FALSE, ![p].error = "ERROR"]
  /\ UNCHANGED <<rows, call, transfer>>

(* The button is disabled while a request is under way; the Enter key is not.   *)
Unlock(p, right) ==
  /\ ShowsForm(page[p]) /\ ~page[p].requesting
  /\ Send(p, page[p], right)
  /\ UNCHANGED <<rows, transfer>>

PressEnter(p, right) ==
  /\ ShowsForm(page[p])
  /\ Send(p, page[p], right)
  /\ UNCHANGED <<rows, transfer>>

ForgetError(c) ==
  /\ call[c].answer \in Codes
  /\ page' = [page EXCEPT ![call[c].page].requesting = FALSE]

ShowError(c, code) ==
  page' = [page EXCEPT ![call[c].page].requesting = FALSE, ![call[c].page].error = code]

(* The viewer is keyed by its URL: another session is another viewer.           *)
ShowContent(c) ==
  page' = [page EXCEPT ![call[c].page].requesting = FALSE,
                       ![call[c].page].key = call[c].answer,
                       ![call[c].page].broken = FALSE]

Refused(c) == call[c].answer \in Codes /\ ShowError(c, call[c].answer)

Receive(c) ==
  /\ call[c] # None /\ call[c].at = "answer"
  /\ Refused(c) \/ (call[c].answer \in Keys /\ ShowContent(c))
  /\ call' = [call EXCEPT ![c] = None]
  /\ UNCHANGED <<rows, transfer>>

(* The connection breaks: the page sees an error, the server may have answered. *)
LoseAnswer(c) ==
  /\ call[c] # None /\ call[c].at = "answer"
  /\ ShowError(c, "ERROR")
  /\ call' = [call EXCEPT ![c] = None]
  /\ UNCHANGED <<rows, transfer>>

-----------------------------------------------------------------------------
(* requestAccess on the server.                                                 *)

Goto(c, l) == call' = [call EXCEPT ![c].at = l]
AnswerWith(c, a) == call' = [call EXCEPT ![c].at = "answer", ![c].answer = a]

StatusCode ==
  CASE Effective = "REVOKED" -> "LINK_REVOKED"
    [] Effective = "DISABLED" -> "LINK_DISABLED"
    [] Effective = "EXPIRED" -> "LINK_EXPIRED"
    [] OTHER -> None

(* The limits and the allowlists refuse or let pass; an overdue link is marked. *)
ReadLink(c) ==
  /\ call[c] # None /\ call[c].at = "read"
  /\ IF StatusCode # None THEN AnswerWith(c, StatusCode)
     ELSE IF link.locked /\ ~call[c].right THEN AnswerWith(c, "PASSWORD_REQUIRED")
     ELSE Goto(c, "record") \/ AnswerWith(c, "RULE_BROKEN")
  /\ link' = IF Effective = "EXPIRED" THEN [link EXCEPT !.status = "EXPIRED"] ELSE link
  /\ UNCHANGED <<fileType, session, views, live, transfer, page>>

CreateSession(c) ==
  /\ call[c] # None /\ call[c].at = "record"
  /\ \E k \in Keys : session[k] = None
  /\ LET k == CHOOSE new \in Keys : session[new] = None IN
       /\ session' = [session EXCEPT ![k] = "active"]
       /\ call' = [call EXCEPT ![c].at = "count", ![c].answer = k]
  /\ UNCHANGED <<link, fileType, views, live, transfer, page>>

SkipCount(c) ==
  /\ call[c] # None /\ call[c].at = "count"
  /\ Goto(c, "grant")
  /\ UNCHANGED <<rows, transfer, page>>

IncrementViewCount(c) ==
  /\ call[c] # None /\ call[c].at = "count"
  /\ views' = views \cup {call[c].answer}
  /\ Goto(c, "grant")
  /\ UNCHANGED <<link, fileType, session, live, transfer, page>>

CreateStreamGrant(c) ==
  /\ call[c] # None /\ call[c].at = "grant"
  /\ live' = live \cup {call[c].answer}
  /\ Goto(c, "answer")
  /\ UNCHANGED <<link, fileType, session, views, transfer, page>>

(* A query fails: what was written stays. *)
Fail(c) ==
  /\ call[c] # None /\ call[c].at # "answer"
  /\ AnswerWith(c, "ERROR")
  /\ UNCHANGED <<rows, transfer, page>>

-----------------------------------------------------------------------------
(* Sessions and grants in time.                                                 *)

(* An hour has passed since the grant was signed; no page renews it.            *)
ExpireGrant(k) ==
  /\ k \in live
  /\ live' = live \ {k}
  /\ UNCHANGED <<link, fileType, session, views, call, transfer, page>>

(* POST /end is for embedders: no page of this frontend calls it.               *)
EndSession(k) ==
  /\ session[k] = "active"
  /\ session' = [session EXCEPT ![k] = "ended"]
  /\ UNCHANGED <<link, fileType, views, live, call, transfer, page>>

Plays == fileType \in {"VIDEO", "AUDIO"}

-----------------------------------------------------------------------------
(* stream.  A player asks for ranges until it fails; what shows the other types *)
(* fetches them once and whenever it is reloaded.                               *)

Move(t, l) == transfer' = [transfer EXCEPT ![t].at = l]
Close(t) == transfer' = [transfer EXCEPT ![t] = None]

(* The player of that session, if it is still there, gives up for good.         *)
Break(t) ==
  LET p == transfer[t].page IN
    page' = [page EXCEPT ![p].broken = @ \/ (Plays /\ page[p].key = transfer[t].key)]

Fetch(t, p) ==
  /\ transfer[t] = None
  /\ page[p].key # None /\ ~page[p].broken
  /\ transfer' = [transfer EXCEPT ![t] =
       [page |-> p, key |-> page[p].key, at |-> "session"]]
  /\ UNCHANGED <<rows, call, page>>

Refuse(t) == Close(t) /\ Break(t) /\ UNCHANGED <<rows, call>>

Honoured(k) == k \in live /\ session[k] = "active"

FindSession(t) ==
  /\ transfer[t] # None /\ transfer[t].at = "session"
  /\ IF Honoured(transfer[t].key)
       THEN Move(t, "link") /\ UNCHANGED <<rows, call, page>>
       ELSE Refuse(t)

StreamableStored == link.status = "ACTIVE"
Streamable == Effective = "ACTIVE"

FindLink(t) ==
  /\ transfer[t] # None /\ transfer[t].at = "link"
  /\ IF Streamable THEN Move(t, "touch") /\ UNCHANGED <<rows, call, page>> ELSE Refuse(t)

(* lastSeenAt, which AccessEnforcement follows, is all that touch writes.       *)
Touch(t) ==
  /\ transfer[t] # None /\ transfer[t].at = "touch"
  /\ Move(t, "open")
  /\ UNCHANGED <<rows, call, page>>

(* Drive answers. *)
StreamFile(t) ==
  /\ transfer[t] # None /\ transfer[t].at = "open"
  /\ Move(t, "piping")
  /\ UNCHANGED <<rows, call, page>>

(* Nothing looks at the link or the session again while the range is piped.     *)
Finish(t) ==
  /\ transfer[t] # None /\ transfer[t].at = "piping"
  /\ Close(t)
  /\ UNCHANGED <<rows, call, page>>

(* A query fails, Drive refuses, or its stream breaks while it is piped.        *)
BreakOff(t) == transfer[t] # None /\ Refuse(t)

-----------------------------------------------------------------------------
Visit(p) ==
  \/ Resolve(p) \/ ResolveFails(p)
  \/ \E right \in BOOLEAN : Unlock(p, right) \/ PressEnter(p, right)

Handle(c) ==
  ReadLink(c) \/ CreateSession(c) \/ IncrementViewCount(c) \/ CreateStreamGrant(c) \/ Fail(c)

Stream(t) ==
  FindSession(t) \/ FindLink(t) \/ Touch(t) \/ StreamFile(t) \/ Finish(t) \/ BreakOff(t)

Next ==
  \/ ChangeLink
  \/ \E p \in Pages : Visit(p)
  \/ \E c \in Calls : Handle(c) \/ Receive(c) \/ LoseAnswer(c)
  \/ \E k \in Keys : ExpireGrant(k) \/ EndSession(k)
  \/ \E t \in Transfers : Stream(t) \/ \E p \in Pages : Fetch(t, p)

Spec == Init /\ [][Next]_vars

(* Every request is answered at last, if only with an error. *)
FairSpec ==
  /\ Spec
  /\ \A p \in Pages : WF_vars(Resolve(p) \/ ResolveFails(p))
  /\ \A c \in Calls : WF_vars(Handle(c)) /\ WF_vars(Receive(c) \/ LoseAnswer(c))

-----------------------------------------------------------------------------
(* streaming.service.ts:305-322: however its awaits interleave with a revocation,*)
(* an expiry, the end of the session or of the grant, a range that is judged     *)
(* after it is not served.  What had been judged before may still be.           *)
PastLink == {t \in Transfers : transfer[t] # None /\ transfer[t].at \in {"touch", "open", "piping"}}
PastSession(k) ==
  {t \in Transfers : transfer[t] # None /\ transfer[t].key = k /\ transfer[t].at # "session"}

Closed == Effective # "ACTIVE"
Spent(k) == k \in views /\ ~Honoured(k)

ServedDrains ==
  [][/\ Closed /\ Closed' => PastLink' \subseteq PastLink
     /\ \A k \in Keys : Spent(k) /\ Spent(k)' => PastSession(k)' \subseteq PastSession(k)]_vars

(* watch/[token]/page.tsx: whoever is refused is told.  One exception: the form  *)
(* of a locked link hides its banner for the codes of the status card, and the   *)
(* card is not shown on a locked page.                                          *)
SilentForm(w) == ShowsForm(w) /\ w.error \in LinkCodes

RefusalTold ==
  \A p \in Pages : LET w == page[p] IN
    w.error # None /\ w.key = None =>
      ShowsStatus(w) \/ ShowsFormError(w) \/ ShowsDenied(w) \/ ShowsUnavailable(w) \/ SilentForm(w)

(* The page is never left empty: neither the spinner nor the empty page that an  *)
(* automatic request leaves meanwhile stays.                                    *)
PageSettles == \A p \in Pages : ShowsNothing(page[p]) ~> ~ShowsNothing(page[p])
=============================================================================
