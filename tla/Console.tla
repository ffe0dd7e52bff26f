------------------------------ MODULE Console ------------------------------
(***************************************************************************)
(* The pages of the console (frontend app/(app) and DriveBrowser), one of  *)
(* which is open at a time.  Every page loads a list, again whenever its   *)
(* filters change and after each command; nothing cancels a load that is   *)
(* under way, and a load that ends clears the spinner of all of them.      *)
(* Commands are sent from what the list showed when it was read.           *)
(***************************************************************************)
EXTENDS Session, Permissions, Sequences

CONSTANTS
  RoleOf,        \* the users' roles
  Total,         \* per filter: the pages of the audit trail
  Children,      \* per folder in Google Drive: the folders in it
  Root,
  Rows,          \* bound: the rows of a list
  Chosen,        \* bound: the filters that are chosen
  MaxLoads, MaxCommands, \* bounds: calls of a page in flight
  MaxAsk         \* bound: the number of a page, the depth of a path

ASSUME ConsoleAssumption ==
  /\ RoleOf \in [Users -> Roles]
  /\ Total \in [{"all", "action"} -> Nat \ {0}]
  /\ Root \in DOMAIN Children /\ Children \in [DOMAIN Children -> SUBSET (DOMAIN Children)]
  /\ MaxLoads \in Nat \ {0} /\ MaxCommands \in Nat \ {0} /\ MaxAsk \in Nat \ {0}

VARIABLES
  table,  \* the rows of the open page as the server has them
  page    \* the state of the open page, or None

vars == <<sessionVars, table, page>>

(* What tells one page from another.  view and manage are the permissions that   *)
(* AppShell's menu and the page ask for; filters gives the statuses that each     *)
(* filter lets through.  A load drops the error of an earlier one when it starts, *)
(* when it ends well or never; a failed one may empty the list.  If told, a       *)
(* command on a row drops the error when pressed and shows its own.              *)
Gone == "gone"
Unfiltered(statuses) == [all |-> statuses]
ByStatus(all, statuses) == [f \in {"all"} \cup statuses |-> IF f = "all" THEN all ELSE {f}]

Reader(view, drops, emptied, filters) ==
  [view |-> view, manage |-> None, statuses |-> {}, filters |-> filters, first |-> "all",
   drops |-> drops, emptied |-> emptied, told |-> FALSE]

DashboardPage == Reader("analytics:view", "never", FALSE, Unfiltered({}))
AuditFilters == [all |-> {}, action |-> {}]
AuditPage == Reader("audit:view", "never", FALSE, AuditFilters)
AnalyticsFilters == [all |-> {}, link |-> {}]
AnalyticsPage == Reader("analytics:view", "start", TRUE, AnalyticsFilters)
DriveBrowser == Reader("drive:browse", "start", TRUE, Unfiltered({}))

ContentStatuses == {"ACTIVE", "DRAFT", "ARCHIVED"}
ContentFilters == ByStatus(ContentStatuses, ContentStatuses)
ContentPage ==
  [view |-> "content:view", manage |-> "content:manage", statuses |-> ContentStatuses,
   filters |-> ContentFilters, first |-> "all",
   drops |-> "never", emptied |-> FALSE, told |-> FALSE]

LinkStatuses == {"ACTIVE", "DISABLED", "REVOKED", "EXPIRED", "DELETED"}
LinkFilters == ByStatus(LinkStatuses \ {"DELETED"}, LinkStatuses)
LinksPage ==
  [view |-> "link:view", manage |-> "link:manage", statuses |-> LinkStatuses,
   filters |-> LinkFilters, first |-> "ACTIVE",
   drops |-> "never", emptied |-> FALSE, told |-> FALSE]

UserStatuses == {"ACTIVE", "SUSPENDED"}
UsersPage ==
  [view |-> "user:view", manage |-> "user:manage", statuses |-> UserStatuses,
   filters |-> Unfiltered(UserStatuses), first |-> "all",
   drops |-> "loaded", emptied |-> FALSE, told |-> TRUE]

NotificationsPage ==
  [view |-> "notification:view", manage |-> "notification:manage", statuses |-> {"on", "off"},
   filters |-> Unfiltered({"on", "off"}), first |-> "all",
   drops |-> "never", emptied |-> FALSE, told |-> FALSE]

Values == {"one", "another"}
SettingsPage ==
  [view |-> "settings:view", manage |-> "settings:manage", statuses |-> Values,
   filters |-> Unfiltered(Values), first |-> "all",
   drops |-> "never", emptied |-> FALSE, told |-> TRUE]

Pages ==
  [dashboard |-> DashboardPage, content |-> ContentPage, drive |-> DriveBrowser,
   links |-> LinksPage, analytics |-> AnalyticsPage, users |-> UsersPage,
   notifications |-> NotificationsPage, audit |-> AuditPage, settings |-> SettingsPage]

Names == DOMAIN Pages
This == Pages[page.name]
Has(permission) == permission \in RolePermissions[RoleOf[user]]
Manages == This.manage # None /\ Has(This.manage)
Tables(n) == [Rows -> Pages[n].statuses \cup {Gone}]
AllStatuses == (UNION {Pages[n].statuses : n \in Names}) \cup {Gone}
AllFilters == UNION {DOMAIN Pages[n].filters : n \in Names}

Paths == {path \in Seq(DOMAIN Children) : Len(path) <= MaxAsk}
Asks == [filter : AllFilters, number : 1 .. MaxAsk, path : Paths]
Tablefuls == [Rows -> AllStatuses]
Answers == [ask : Asks, rows : Tablefuls]
Loads == [ask : Asks, rows : Tablefuls \cup {None}, after : SUBSET {"free", "tell"}]

Ops == {"archive", "restore", "remove", "disable", "enable", "revoke", "role", "toggle",
        "save", "create", "edit", "alert", "password"}
Commands ==
  [row : Rows, op : Ops, to : AllStatuses \cup {None}, from : {"row", "modal", "closed"},
   ask : Asks, stage : {"sent", "done", "refused"}]
Modals ==
  [kind : {"create", "edit", "password"}, row : Rows, saving : BOOLEAN, error : BOOLEAN]

PageStates ==
  [name : Names, ask : Asks, answer : Answers \cup {None}, loading : BOOLEAN, error : BOOLEAN,
   loads : [1 .. MaxLoads -> Loads \cup {None}],
   commands : [1 .. MaxCommands -> Commands \cup {None}],
   modal : Modals \cup {None}, busy : Rows \cup {None}, drafts : Tablefuls]

ASSUME NothingAssumption ==
  None \notin Tablefuls \cup Answers \cup Loads \cup Commands \cup Modals \cup PageStates

TypeOK ==
  /\ SessionTypeOK
  /\ table \in Tablefuls
  /\ page \in PageStates \cup {None}

-----------------------------------------------------------------------------
(* What a load asks for: the filter, the number of the page, the open folder.    *)
FirstAsk(n) == [filter |-> Pages[n].first, number |-> 1, path |-> <<>>]

Blank(n) ==
  [name |-> n, ask |-> FirstAsk(n), answer |-> None, loading |-> FALSE, error |-> FALSE,
   loads |-> [l \in 1 .. MaxLoads |-> None], commands |-> [c \in 1 .. MaxCommands |-> None],
   modal |-> None, busy |-> None, drafts |-> [r \in Rows |-> Gone]]

FreeLoads == {l \in 1 .. MaxLoads : page.loads[l] = None}
FreeCommands == {c \in 1 .. MaxCommands : page.commands[c] = None}
Spare(slots) == CHOOSE slot \in slots : TRUE

(* A load of p, and what follows its end: a row is no longer busy, the error of  *)
(* a command is shown.                                                          *)
Load(p, l, ask, after) ==
  [p EXCEPT !.loading = TRUE,
            !.error = @ /\ Pages[p.name].drops # "start",
            !.loads[l] = [ask |-> ask, rows |-> None, after |-> after]]

(* A handler calls the load of the render it belongs to: what the page asked for  *)
(* when the button was pressed is loaded, whatever it asks for by now.           *)
Reload(p, q, after) == Load(p, Spare(FreeLoads), q.ask, after)

(* The pages are mounted anew whenever they are opened. *)
OpenPage(n) ==
  /\ Inside /\ Has(Pages[n].view)
  /\ table' \in Tables(n)
  /\ page' = Load(Blank(n), 1, FirstAsk(n), {})

(* The server reads the rows that the filter lets through. *)
Listed(filter) ==
  [r \in Rows |-> IF table[r] \in This.filters[filter] THEN table[r] ELSE Gone]

ReadRows(l) ==
  /\ page.loads[l] # None /\ page.loads[l].rows = None
  /\ page' = [page EXCEPT !.loads[l].rows = Listed(page.loads[l].ask.filter)]
  /\ UNCHANGED table

Ended(l, error) ==
  [page EXCEPT !.loading = FALSE, !.loads[l] = None,
               !.error = error \/ "tell" \in page.loads[l].after,
               !.busy = IF "free" \in page.loads[l].after THEN None ELSE @]

Arrives(l) ==
  /\ page.loads[l] # None /\ page.loads[l].rows # None
  /\ LET answer == [ask |-> page.loads[l].ask, rows |-> page.loads[l].rows]
         ended == Ended(l, page.error /\ This.drops # "loaded")
     IN  page' = [ended EXCEPT !.answer = answer,
                    !.drafts = IF page.name = "settings" THEN answer.rows ELSE @]
  /\ UNCHANGED table

SpinsOn(l) ==
  /\ page.loads[l] # None
  /\ page' = [Ended(l, TRUE) EXCEPT !.loading = TRUE]
  /\ UNCHANGED table

LoadFails(l) ==
  /\ page.loads[l] # None
  /\ page' = [Ended(l, TRUE) EXCEPT !.answer = IF This.emptied THEN None ELSE @]
  /\ UNCHANGED table

-----------------------------------------------------------------------------
(* How the user changes what is asked for. *)

Displayed == ~page.loading /\ page.answer # None

FilterTurns ==
  {[filter |-> f, number |-> 1, path |-> <<>>] :
     f \in ((DOMAIN This.filters) \cap Chosen) \ {page.ask.filter}}

(* The pager goes by the numbers of the last answer, and turns the page that was *)
(* last asked for.                                                              *)
PreviousUnbounded(n) == n - 1
Previous(n) == IF n > 1 THEN n - 1 ELSE 1

PagerTurns ==
  LET shown == page.answer.ask
      forth == IF shown.number < Total[shown.filter] THEN {page.ask.number + 1} ELSE {}
      back == IF shown.number > 1 THEN {Previous(page.ask.number)} ELSE {}
  IN  IF Displayed THEN {[page.ask EXCEPT !.number = n] : n \in (forth \cup back) \ {page.ask.number}}
      ELSE {}

Folder(path) == IF path = <<>> THEN Root ELSE path[Len(path)]

(* The path: the root, any folder on it, back, or the present one again. *)
CrumbTurns == {[page.ask EXCEPT !.path = SubSeq(@, 1, n)] : n \in 0 .. Len(page.ask.path)}

(* A folder in the list is appended to the path, whichever folder the list is of. *)
FolderTurns ==
  IF ~Displayed THEN {}
  ELSE {[page.ask EXCEPT !.path = Append(@, f)] : f \in Children[Folder(page.answer.ask.path)]}

Turns ==
  CASE page.name = "audit" -> FilterTurns \cup PagerTurns
    [] page.name = "drive" -> CrumbTurns \cup FolderTurns
    [] OTHER -> FilterTurns

(* The effect loads again as soon as the ask has changed. *)
ForgetToLoad(ask) == [page EXCEPT !.ask = ask]
Loaded(ask) == Load([page EXCEPT !.ask = ask], Spare(FreeLoads), ask, {})

Turn ==
  /\ FreeLoads # {}
  /\ \E ask \in Turns :
       /\ ask.number <= MaxAsk /\ Len(ask.path) <= MaxAsk
       /\ page' = Loaded(ask)
  /\ UNCHANGED table

-----------------------------------------------------------------------------
(* The commands that a row offers, by the status that the list shows. *)

Offer(op, to) == [op |-> op, to |-> to]

ContentOffers(status) ==
  {IF status = "ARCHIVED" THEN Offer("restore", "ACTIVE") ELSE Offer("archive", "ARCHIVED"),
   Offer("remove", Gone)}

LinkOffers(status) ==
  (IF status = "ACTIVE" THEN {Offer("disable", "DISABLED")} ELSE {})
    \cup (IF status \in {"DISABLED", "DELETED"} THEN {Offer("enable", "ACTIVE")} ELSE {})
    \cup (IF status \notin {"REVOKED", "DELETED"} THEN {Offer("revoke", "REVOKED")} ELSE {})
    \cup (IF status # "DELETED" THEN {Offer("remove", "DELETED")} ELSE {})

(* A change of role changes no status. *)
UserOffers(status) ==
  {Offer("role", None), Offer("toggle", IF status = "ACTIVE" THEN "SUSPENDED" ELSE "ACTIVE")}

RemovalOffers(row) == IF page.busy = row THEN {} ELSE {Offer("remove", Gone)}

RuleOffers(status) ==
  {Offer("toggle", IF status = "on" THEN "off" ELSE "on"), Offer("remove", Gone)}

SettingOffers(row) == {Offer("save", page.drafts[row])}

Offers(row) ==
  LET status == page.answer.rows[row] IN
    CASE page.name = "content" -> ContentOffers(status)
      [] page.name = "links" -> LinkOffers(status)
      [] page.name = "users" -> UserOffers(status) \cup RemovalOffers(row)
      [] page.name = "notifications" -> RuleOffers(status)
      [] page.name = "settings" -> SettingOffers(row)

Send(p, row, offer, from) ==
  [p EXCEPT !.commands[Spare(FreeCommands)] =
     [row |-> row, op |-> offer.op, to |-> offer.to, from |-> from,
      ask |-> p.ask, stage |-> "sent"]]

Press(row) ==
  /\ Manages /\ Displayed /\ page.answer.rows[row] # Gone /\ FreeCommands # {}
  /\ \E offer \in Offers(row) :
       page' = [Send(page, row, offer, "row") EXCEPT
                  !.error = @ /\ ~This.told,
                  !.busy = IF page.name = "users" /\ offer.op = "remove" THEN row ELSE @]
  /\ UNCHANGED table

TypeDraft(row, value) ==
  /\ page.name = "settings" /\ Manages /\ Displayed /\ page.answer.rows[row] # Gone
  /\ page' = [page EXCEPT !.drafts[row] = value]
  /\ UNCHANGED table

(* The rule form has a button of its own, which nothing disables meanwhile. *)
AddRule(row) ==
  /\ page.name = "notifications" /\ Manages /\ ~page.loading /\ FreeCommands # {}
  /\ page' = Send(page, row, Offer("create", "on"), "row")
  /\ UNCHANGED table

(* The server carries a command out, if its row is still there and, being a link, *)
(* not deleted; an email in use is refused, a content or a rule that is there     *)
(* stands for another.                                                          *)
Carry(c) ==
  LET q == page.commands[c]
      there == table[q.row] # Gone
      dead == q.op \in {"disable", "revoke", "remove"} /\ table[q.row] = "DELETED"
      accepted == IF q.op = "create" THEN page.name = "users" => ~there ELSE there /\ ~dead
      written == accepted /\ q.to # None /\ (q.op = "create" => ~there)
  IN  /\ q # None /\ q.stage = "sent"
      /\ table' = IF written THEN [table EXCEPT ![q.row] = q.to] ELSE table
      /\ page' = [page EXCEPT !.commands[c].stage = IF accepted THEN "done" ELSE "refused"]

-----------------------------------------------------------------------------
(* The modals: new content and a new user, the limits of a link, a password.     *)

ModalKinds(n) ==
  CASE n = "content" -> {"create"}
    [] n = "links" -> {"edit"}
    [] n = "users" -> {"create", "password"}
    [] OTHER -> {}

(* A row is handed to the modal as the list shows it. *)
OpenModal(kind, row) ==
  /\ Manages /\ page.modal = None /\ kind \in ModalKinds(page.name)
  /\ kind # "create" => Displayed /\ page.answer.rows[row] # Gone
  /\ kind = "password" => RoleOf[user] = "SUPER_ADMIN"
  /\ page' = [page EXCEPT !.modal = [kind |-> kind, row |-> row, saving |-> FALSE, error |-> FALSE]]
  /\ UNCHANGED table

(* A call that the modal has under way goes on without it. *)
Leave(q) == IF q # None /\ q.from = "modal" THEN [q EXCEPT !.from = "closed"] ELSE q
Closed(p) ==
  [p EXCEPT !.modal = None, !.commands = [c \in 1 .. MaxCommands |-> Leave(p.commands[c])]]

(* Cancel, or a click beside the modal. *)
CloseModal == page.modal # None /\ page' = Closed(page) /\ UNCHANGED table

CreateContentModal == {Offer("create", "ACTIVE")}
CreateUserModal == {Offer("create", "ACTIVE")}
SetPasswordModal == {Offer("password", None)}

(* Extending a link makes it active, a new limit or an alert changes no status.  *)
EditLinkModal ==
  {Offer("edit", "ACTIVE"), Offer("edit", None)}
    \cup (IF Has("notification:manage") THEN {Offer("alert", None)} ELSE {})

ModalOffers ==
  CASE page.modal.kind = "edit" -> EditLinkModal
    [] page.modal.kind = "password" -> SetPasswordModal
    [] OTHER -> IF page.name = "content" THEN CreateContentModal ELSE CreateUserModal

SubmitModal ==
  /\ page.modal # None /\ ~page.modal.saving /\ FreeCommands # {}
  /\ \E offer \in ModalOffers :
       page' = [Send(page, page.modal.row, offer, "modal") EXCEPT
                  !.modal.saving = TRUE, !.modal.error = FALSE]
  /\ UNCHANGED table

(* A new content needs a title and a file, a password eight characters, twice.   *)
RefuseInput ==
  /\ page.modal # None /\ ~page.modal.saving
  /\ page.name = "content" \/ page.modal.kind = "password"
  /\ page' = [page EXCEPT !.modal.error = TRUE]
  /\ UNCHANGED table

-----------------------------------------------------------------------------
(* How commands end. *)

Without(p, c) == [p EXCEPT !.commands[c] = None]

(* onCreated and onSaved close the modal that is open by then. *)
SavedFor(q) == page.modal # None /\ page.modal.kind = q.op
ClosedBy(p, q) == IF q.from # "row" /\ SavedFor(q) THEN Closed(p) ELSE p

(* An alert leaves its modal open, a password the list as it is; a removed user  *)
(* is taken off the list before it is loaded again.                             *)
Succeeds(c) ==
  /\ page.commands[c] # None /\ page.commands[c].stage = "done" /\ FreeLoads # {}
  /\ LET q == page.commands[c]
         ended == Without(page, c)
         removal == page.name = "users" /\ q.op = "remove"
         shorter == IF removal /\ ended.answer # None
                      THEN [ended EXCEPT !.answer.rows[q.row] = Gone] ELSE ended
     IN  page' = CASE q.op = "alert" -> IF q.from = "modal" THEN [ended EXCEPT !.modal.saving = FALSE] ELSE ended
                   [] q.op = "password" -> ClosedBy(ended, q)
                   [] OTHER -> Reload(ClosedBy(shorter, q), q, IF removal THEN {"free"} ELSE {})
  /\ UNCHANGED table

CloseOnFailure(p, q) == IF q.from = "modal" THEN [p EXCEPT !.modal = None] ELSE p
FailedIn(p, q) == IF q.from = "modal" THEN [p EXCEPT !.modal.saving = FALSE, !.modal.error = TRUE] ELSE p

(* Refused, or lost on the way there or back.  A modal shows its own error; the  *)
(* rows of contents, links and rules show none.                                 *)
CommandFails(c) ==
  /\ page.commands[c] # None /\ FreeLoads # {}
  /\ LET q == page.commands[c]
         ended == FailedIn(Without(page, c), q)
     IN  page' = IF page.name = "users" /\ q.op = "remove" THEN Reload(ended, q, {"free", "tell"})
                 ELSE [ended EXCEPT !.error = @ \/ (q.from = "row" /\ This.told)]
  /\ UNCHANGED table

(* Somebody else writes a row; nothing deletes a setting. *)
OthersWrite ==
  /\ \E row \in Rows, status \in This.statuses \cup (IF page.name = "settings" THEN {} ELSE {Gone}) :
       table' = [table EXCEPT ![row] = status]
  /\ table' # table
  /\ UNCHANGED page

-----------------------------------------------------------------------------
(* AppShell shows a page as long as the user is known. *)
StaysInside == IF Inside' THEN UNCHANGED <<table, page>> ELSE page' = None /\ UNCHANGED table

Serve ==
  /\ page # None
  /\ \/ \E l \in 1 .. MaxLoads : ReadRows(l) \/ Arrives(l) \/ LoadFails(l)
     \/ \E c \in 1 .. MaxCommands : Carry(c) \/ Succeeds(c) \/ CommandFails(c)
  /\ UNCHANGED sessionVars

Use ==
  /\ \/ \E n \in Names : OpenPage(n)
     \/ /\ page # None
        /\ \/ Turn \/ CloseModal \/ SubmitModal \/ RefuseInput \/ OthersWrite
           \/ \E row \in Rows : Press(row) \/ AddRule(row)
           \/ \E row \in Rows, kind \in {"create", "edit", "password"} : OpenModal(kind, row)
           \/ \E row \in Rows, value \in Values : TypeDraft(row, value)
  /\ UNCHANGED sessionVars

Init ==
  /\ SessionInit /\ page = None
  /\ table = [r \in Rows |-> Gone]

Act == Use \/ (Browse /\ StaysInside)
Next == Act \/ Serve \/ (Proceed /\ StaysInside)

Spec == Init /\ [][Next]_vars

(* Calls end one way or another, and effects run. *)
Ends ==
  /\ WF_vars(Proceed /\ StaysInside)
  /\ WF_vars(Serve)

FairSpec == Spec /\ Ends
=============================================================================
