---------------------------- MODULE ConsoleProofs ----------------------------
(* What holds of the browser for every number of users, rows, calls in flight and *)
(* folders, and every length of the audit trail.                                *)
EXTENDS MCConsole, FiniteSetTheorems, SequenceTheorems, TLAPS

Slots == 1 .. MaxLoads
Desks == 1 .. MaxCommands

(* What the calls in flight of a page rest on: the modal that sent one is still    *)
(* there, a spinner turns only for a load, an alert or a password writes no row,  *)
(* and the filter asked for is one of the page.                                 *)
InHand ==
  page # None =>
    /\ \A c \in Desks :
         page.commands[c] # None /\ page.commands[c].from = "modal" => page.modal # None
    /\ page.loading => \E l \in Slots : page.loads[l] # None
    /\ \A c \in Desks :
         page.commands[c] # None /\ page.commands[c].op \in {"alert", "password"} =>
           page.commands[c].to = None
    /\ page.ask.filter \in DOMAIN This.filters

ConsoleInv == TypeOK /\ InHand

(* Unless there is doubt, no two calls of /me are in flight, what one was answered  *)
(* still is so, and between them the user shown is the one who is signed in.     *)
SessionInv ==
  /\ form = "refreshing" <=> InFlight("refresh")
  /\ ~doubt =>
       /\ ~(InFlight("mount") /\ InFlight("refresh"))
       /\ \A c \in Callers : asks[c].answer = "me" => asks[c].who = cookie \/ cookie = None
       /\ (\A c \in Callers : ~InFlight(c)) => user = cookie \/ cookie = None

(* A list that is not behind: the load that began last is one of what the page asks *)
(* for, and what it has read, or the page shows once it has ended, is the server's, *)
(* unless a command that changed it is about to load it again.                   *)
Pending ==
  \E c \in Desks :
    /\ page.commands[c] # None /\ page.commands[c].stage = "done"
    /\ page.commands[c].op \notin {"alert", "password"}

Current(rows) == rows = Listed(page.ask.filter) \/ Pending

Afresh ==
  /\ \A l \in newest :
       page.loads[l].ask = page.ask /\ (page.loads[l].rows = None \/ Current(page.loads[l].rows))
  /\ newest = {} =>
       \/ \E l \in Slots : page.loads[l] # None
       \/ page.answer # None /\ page.answer.ask = page.ask /\ Current(page.answer.rows)

(* A page whose loads never overlapped, failed or asked for something else.          *)
Calm ==
  /\ \A k, l \in Slots : page.loads[k] # None /\ page.loads[l] # None => k = l
  /\ \A l \in Slots : page.loads[l] # None => page.loading /\ page.loads[l].ask = page.ask
  /\ (\A l \in Slots : page.loads[l] = None) => page.answer # None /\ page.answer.ask = page.ask

OnTheMap ==
  /\ page.name = "audit" => page.ask.number <= Total[page.ask.filter]
  /\ RealPath(page.ask.path)

ListInv == page # None =>
  /\ newest \subseteq {l \in Slots : page.loads[l] # None} /\ \A k, l \in newest : k = l
  /\ ~spoiled => Afresh
  /\ ~strayed => Calm /\ OnTheMap

-----------------------------------------------------------------------------
(* What the pages have in common.                                               *)

LEMMA PageNames ==
  Names = {"dashboard", "content", "drive", "links", "analytics", "users", "notifications",
           "audit", "settings"}
  BY DEF Names, Pages

LEMMA Statuses ==
  /\ ContentStatuses \cup LinkStatuses \cup UserStatuses \cup {"on", "off", Gone} \cup Values
       \subseteq AllStatuses
  /\ \A n \in Names : Pages[n].statuses \subseteq AllStatuses
<1>1. \A n \in Names : Pages[n].statuses \subseteq AllStatuses
  BY DEF AllStatuses
<1>2. /\ Pages["content"].statuses = ContentStatuses
      /\ Pages["links"].statuses = LinkStatuses
      /\ Pages["users"].statuses = UserStatuses
      /\ Pages["notifications"].statuses = {"on", "off"}
      /\ Pages["settings"].statuses = Values
  BY DEF Pages, ContentPage, LinksPage, UsersPage, NotificationsPage, SettingsPage
<1>3. Gone \in AllStatuses
  BY DEF AllStatuses
<1>4. QED
  BY <1>1, <1>2, <1>3, PageNames

LEMMA Filters ==
  ASSUME NEW n \in Names
  PROVE  /\ DOMAIN Pages[n].filters \subseteq AllFilters
         /\ Pages[n].first \in DOMAIN Pages[n].filters
<1>1. DOMAIN Pages[n].filters \subseteq AllFilters
  BY DEF AllFilters
<1>2. ASSUME n = "links" PROVE Pages[n].first \in DOMAIN Pages[n].filters
  BY <1>2 DEF Pages, LinksPage, LinkFilters, ByStatus, LinkStatuses
<1>3. ASSUME n = "content" PROVE Pages[n].first \in DOMAIN Pages[n].filters
  BY <1>3 DEF Pages, ContentPage, ContentFilters, ByStatus
<1>4. ASSUME n \in {"users", "notifications", "settings"} PROVE Pages[n].first \in DOMAIN Pages[n].filters
  BY <1>4 DEF Pages, UsersPage, NotificationsPage, SettingsPage, Unfiltered
<1>5. ASSUME n \in {"dashboard", "drive", "analytics", "audit"} PROVE Pages[n].first \in DOMAIN Pages[n].filters
  BY <1>5 DEF Pages, DashboardPage, DriveBrowser, AnalyticsPage, AuditPage, Reader, Unfiltered,
     AuditFilters, AnalyticsFilters
<1>6. QED
  BY <1>1, <1>2, <1>3, <1>4, <1>5, PageNames

LEMMA Managed ==
  ASSUME page # None, page \in PageStates, Manages
  PROVE  page.name \in {"content", "links", "users", "notifications", "settings"}
<1>1. page.name \in Names
  BY DEF PageStates
<1>2. CASE page.name \in {"dashboard", "drive", "analytics", "audit"}
  BY <1>2 DEF Manages, This, Pages, DashboardPage, DriveBrowser, AnalyticsPage, AuditPage, Reader
<1>3. QED
  BY <1>1, <1>2, PageNames

LEMMA SpareIn == ASSUME NEW S, S # {} PROVE Spare(S) \in S
  BY DEF Spare

(* A path grows by a folder and is cut to a beginning.                              *)
LEMMA Beginning ==
  ASSUME NEW S, NEW path \in Seq(S), NEW n \in 0 .. Len(path)
  PROVE  /\ SubSeq(path, 1, n) \in Seq(S) /\ Len(SubSeq(path, 1, n)) = n
         /\ \A i \in 1 .. n : SubSeq(path, 1, n)[i] = path[i]
  OBVIOUS

LEMMA Longer ==
  ASSUME NEW S, NEW path \in Seq(S), NEW f \in S
  PROVE  /\ Append(path, f) \in Seq(S) /\ Len(Append(path, f)) = Len(path) + 1
         /\ \A i \in 1 .. Len(path) : Append(path, f)[i] = path[i]
         /\ Append(path, f)[Len(path) + 1] = f
  OBVIOUS

-----------------------------------------------------------------------------
(* What a load, a command sent and a modal closed make of a page.                   *)

LEMMA LoadMakes ==
  ASSUME NEW p \in PageStates, NEW l \in Slots, NEW ask \in Asks,
         NEW after \in SUBSET {"free", "tell"}, NEW q, q = Load(p, l, ask, after)
  PROVE  /\ q \in PageStates
         /\ q.name = p.name /\ q.ask = p.ask /\ q.answer = p.answer /\ q.loading
         /\ q.loads = [p.loads EXCEPT ![l] = [ask |-> ask, rows |-> None, after |-> after]]
         /\ q.commands = p.commands /\ q.modal = p.modal
<1>1. [ask |-> ask, rows |-> None, after |-> after] \in Loads
  BY DEF Loads
<1>2. QED
  BY <1>1 DEF Load, PageStates, Slots

LEMMA SendMakes ==
  ASSUME NEW p \in PageStates, NEW row \in Rows, NEW offer \in [op : Ops, to : AllStatuses \cup {None}],
         NEW from \in {"row", "modal", "closed"}, FreeCommands # {}, NEW q,
         q = Send(p, row, offer, from)
  PROVE  /\ q \in PageStates
         /\ \E c \in Desks :
              /\ page.commands[c] = None
              /\ q = [p EXCEPT !.commands[c] =
                        [row |-> row, op |-> offer.op, to |-> offer.to, from |-> from,
                         ask |-> p.ask, stage |-> "sent"]]
         /\ q.name = p.name /\ q.ask = p.ask /\ q.answer = p.answer /\ q.loading = p.loading
         /\ q.loads = p.loads /\ q.modal = p.modal
<1> DEFINE c == Spare(FreeCommands)
           sent == [row |-> row, op |-> offer.op, to |-> offer.to, from |-> from,
                    ask |-> p.ask, stage |-> "sent"]
<1>1. c \in FreeCommands
  BY SpareIn
<1>2. c \in Desks /\ page.commands[c] = None
  BY <1>1 DEF FreeCommands, Desks
<1>3. sent \in Commands
  BY DEF Commands, PageStates
<1>4. q = [p EXCEPT !.commands[c] = sent]
  BY DEF Send
<1> HIDE DEF c, sent
<1>5. q \in PageStates /\ q.name = p.name /\ q.ask = p.ask /\ q.answer = p.answer
      /\ q.loading = p.loading /\ q.loads = p.loads /\ q.modal = p.modal
  BY <1>2, <1>3, <1>4 DEF PageStates, Desks
<1>6. QED
  BY <1>2, <1>4, <1>5 DEF sent

LEMMA LeaveTyped == ASSUME NEW q \in Commands \cup {None} PROVE Leave(q) \in Commands \cup {None}
  BY DEF Leave, Commands

LEMMA ClosedMakes ==
  ASSUME NEW p \in PageStates, NEW q, q = Closed(p)
  PROVE  /\ q \in PageStates
         /\ q.name = p.name /\ q.ask = p.ask /\ q.answer = p.answer /\ q.loading = p.loading
         /\ q.loads = p.loads /\ q.modal = None
         /\ q.commands = [c \in Desks |-> Leave(p.commands[c])]
<1>1. p.commands \in [Desks -> Commands \cup {None}]
  BY DEF PageStates, Desks
<1>2. [c \in Desks |-> Leave(p.commands[c])] \in [Desks -> Commands \cup {None}]
  BY <1>1, LeaveTyped
<1>3. QED
  BY <1>2 DEF Closed, PageStates, Desks

-----------------------------------------------------------------------------
(* What may be asked for, and which commands are offered.                           *)

LEMMA FolderTyped ==
  ASSUME NEW path \in Paths
  PROVE  Folder(path) \in DOMAIN Children /\ Children[Folder(path)] \subseteq DOMAIN Children
<1>1. Folder(path) \in DOMAIN Children
  BY ConsoleAssumption DEF Folder, Paths
<1>2. QED
  BY <1>1, ConsoleAssumption

LEMMA TurnsTyped ==
  ASSUME ConsoleInv, page # None, NEW ask \in Turns, ask.number <= MaxAsk, Len(ask.path) <= MaxAsk
  PROVE  ask \in Asks /\ ask.filter \in DOMAIN This.filters
<1>1. page \in PageStates
  BY DEF ConsoleInv, TypeOK
<1>2. page.ask \in Asks /\ page.name \in Names /\ page.answer \in Answers \cup {None}
  BY <1>1 DEF PageStates
<1>3. page.ask.filter \in DOMAIN This.filters /\ DOMAIN This.filters \subseteq AllFilters
  BY <1>2, Filters DEF ConsoleInv, InHand, This
<1>4. CASE ask \in FilterTurns
  <2>1. ask.filter \in DOMAIN This.filters
    BY <1>4 DEF FilterTurns
  <2>2. ask = [filter |-> ask.filter, number |-> 1, path |-> <<>>]
    BY <1>4 DEF FilterTurns
  <2>3. 1 \in 1 .. MaxAsk
    BY ConsoleAssumption
  <2>4. <<>> \in Paths
    BY ConsoleAssumption DEF Paths
  <2>5. QED
    BY <1>3, <2>1, <2>2, <2>3, <2>4 DEF Asks
<1>5. CASE ask \in PagerTurns
  <2>1. PICK n \in {page.ask.number + 1, Previous(page.ask.number)} :
          ask = [page.ask EXCEPT !.number = n]
    BY <1>5 DEF PagerTurns
  <2>2. n \in Nat \ {0}
    BY <1>2 DEF Asks, Previous
  <2>3. n <= MaxAsk
    BY <1>2, <2>1 DEF Asks
  <2>4. n \in 1 .. MaxAsk
    BY <2>2, <2>3, ConsoleAssumption
  <2>5. QED
    BY <1>2, <1>3, <2>1, <2>4 DEF Asks
<1>6. CASE ask \in CrumbTurns
  <2>1. PICK n \in 0 .. Len(page.ask.path) :
          ask = [page.ask EXCEPT !.path = SubSeq(page.ask.path, 1, n)]
    BY <1>6 DEF CrumbTurns
  <2>2. page.ask.path \in Seq(DOMAIN Children)
    BY <1>2 DEF Asks, Paths
  <2>3. SubSeq(page.ask.path, 1, n) \in Paths
    BY <1>2, <2>1, <2>2, Beginning DEF Asks, Paths
  <2>4. QED
    BY <1>2, <1>3, <2>1, <2>3 DEF Asks
<1>7. CASE ask \in FolderTurns
  <2>1. page.answer # None
    BY <1>7 DEF FolderTurns, Displayed
  <2>2. page.answer.ask.path \in Paths
    BY <1>2, <2>1 DEF Answers, Asks
  <2>3. PICK f \in Children[Folder(page.answer.ask.path)] :
          ask = [page.ask EXCEPT !.path = Append(page.ask.path, f)]
    BY <1>7 DEF FolderTurns
  <2>4. page.ask.path \in Seq(DOMAIN Children) /\ f \in DOMAIN Children
    BY <1>2, <2>2, <2>3, FolderTyped DEF Asks, Paths
  <2>5. Append(page.ask.path, f) \in Seq(DOMAIN Children)
    BY <2>4, Longer
  <2>6. ask.path = Append(page.ask.path, f)
    BY <1>2, <2>3 DEF Asks
  <2>7. Append(page.ask.path, f) \in Paths
    BY <2>5, <2>6 DEF Paths
  <2>8. QED
    BY <1>2, <1>3, <2>3, <2>7 DEF Asks
<1>8. QED
  BY <1>4, <1>5, <1>6, <1>7 DEF Turns

Offered == [op : Ops, to : AllStatuses \cup {None}]

LEMMA OffersTyped ==
  ASSUME ConsoleInv, page # None, Manages, page.answer # None, NEW row \in Rows,
         NEW offer \in Offers(row)
  PROVE  offer \in Offered /\ offer.op \notin {"alert", "password"}
<1>1. page \in PageStates
  BY DEF ConsoleInv, TypeOK
<1> USE DEF Offered, Offer, Ops
<1>2. CASE page.name = "content"
  BY <1>2, Statuses DEF Offers, ContentOffers, ContentStatuses
<1>3. CASE page.name = "links"
  BY <1>3, Statuses DEF Offers, LinkOffers, LinkStatuses
<1>4. CASE page.name = "users"
  BY <1>4, Statuses DEF Offers, UserOffers, RemovalOffers, UserStatuses
<1>5. CASE page.name = "notifications"
  BY <1>5, Statuses DEF Offers, RuleOffers
<1>6. CASE page.name = "settings"
  <2>1. page.drafts[row] \in AllStatuses
    BY <1>1 DEF PageStates, Tablefuls
  <2>2. QED
    BY <1>6, <2>1 DEF Offers, SettingOffers
<1>7. QED
  BY <1>1, <1>2, <1>3, <1>4, <1>5, <1>6, Managed

LEMMA ModalOffersTyped ==
  ASSUME NEW offer \in ModalOffers
  PROVE  /\ offer \in Offered
         /\ offer.op \in {"alert", "password"} => offer.to = None
<1> USE DEF Offered, Offer, Ops
<1>1. CASE offer \in EditLinkModal
  BY <1>1, Statuses DEF EditLinkModal, LinkStatuses
<1>2. CASE offer \in SetPasswordModal \cup CreateContentModal \cup CreateUserModal
  BY <1>2, Statuses DEF SetPasswordModal, CreateContentModal, CreateUserModal, LinkStatuses
<1>3. QED
  BY <1>1, <1>2 DEF ModalOffers

-----------------------------------------------------------------------------
(* Every step leaves the page, the table and what is in hand as they should be.      *)
Sound == page' \in PageStates /\ table' \in Tablefuls /\ InHand'

LEMMA ListedTyped == ASSUME TypeOK, NEW filter PROVE Listed(filter) \in Tablefuls
  BY Statuses DEF Listed, TypeOK, Tablefuls

LEMMA PageTyped ==
  ASSUME ConsoleInv, page # None
  PROVE  /\ page \in PageStates /\ table \in Tablefuls
         /\ page.ask \in Asks /\ page.name \in Names /\ page.ask.filter \in DOMAIN This.filters
  BY DEF ConsoleInv, TypeOK, InHand, PageStates

LEMMA BlankTyped ==
  ASSUME NEW n \in Names
  PROVE  /\ Blank(n) \in PageStates /\ FirstAsk(n) \in Asks
         /\ FirstAsk(n).filter \in DOMAIN Pages[n].filters
<1>1. 1 \in 1 .. MaxAsk /\ <<>> \in Paths
  BY ConsoleAssumption DEF Paths
<1>2. FirstAsk(n) \in Asks /\ FirstAsk(n).filter \in DOMAIN Pages[n].filters
  BY <1>1, Filters DEF FirstAsk, Asks
<1>3. [r \in Rows |-> Gone] \in Tablefuls
  BY Statuses DEF Tablefuls
<1>4. QED
  BY <1>2, <1>3 DEF Blank, PageStates

LEMMA OpenPageSound ==
  ASSUME ConsoleInv, NEW n \in Names, OpenPage(n)
  PROVE  Sound
<1>1. 1 \in Slots /\ {} \in SUBSET {"free", "tell"}
  BY ConsoleAssumption DEF Slots
<1>2. /\ Blank(n).name = n /\ Blank(n).loads = [l \in Slots |-> None] /\ Blank(n).ask = FirstAsk(n)
      /\ Blank(n).commands = [c \in Desks |-> None]
  BY DEF Blank, Slots, Desks
<1> DEFINE load == [ask |-> FirstAsk(n), rows |-> None, after |-> {}]
           blank == Blank(n)
<1>3. load # None
  <2>1. load \in Loads
    BY BlankTyped DEF Loads
  <2>2. QED
    BY <2>1, NothingAssumption
<1>4. blank \in PageStates /\ FirstAsk(n) \in Asks
  BY BlankTyped
<1>5. page' = Load(blank, 1, FirstAsk(n), {})
  BY DEF OpenPage
<1> HIDE DEF blank
<1>6. /\ page' \in PageStates /\ page'.name = blank.name /\ page'.ask = blank.ask
      /\ page'.commands = blank.commands /\ page'.loads = [blank.loads EXCEPT ![1] = load]
  <2> DEFINE next == Load(blank, 1, FirstAsk(n), {})
  <2>1. /\ next \in PageStates /\ next.name = blank.name /\ next.ask = blank.ask
        /\ next.commands = blank.commands /\ next.loads = [blank.loads EXCEPT ![1] = load]
    BY <1>1, <1>4, LoadMakes
  <2>2. QED
    BY <1>5, <2>1
<1>7. /\ page'.name = n /\ page'.loads[1] # None /\ page'.commands = [c \in Desks |-> None]
      /\ page'.ask = FirstAsk(n)
  BY <1>1, <1>2, <1>3, <1>6 DEF blank
<1>8. table' \in Tablefuls
  BY Statuses DEF OpenPage, Tables, Tablefuls
<1>9. InHand'
  BY <1>1, <1>6, <1>7, BlankTyped DEF InHand, This, Desks
<1>10. QED
  BY <1>6, <1>8, <1>9 DEF Sound

LEMMA ReadRowsMakes ==
  ASSUME ConsoleInv, page # None, NEW l \in Slots, ReadRows(l)
  PROVE  /\ Sound /\ table' = table
         /\ page'.name = page.name /\ page'.ask = page.ask /\ page'.answer = page.answer
         /\ page'.loading = page.loading
         /\ page'.commands = page.commands /\ page'.modal = page.modal
         /\ page.loads[l] # None /\ page'.loads[l] # None
         /\ page'.loads[l].ask = page.loads[l].ask
         /\ page'.loads[l].rows = Listed(page.loads[l].ask.filter)
         /\ \A k \in Slots \ {l} : page'.loads[k] = page.loads[k]
<1>1. page \in PageStates /\ table' \in Tablefuls
  BY PageTyped DEF ReadRows
<1>2. page.loads[l] \in Loads
  BY <1>1 DEF ReadRows, PageStates, Slots
<1> DEFINE now == [page.loads[l] EXCEPT !.rows = Listed(page.loads[l].ask.filter)]
<1>3. now \in Loads
  BY <1>2, ListedTyped DEF ConsoleInv, Loads
<1>4. page' = [page EXCEPT !.loads[l] = now]
  BY DEF ReadRows
<1>5. /\ now # None /\ now.ask = page.loads[l].ask
      /\ now.rows = Listed(page.loads[l].ask.filter)
  BY <1>2, <1>3, NothingAssumption DEF Loads
<1> HIDE DEF now
<1>6. page' \in PageStates
  BY <1>1, <1>3, <1>4 DEF PageStates, Slots
<1>7. /\ page'.name = page.name /\ page'.ask = page.ask /\ page'.answer = page.answer
      /\ page'.loading = page.loading
      /\ page'.commands = page.commands /\ page'.modal = page.modal
      /\ page'.loads[l] = now
      /\ \A k \in Slots \ {l} : page'.loads[k] = page.loads[k]
  BY <1>1, <1>4 DEF PageStates, Slots
<1>8. InHand'
  BY <1>1, <1>5, <1>7 DEF InHand, ConsoleInv, This
<1>9. QED
  BY <1>1, <1>5, <1>6, <1>7, <1>8 DEF Sound, ReadRows

LEMMA EndedMakes ==
  ASSUME ConsoleInv, page # None, NEW l \in Slots, page.loads[l] # None, NEW error \in BOOLEAN,
         NEW q, q = Ended(l, error)
  PROVE  /\ q \in PageStates
         /\ q.name = page.name /\ q.ask = page.ask /\ q.answer = page.answer /\ ~q.loading
         /\ q.loads = [page.loads EXCEPT ![l] = None]
         /\ q.commands = page.commands /\ q.modal = page.modal
  BY PageTyped DEF Ended, PageStates, Slots

LEMMA ArrivesMakes ==
  ASSUME ConsoleInv, page # None, NEW l \in Slots, Arrives(l)
  PROVE  /\ Sound /\ table' = table
         /\ page'.name = page.name /\ page'.ask = page.ask
         /\ page'.commands = page.commands /\ page'.modal = page.modal
         /\ page.loads[l] # None /\ page.loads[l].rows # None
         /\ page'.loads = [page.loads EXCEPT ![l] = None]
         /\ page'.answer # None /\ page'.answer.ask = page.loads[l].ask
         /\ page'.answer.rows = page.loads[l].rows
<1>1. page \in PageStates /\ table' \in Tablefuls
  BY PageTyped DEF Arrives
<1> DEFINE answer == [ask |-> page.loads[l].ask, rows |-> page.loads[l].rows]
           error == page.error /\ This.drops # "loaded"
           ended == Ended(l, error)
<1>2. page.loads[l] \in Loads /\ page.loads[l].rows \in Tablefuls
  BY <1>1 DEF Arrives, PageStates, Slots, Loads
<1>3. answer \in Answers /\ answer.rows \in Tablefuls
  BY <1>2 DEF Loads, Answers
<1>4. page' = [ended EXCEPT !.answer = answer,
                 !.drafts = IF page.name = "settings" THEN answer.rows ELSE @]
  BY DEF Arrives
<1>5. error \in BOOLEAN
  OBVIOUS
<1> HIDE DEF error
<1>6. /\ ended \in PageStates
      /\ ended.name = page.name /\ ended.ask = page.ask /\ ~ended.loading
      /\ ended.commands = page.commands /\ ended.modal = page.modal
      /\ ended.loads = [page.loads EXCEPT ![l] = None]
  BY <1>5, EndedMakes DEF Arrives
<1>7. /\ answer # None /\ answer.ask = page.loads[l].ask
      /\ answer.rows = page.loads[l].rows
  <2>1. answer # None
    BY <1>3, NothingAssumption
  <2>2. QED
    BY <2>1
<1> HIDE DEF ended, answer
<1>8. page' \in PageStates
  BY <1>3, <1>4, <1>6 DEF PageStates
<1>9. InHand'
  BY <1>4, <1>6 DEF InHand, ConsoleInv, This, PageStates
<1>10. /\ page'.name = page.name /\ page'.ask = page.ask /\ page'.answer = answer
       /\ page'.commands = page.commands /\ page'.modal = page.modal
       /\ page'.loads = [page.loads EXCEPT ![l] = None]
  BY <1>4, <1>6 DEF PageStates
<1>11. QED
  BY <1>1, <1>7, <1>8, <1>9, <1>10 DEF Sound, Arrives

LEMMA LoadFailsMakes ==
  ASSUME ConsoleInv, page # None, NEW l \in Slots, LoadFails(l)
  PROVE  /\ Sound /\ table' = table
         /\ page'.name = page.name /\ page'.ask = page.ask /\ page'.modal = page.modal
         /\ page'.commands = page.commands /\ page'.loads = [page.loads EXCEPT ![l] = None]
<1>1. page \in PageStates /\ table' \in Tablefuls /\ table' = table
  BY PageTyped DEF LoadFails
<1> DEFINE ended == Ended(l, TRUE)
<1>2. page' = [ended EXCEPT !.answer = IF This.emptied THEN None ELSE @]
  BY DEF LoadFails
<1>3. /\ ended \in PageStates
      /\ ended.name = page.name /\ ended.ask = page.ask /\ ~ended.loading
      /\ ended.commands = page.commands /\ ended.modal = page.modal
      /\ ended.loads = [page.loads EXCEPT ![l] = None]
  BY EndedMakes DEF LoadFails
<1> HIDE DEF ended
<1>4. page' \in PageStates
  BY <1>2, <1>3 DEF PageStates
<1>5. InHand'
  BY <1>2, <1>3 DEF InHand, ConsoleInv, This, PageStates
<1>6. /\ page'.name = page.name /\ page'.ask = page.ask /\ page'.modal = page.modal
      /\ page'.commands = page.commands /\ page'.loads = [page.loads EXCEPT ![l] = None]
  BY <1>2, <1>3 DEF PageStates
<1>7. QED
  BY <1>1, <1>4, <1>5, <1>6 DEF Sound

LEMMA ReloadMakes ==
  ASSUME ConsoleInv, page # None, NEW p \in PageStates, p.loads = page.loads, FreeLoads # {},
         NEW ask \in Asks, NEW after \in SUBSET {"free", "tell"},
         NEW q, q = Load(p, Spare(FreeLoads), ask, after)
  PROVE  /\ q \in PageStates
         /\ q.name = p.name /\ q.ask = p.ask /\ q.answer = p.answer /\ q.loading
         /\ q.commands = p.commands /\ q.modal = p.modal
         /\ \E l \in Slots :
              /\ page.loads[l] = None /\ q.loads[l] # None
              /\ q.loads[l].ask = ask /\ q.loads[l].rows = None
              /\ \A k \in Slots \ {l} : q.loads[k] = page.loads[k]
<1> DEFINE l == Spare(FreeLoads)
           load == [ask |-> ask, rows |-> None, after |-> after]
<1>1. l \in FreeLoads
  BY SpareIn
<1>2. l \in Slots /\ page.loads[l] = None
  BY <1>1 DEF FreeLoads, Slots
<1> HIDE DEF l
<1>3. load # None
  <2>1. load \in Loads
    BY DEF Loads
  <2>2. QED
    BY <2>1, NothingAssumption
<1>4. /\ q \in PageStates
      /\ q.name = p.name /\ q.ask = p.ask /\ q.answer = p.answer /\ q.loading
      /\ q.commands = p.commands /\ q.modal = p.modal
      /\ q.loads = [p.loads EXCEPT ![l] = load]
  BY <1>2, LoadMakes DEF l
<1>5. p.loads \in [Slots -> Loads \cup {None}]
  BY DEF PageStates, Slots
<1>6. /\ q.loads[l] = load
      /\ \A k \in Slots \ {l} : q.loads[k] = page.loads[k]
  BY <1>2, <1>4, <1>5
<1>7. QED
  BY <1>2, <1>3, <1>4, <1>6

LEMMA TurnMakes ==
  ASSUME ConsoleInv, page # None, Turn
  PROVE  /\ page' \in PageStates
         /\ page'.name = page.name /\ page'.ask \in Turns /\ page'.answer = page.answer
         /\ page'.ask.number <= MaxAsk /\ Len(page'.ask.path) <= MaxAsk
         /\ page'.loading /\ page'.commands = page.commands /\ page'.modal = page.modal
         /\ \E l \in Slots :
              /\ page.loads[l] = None /\ page'.loads[l] # None
              /\ page'.loads[l].ask = page'.ask /\ page'.loads[l].rows = None
              /\ \A k \in Slots \ {l} : page'.loads[k] = page.loads[k]
<1>1. PICK ask \in Turns : /\ ask.number <= MaxAsk /\ Len(ask.path) <= MaxAsk
                          /\ page' = Loaded(ask)
  BY DEF Turn
<1>2. ask \in Asks
  BY <1>1, TurnsTyped
<1> DEFINE asking == [page EXCEPT !.ask = ask]
           next == Load(asking, Spare(FreeLoads), ask, {})
<1>3. /\ asking \in PageStates
      /\ asking.name = page.name /\ asking.ask = ask /\ asking.answer = page.answer
      /\ asking.loads = page.loads /\ asking.commands = page.commands /\ asking.modal = page.modal
  BY <1>2, PageTyped DEF PageStates
<1>4. page' = next
  BY <1>1 DEF Loaded
<1> HIDE DEF asking
<1>5. /\ next \in PageStates
      /\ next.name = page.name /\ next.ask = ask /\ next.answer = page.answer /\ next.loading
      /\ next.commands = page.commands /\ next.modal = page.modal
      /\ \E l \in Slots :
           /\ page.loads[l] = None /\ next.loads[l] # None
           /\ next.loads[l].ask = ask /\ next.loads[l].rows = None
           /\ \A k \in Slots \ {l} : next.loads[k] = page.loads[k]
  BY <1>2, <1>3, ReloadMakes DEF Turn
<1> HIDE DEF next
<1>6. QED
  BY <1>1, <1>4, <1>5

LEMMA TurnSound ==
  ASSUME ConsoleInv, page # None, Turn
  PROVE  Sound
<1>1. page'.ask.filter \in DOMAIN This.filters
  BY TurnMakes, TurnsTyped
<1>2. InHand'
  BY <1>1, TurnMakes DEF InHand, ConsoleInv, This
<1>3. QED
  BY <1>2, TurnMakes, PageTyped DEF Sound, Turn

(* A command on its way is one of those in hand if what it says of itself is so.      *)
LEMMA InHandAfterSend ==
  ASSUME ConsoleInv, page # None, page' \in PageStates, NEW from \in {"row", "modal"},
         NEW row \in Rows, NEW offer \in Offered,
         offer.op \in {"alert", "password"} => offer.to = None,
         NEW c \in Desks, page.commands[c] = None, page'.name = page.name,
         page'.ask = page.ask, page'.loading = page.loading, page'.loads = page.loads,
         page'.modal # None \/ (from = "row" /\ page'.modal = page.modal),
         page'.commands = [page.commands EXCEPT ![c] =
           [row |-> row, op |-> offer.op, to |-> offer.to, from |-> from, ask |-> page.ask, stage |-> "sent"]]
  PROVE  InHand'
<1> DEFINE sent ==
             [row |-> row, op |-> offer.op, to |-> offer.to, from |-> from, ask |-> page.ask, stage |-> "sent"]
<1>1. page.commands \in [Desks -> Commands \cup {None}]
  BY PageTyped DEF PageStates, Desks
<1>2. /\ page'.commands[c] = sent
      /\ \A d \in Desks \ {c} : page'.commands[d] = page.commands[d]
  BY <1>1
<1>3. /\ sent.from = from /\ sent.op = offer.op /\ sent.to = offer.to
  OBVIOUS
<1> HIDE DEF sent
<1>4. \A d \in Desks :
        /\ page'.commands[d] # None /\ page'.commands[d].from = "modal" => page'.modal # None
        /\ page'.commands[d] # None /\ page'.commands[d].op \in {"alert", "password"} =>
             page'.commands[d].to = None
  <2> TAKE d \in Desks
  <2>1. CASE d = c
    BY <1>2, <1>3, <2>1
  <2>2. CASE d # c
    BY <1>2, <2>2 DEF ConsoleInv, InHand
  <2>3. QED
    BY <2>1, <2>2
<1>5. QED
  BY <1>4, PageTyped DEF InHand, ConsoleInv, This

(* A command is pressed on a row, or a rule is added: only commands and the row that  *)
(* is busy are touched.                                                         *)
LEMMA PressMakes ==
  ASSUME ConsoleInv, page # None, NEW row \in Rows, Press(row) \/ AddRule(row)
  PROVE  /\ page' \in PageStates /\ table' = table
         /\ page'.name = page.name /\ page'.ask = page.ask /\ page'.answer = page.answer
         /\ page'.loading = page.loading /\ page'.loads = page.loads /\ page'.modal = page.modal
         /\ \E offer \in Offered, c \in Desks :
              /\ offer.op \notin {"alert", "password"} /\ page.commands[c] = None
              /\ page'.commands = [page.commands EXCEPT ![c] =
                   [row |-> row, op |-> offer.op, to |-> offer.to, from |-> "row",
                    ask |-> page.ask, stage |-> "sent"]]
<1>1. page \in PageStates /\ table' = table /\ FreeCommands # {}
  BY PageTyped DEF Press, AddRule
<1>2. PICK offer \in Offered :
        /\ offer.op \notin {"alert", "password"}
        /\ \E error \in BOOLEAN, busy \in Rows \cup {None} :
             page' = [Send(page, row, offer, "row") EXCEPT !.error = error, !.busy = busy]
  <2>1. CASE Press(row)
    <3>1. PICK offer \in Offers(row) :
            page' = [Send(page, row, offer, "row") EXCEPT
                       !.error = @ /\ ~This.told,
                       !.busy = IF page.name = "users" /\ offer.op = "remove" THEN row ELSE @]
      BY <2>1 DEF Press
    <3>2. offer \in Offered /\ offer.op \notin {"alert", "password"}
      BY <2>1, <3>1, OffersTyped DEF Press, Displayed
    <3> DEFINE sent == Send(page, row, offer, "row")
    <3>3. sent.error \in BOOLEAN /\ sent.busy \in Rows \cup {None}
      <4>1. sent \in PageStates
        BY <1>1, <3>2, SendMakes DEF Offered
      <4>2. QED
        BY <4>1 DEF PageStates
    <3>4. page' = [sent EXCEPT
                     !.error = sent.error /\ ~This.told,
                     !.busy = IF page.name = "users" /\ offer.op = "remove" THEN row ELSE sent.busy]
      BY <3>1
    <3>5. /\ (sent.error /\ ~This.told) \in BOOLEAN
          /\ (IF page.name = "users" /\ offer.op = "remove" THEN row ELSE sent.busy)
               \in Rows \cup {None}
      BY <3>3
    <3>6. QED
      BY <3>2, <3>4, <3>5
  <2>2. CASE AddRule(row)
    <3> DEFINE offer == Offer("create", "on")
               sent == Send(page, row, offer, "row")
    <3>1. offer \in Offered /\ offer.op \notin {"alert", "password"}
      BY Statuses DEF Offered, Offer, Ops
    <3>2. sent \in PageStates
      BY <1>1, <3>1, SendMakes DEF Offered
    <3>3. page' = sent
      BY <2>2 DEF AddRule
    <3> HIDE DEF sent
    <3>4. /\ sent.error \in BOOLEAN /\ sent.busy \in Rows \cup {None}
          /\ sent = [sent EXCEPT !.error = sent.error, !.busy = sent.busy]
      BY <3>2 DEF PageStates
    <3>5. QED
      BY <3>1, <3>3, <3>4 DEF sent
  <2>3. QED
    BY <2>1, <2>2
<1> DEFINE sent == Send(page, row, offer, "row")
<1>3. PICK c \in Desks :
        /\ page.commands[c] = None
        /\ sent = [page EXCEPT !.commands[c] =
             [row |-> row, op |-> offer.op, to |-> offer.to, from |-> "row", ask |-> page.ask, stage |-> "sent"]]
  BY <1>1, SendMakes DEF Offered
<1>4. /\ sent \in PageStates
      /\ sent.name = page.name /\ sent.ask = page.ask /\ sent.answer = page.answer
      /\ sent.loading = page.loading /\ sent.loads = page.loads /\ sent.modal = page.modal
  BY <1>1, SendMakes DEF Offered
<1>5. sent.commands = [page.commands EXCEPT ![c] =
        [row |-> row, op |-> offer.op, to |-> offer.to, from |-> "row", ask |-> page.ask, stage |-> "sent"]]
  BY <1>1, <1>3 DEF PageStates
<1> HIDE DEF sent
<1>6. /\ page' \in PageStates
      /\ page'.name = page.name /\ page'.ask = page.ask /\ page'.answer = page.answer
      /\ page'.loading = page.loading /\ page'.loads = page.loads /\ page'.modal = page.modal
      /\ page'.commands = sent.commands
  <2>1. PICK error \in BOOLEAN, busy \in Rows \cup {None} :
          page' = [sent EXCEPT !.error = error, !.busy = busy]
    BY <1>2 DEF sent
  <2>2. QED
    BY <1>4, <2>1 DEF PageStates
<1>7. offer \in Offered /\ offer.op \notin {"alert", "password"} /\ page.commands[c] = None
  BY <1>2, <1>3
<1>8. QED
  BY <1>1, <1>5, <1>6, <1>7

LEMMA PressSound ==
  ASSUME ConsoleInv, page # None, NEW row \in Rows, Press(row) \/ AddRule(row)
  PROVE  Sound
<1>1. PICK offer \in Offered, c \in Desks :
        /\ offer.op \notin {"alert", "password"} /\ page.commands[c] = None
        /\ page'.commands = [page.commands EXCEPT ![c] =
             [row |-> row, op |-> offer.op, to |-> offer.to, from |-> "row", ask |-> page.ask, stage |-> "sent"]]
  BY PressMakes
<1>2. /\ page' \in PageStates /\ page'.name = page.name /\ page'.ask = page.ask
      /\ page'.loading = page.loading /\ page'.loads = page.loads /\ page'.modal = page.modal
      /\ table' = table
  BY PressMakes
<1>3. InHand'
  BY <1>1, <1>2, InHandAfterSend
<1>4. QED
  BY <1>2, <1>3, PageTyped DEF Sound

LEMMA SubmitMakes ==
  ASSUME ConsoleInv, page # None, SubmitModal
  PROVE  /\ page' \in PageStates /\ table' = table
         /\ page'.name = page.name /\ page'.ask = page.ask /\ page'.answer = page.answer
         /\ page'.loading = page.loading /\ page'.loads = page.loads /\ page'.modal # None
         /\ \E offer \in Offered, c \in Desks, row \in Rows :
              /\ offer.op \in {"alert", "password"} => offer.to = None
              /\ page.commands[c] = None
              /\ page'.commands = [page.commands EXCEPT ![c] =
                   [row |-> row, op |-> offer.op, to |-> offer.to, from |-> "modal",
                    ask |-> page.ask, stage |-> "sent"]]
<1> DEFINE row == page.modal.row
<1>1. PICK offer \in ModalOffers :
        page' = [Send(page, row, offer, "modal") EXCEPT !.modal.saving = TRUE, !.modal.error = FALSE]
  BY DEF SubmitModal
<1>2. offer \in Offered /\ (offer.op \in {"alert", "password"} => offer.to = None)
  BY ModalOffersTyped
<1>3. page \in PageStates /\ page.modal \in Modals /\ row \in Rows /\ FreeCommands # {}
  BY PageTyped DEF SubmitModal, PageStates, Modals
<1> HIDE DEF row
<1> DEFINE sent == Send(page, row, offer, "modal")
<1>4. PICK c \in Desks :
        /\ page.commands[c] = None
        /\ sent = [page EXCEPT !.commands[c] =
             [row |-> row, op |-> offer.op, to |-> offer.to, from |-> "modal", ask |-> page.ask, stage |-> "sent"]]
  BY <1>2, <1>3, SendMakes DEF Offered
<1>5. /\ sent \in PageStates
      /\ sent.name = page.name /\ sent.ask = page.ask /\ sent.answer = page.answer
      /\ sent.loading = page.loading /\ sent.loads = page.loads /\ sent.modal = page.modal
  BY <1>2, <1>3, SendMakes DEF Offered
<1>6. sent.commands = [page.commands EXCEPT ![c] =
        [row |-> row, op |-> offer.op, to |-> offer.to, from |-> "modal", ask |-> page.ask, stage |-> "sent"]]
  BY <1>3, <1>4 DEF PageStates
<1> HIDE DEF sent
<1> DEFINE modal == [page.modal EXCEPT !.saving = TRUE, !.error = FALSE]
<1>7. modal \in Modals
  BY <1>3 DEF Modals
<1>8. page' = [sent EXCEPT !.modal = modal]
  BY <1>1, <1>3, <1>5 DEF sent, PageStates
<1> HIDE DEF modal
<1>9. /\ page' \in PageStates
      /\ page'.name = page.name /\ page'.ask = page.ask /\ page'.answer = page.answer
      /\ page'.loading = page.loading /\ page'.loads = page.loads /\ page'.modal = modal
      /\ page'.commands = sent.commands
  BY <1>5, <1>7, <1>8 DEF PageStates
<1>10. modal # None
  BY <1>7, NothingAssumption
<1>11. table' = table
  BY DEF SubmitModal
<1>12. QED
  BY <1>2, <1>3, <1>4, <1>6, <1>9, <1>10, <1>11

LEMMA SubmitSound ==
  ASSUME ConsoleInv, page # None, SubmitModal
  PROVE  Sound
<1>1. PICK offer \in Offered, c \in Desks, row \in Rows :
        /\ offer.op \in {"alert", "password"} => offer.to = None
        /\ page.commands[c] = None
        /\ page'.commands = [page.commands EXCEPT ![c] =
             [row |-> row, op |-> offer.op, to |-> offer.to, from |-> "modal", ask |-> page.ask, stage |-> "sent"]]
  BY SubmitMakes
<1>2. /\ page' \in PageStates /\ page'.name = page.name /\ page'.ask = page.ask
      /\ page'.loading = page.loading /\ page'.loads = page.loads /\ page'.modal # None
      /\ table' = table
  BY SubmitMakes
<1>3. InHand'
  BY <1>1, <1>2, InHandAfterSend
<1>4. QED
  BY <1>2, <1>3, PageTyped DEF Sound

LEMMA TypeDraftSound ==
  ASSUME ConsoleInv, page # None, NEW row \in Rows, NEW value \in Values, TypeDraft(row, value)
  PROVE  Sound
<1>1. page \in PageStates /\ table' \in Tablefuls /\ value \in AllStatuses
  BY PageTyped, Statuses DEF TypeDraft
<1>2. page' = [page EXCEPT !.drafts = [page.drafts EXCEPT ![row] = value]]
  BY <1>1 DEF TypeDraft, PageStates
<1>3. page' \in PageStates
  BY <1>1, <1>2 DEF PageStates, Tablefuls
<1>4. InHand'
  BY <1>1, <1>2 DEF InHand, ConsoleInv, This, PageStates
<1>5. QED
  BY <1>1, <1>3, <1>4 DEF Sound

LEMMA OpenModalSound ==
  ASSUME ConsoleInv, page # None, NEW row \in Rows, NEW kind \in {"create", "edit", "password"},
         OpenModal(kind, row)
  PROVE  Sound
<1> DEFINE modal == [kind |-> kind, row |-> row, saving |-> FALSE, error |-> FALSE]
<1>1. page \in PageStates /\ table' \in Tablefuls
  BY PageTyped DEF OpenModal
<1>2. modal \in Modals /\ modal # None
  <2>1. modal \in Modals
    BY DEF Modals
  <2>2. QED
    BY <2>1, NothingAssumption
<1>3. page' = [page EXCEPT !.modal = modal]
  BY DEF OpenModal
<1> HIDE DEF modal
<1>4. page' \in PageStates
  BY <1>1, <1>2, <1>3 DEF PageStates
<1>5. InHand'
  BY <1>1, <1>2, <1>3 DEF InHand, ConsoleInv, This, PageStates
<1>6. QED
  BY <1>1, <1>4, <1>5 DEF Sound

LEMMA RefuseInputSound ==
  ASSUME ConsoleInv, page # None, RefuseInput
  PROVE  Sound
<1> DEFINE modal == [page.modal EXCEPT !.error = TRUE]
<1>1. page \in PageStates /\ table' \in Tablefuls /\ page.modal \in Modals
  BY PageTyped DEF RefuseInput, PageStates
<1>2. modal \in Modals /\ modal # None
  BY <1>1, NothingAssumption DEF Modals
<1>3. page' = [page EXCEPT !.modal = modal]
  BY DEF RefuseInput
<1> HIDE DEF modal
<1>4. page' \in PageStates
  BY <1>1, <1>2, <1>3 DEF PageStates
<1>5. InHand'
  BY <1>1, <1>2, <1>3 DEF InHand, ConsoleInv, This, PageStates
<1>6. QED
  BY <1>1, <1>4, <1>5 DEF Sound

LEMMA OthersWriteSound ==
  ASSUME ConsoleInv, page # None, OthersWrite
  PROVE  Sound
<1>1. page \in PageStates /\ table \in Tablefuls /\ page.name \in Names
  BY PageTyped
<1>2. PICK row \in Rows, status \in This.statuses \cup {Gone} :
        table' = [table EXCEPT ![row] = status]
  BY DEF OthersWrite
<1>3. status \in AllStatuses
  BY <1>1, <1>2, Statuses DEF This
<1>4. table' \in Tablefuls
  BY <1>1, <1>2, <1>3 DEF Tablefuls
<1>5. page' = page
  BY DEF OthersWrite
<1>6. InHand'
  BY <1>5 DEF InHand, ConsoleInv, This
<1>7. QED
  BY <1>1, <1>4, <1>5, <1>6 DEF Sound

(* A modal that is gone leaves no call that says it is there.                       *)
LEMMA CloseModalSound ==
  ASSUME ConsoleInv, page # None, CloseModal
  PROVE  Sound
<1>1. page \in PageStates /\ table' \in Tablefuls /\ page.ask.filter \in DOMAIN This.filters
  BY PageTyped DEF CloseModal
<1> DEFINE next == Closed(page)
<1>2. /\ next \in PageStates
      /\ next.name = page.name /\ next.ask = page.ask /\ next.loading = page.loading
      /\ next.loads = page.loads
      /\ next.commands = [c \in Desks |-> Leave(page.commands[c])]
  BY <1>1, ClosedMakes
<1>3. page' = next
  BY DEF CloseModal
<1> HIDE DEF next
<1>4. \A c \in Desks : page'.commands[c] = Leave(page.commands[c])
  BY <1>2, <1>3
<1>5. page.commands \in [Desks -> Commands \cup {None}]
  BY <1>1 DEF PageStates, Desks
<1>6. \A c \in Desks : page'.commands[c] # None =>
        /\ page.commands[c] # None /\ page'.commands[c].from # "modal"
        /\ page'.commands[c].op = page.commands[c].op /\ page'.commands[c].to = page.commands[c].to
  BY <1>4, <1>5 DEF Leave, Commands
<1>7. InHand'
  BY <1>1, <1>2, <1>3, <1>6 DEF InHand, ConsoleInv, This
<1>8. QED
  BY <1>1, <1>2, <1>3, <1>7 DEF Sound

(* What the server writes for a command is where the command says.                  *)
LEMMA CarryMakes ==
  ASSUME ConsoleInv, page # None, NEW c \in Desks, Carry(c)
  PROVE  /\ page' \in PageStates /\ table' \in Tablefuls /\ page.commands[c] # None
         /\ page'.name = page.name /\ page'.ask = page.ask /\ page'.answer = page.answer
         /\ page'.loading = page.loading /\ page'.loads = page.loads /\ page'.modal = page.modal
         /\ \E stage \in {"done", "refused"} :
              page'.commands = [page.commands EXCEPT ![c] = [page.commands[c] EXCEPT !.stage = stage]]
         /\ page'.commands[c].stage = "done" \/ table' = table
         /\ page.commands[c].to = None => table' = table
<1>1. page \in PageStates /\ table \in Tablefuls
  BY PageTyped
<1>2. page.commands[c] \in Commands /\ page.commands \in [Desks -> Commands \cup {None}]
  BY <1>1 DEF Carry, PageStates, Desks
<1>3. PICK stage \in {"done", "refused"} :
        /\ page' = [page EXCEPT !.commands[c].stage = stage]
        /\ stage = "done" \/ table' = table
  BY DEF Carry
<1>4. [page.commands[c] EXCEPT !.stage = stage] \in Commands
  BY <1>2 DEF Commands
<1>5. page' = [page EXCEPT !.commands =
                 [page.commands EXCEPT ![c] = [page.commands[c] EXCEPT !.stage = stage]]]
  BY <1>1, <1>2, <1>3 DEF PageStates
<1>6. page'.commands = [page.commands EXCEPT ![c] = [page.commands[c] EXCEPT !.stage = stage]]
  BY <1>1, <1>5 DEF PageStates
<1>7. [page.commands EXCEPT ![c] = [page.commands[c] EXCEPT !.stage = stage]]
        \in [Desks -> Commands \cup {None}]
  BY <1>2, <1>4
<1>8. /\ page' \in PageStates
      /\ page'.name = page.name /\ page'.ask = page.ask /\ page'.answer = page.answer
      /\ page'.loading = page.loading /\ page'.loads = page.loads /\ page'.modal = page.modal
  BY <1>1, <1>5, <1>7 DEF PageStates, Desks
<1>9. table' \in Tablefuls /\ (page.commands[c].to = None => table' = table)
  <2>1. CASE table' = table
    BY <1>1, <2>1
  <2>2. CASE table' # table
    <3>1. /\ page.commands[c].to # None
          /\ table' = [table EXCEPT ![page.commands[c].row] = page.commands[c].to]
      BY <2>2 DEF Carry
    <3>2. page.commands[c].to \in AllStatuses /\ page.commands[c].row \in Rows
      BY <1>2, <3>1 DEF Commands
    <3>3. QED
      BY <1>1, <3>1, <3>2 DEF Tablefuls
  <2>3. QED
    BY <2>1, <2>2
<1>10. page'.commands[c].stage = "done" \/ table' = table
  BY <1>2, <1>3, <1>6 DEF Commands
<1>11. QED
  BY <1>2, <1>6, <1>8, <1>9, <1>10, NothingAssumption

LEMMA CarrySound ==
  ASSUME ConsoleInv, page # None, NEW c \in Desks, Carry(c)
  PROVE  Sound
<1>1. page.commands[c] \in Commands /\ page.commands \in [Desks -> Commands \cup {None}]
  BY PageTyped DEF Carry, PageStates, Desks
<1>2. PICK stage \in {"done", "refused"} :
        page'.commands = [page.commands EXCEPT ![c] = [page.commands[c] EXCEPT !.stage = stage]]
  BY CarryMakes
<1>3. page.commands[c] # None
  BY CarryMakes
<1>4. \A d \in Desks : page'.commands[d] # None =>
        /\ page.commands[d] # None /\ page'.commands[d].from = page.commands[d].from
        /\ page'.commands[d].op = page.commands[d].op /\ page'.commands[d].to = page.commands[d].to
  BY <1>1, <1>2, <1>3 DEF Commands
<1>5. /\ page' \in PageStates /\ table' \in Tablefuls
      /\ page'.name = page.name /\ page'.ask = page.ask
      /\ page'.loading = page.loading /\ page'.loads = page.loads /\ page'.modal = page.modal
  BY CarryMakes
<1>6. InHand'
  BY <1>4, <1>5, PageTyped DEF InHand, ConsoleInv, This
<1>7. QED
  BY <1>5, <1>6 DEF Sound

-----------------------------------------------------------------------------
(* How commands end: what is left of the page before it is loaded again, if it is.   *)

(* p is the page once the command c has ended: at most its modal is closed, with the *)
(* calls that the modal had under way, and a row has left the list.              *)
Ending(p, c) ==
  /\ p \in PageStates
  /\ p.name = page.name /\ p.ask = page.ask /\ p.loading = page.loading /\ p.loads = page.loads
  /\ p.commands[c] = None
  /\ \A d \in Desks : p.commands[d] # None =>
       /\ d # c /\ page.commands[d] # None
       /\ p.commands[d].op = page.commands[d].op /\ p.commands[d].to = page.commands[d].to
       /\ p.commands[d].from = "modal" => page.commands[d].from = "modal" /\ p.modal # None
  /\ \A d \in Desks \ {c} : page.commands[d] # None =>
       /\ p.commands[d] # None
       /\ p.commands[d].op = page.commands[d].op /\ p.commands[d].stage = page.commands[d].stage

LEMMA WithoutEnding ==
  ASSUME ConsoleInv, page # None, NEW c \in Desks, NEW p, p = Without(page, c)
  PROVE  /\ Ending(p, c)
         /\ p.answer = page.answer /\ p.modal = page.modal
         /\ p.commands = [page.commands EXCEPT ![c] = None]
<1>1. page \in PageStates /\ page.commands \in [Desks -> Commands \cup {None}]
  BY PageTyped DEF PageStates, Desks
<1>2. /\ p \in PageStates
      /\ p.name = page.name /\ p.ask = page.ask /\ p.answer = page.answer
      /\ p.loading = page.loading /\ p.loads = page.loads /\ p.modal = page.modal
      /\ p.commands = [page.commands EXCEPT ![c] = None]
  BY <1>1 DEF Without, PageStates, Desks
<1>3. p.commands[c] = None /\ \A d \in Desks \ {c} : p.commands[d] = page.commands[d]
  BY <1>1, <1>2
<1>4. QED
  BY <1>2, <1>3 DEF Ending, ConsoleInv, InHand

LEMMA ClosedEnding ==
  ASSUME NEW c \in Desks, NEW p, Ending(p, c), NEW q, q = Closed(p)
  PROVE  /\ Ending(q, c)
         /\ q.answer = p.answer
<1>1. p \in PageStates /\ p.commands \in [Desks -> Commands \cup {None}]
  BY DEF Ending, PageStates, Desks
<1>2. /\ q \in PageStates
      /\ q.name = p.name /\ q.ask = p.ask /\ q.answer = p.answer /\ q.loading = p.loading
      /\ q.loads = p.loads
      /\ q.commands = [d \in Desks |-> Leave(p.commands[d])]
  BY <1>1, ClosedMakes
<1>3. \A d \in Desks : q.commands[d] = Leave(p.commands[d])
  BY <1>2
<1>4. \A d \in Desks : q.commands[d] # None =>
        /\ p.commands[d] # None /\ q.commands[d].from # "modal"
        /\ q.commands[d].op = p.commands[d].op /\ q.commands[d].to = p.commands[d].to
  BY <1>1, <1>3 DEF Leave, Commands
<1>5. \A d \in Desks : p.commands[d] # None =>
        /\ q.commands[d] # None
        /\ q.commands[d].op = p.commands[d].op /\ q.commands[d].stage = p.commands[d].stage
  <2>1. \A d \in Desks : p.commands[d] # None =>
          /\ Leave(p.commands[d]) \in Commands
          /\ Leave(p.commands[d]).op = p.commands[d].op
          /\ Leave(p.commands[d]).stage = p.commands[d].stage
    BY <1>1 DEF Leave, Commands
  <2>2. QED
    BY <1>3, <2>1, NothingAssumption
<1>6. q.commands[c] = None
  BY <1>3 DEF Ending, Leave
<1>7. QED
  BY <1>2, <1>4, <1>5, <1>6 DEF Ending

LEMMA ClosedByEnding ==
  ASSUME NEW c \in Desks, NEW p, Ending(p, c), NEW call, NEW q, q = ClosedBy(p, call)
  PROVE  /\ Ending(q, c) /\ q.answer = p.answer
         /\ call.from = "row" => q.modal = p.modal
  BY ClosedEnding DEF ClosedBy

(* The page that a modal's error or answer is written into.                          *)
LEMMA ModalEnding ==
  ASSUME NEW c \in Desks, NEW p, Ending(p, c), NEW modal \in Modals, NEW q,
         q = [p EXCEPT !.modal = modal]
  PROVE  Ending(q, c) /\ q.answer = p.answer /\ q.modal = modal /\ q.commands = p.commands
  BY NothingAssumption DEF Ending, PageStates

LEMMA CommandAsks ==
  ASSUME ConsoleInv, page # None, NEW c \in Desks, page.commands[c] # None
  PROVE  page.commands[c] \in Commands /\ page.commands[c].ask \in Asks
<1>1. page.commands[c] \in Commands
  BY PageTyped DEF PageStates, Desks
<1>2. QED
  BY <1>1 DEF Commands

(* A page that a command has left is one that holds together, loaded again or not.  *)
LEMMA EndingHolds ==
  ASSUME ConsoleInv, page # None, NEW c \in Desks, Ending(page', c)
  PROVE  page' \in PageStates /\ InHand'
  BY PageTyped DEF Ending, InHand, ConsoleInv, This

LEMMA ReloadHolds ==
  ASSUME ConsoleInv, page # None, FreeLoads # {}, NEW c \in Desks, page.commands[c] # None,
         NEW p, Ending(p, c), NEW after \in SUBSET {"free", "tell"},
         page' = Reload(p, page.commands[c], after)
  PROVE  page' \in PageStates /\ InHand'
<1>1. p \in PageStates /\ p.loads = page.loads /\ p.ask = page.ask /\ p.name = page.name
      /\ page.commands[c].ask \in Asks
  BY CommandAsks DEF Ending
<1> DEFINE next == Reload(p, page.commands[c], after)
<1>2. /\ next \in PageStates
      /\ next.name = page.name /\ next.ask = page.ask /\ next.loading
      /\ next.commands = p.commands /\ next.modal = p.modal
      /\ \E l \in Slots : next.loads[l] # None
  BY <1>1, ReloadMakes DEF Reload
<1> HIDE DEF next
<1>3. page' = next
  BY DEF next
<1>4. QED
  BY <1>2, <1>3, PageTyped DEF Ending, InHand, ConsoleInv, This

LEMMA ShorterEnding ==
  ASSUME NEW c \in Desks, NEW p, Ending(p, c), p.answer # None, NEW row \in Rows,
         NEW q, q = [p EXCEPT !.answer.rows[row] = Gone]
  PROVE  Ending(q, c) /\ q.modal = p.modal
<1>1. p \in PageStates /\ p.answer \in Answers
  BY DEF Ending, PageStates
<1> DEFINE answer == [p.answer EXCEPT !.rows = [p.answer.rows EXCEPT ![row] = Gone]]
<1>2. answer \in Answers
  BY <1>1, Statuses DEF Answers, Tablefuls
<1>3. q = [p EXCEPT !.answer = answer]
  BY <1>1 DEF PageStates, Answers
<1> HIDE DEF answer
<1>4. q \in PageStates
  BY <1>1, <1>2, <1>3 DEF PageStates
<1>5. /\ q.name = p.name /\ q.ask = p.ask /\ q.loading = p.loading /\ q.loads = p.loads
      /\ q.commands = p.commands /\ q.modal = p.modal
  BY <1>1, <1>3 DEF PageStates
<1>6. QED
  BY <1>4, <1>5 DEF Ending

(* A page that is loaded again keeps its commands and its modal.                     *)
LEMMA ReloadKeeps ==
  ASSUME ConsoleInv, page # None, FreeLoads # {}, NEW c \in Desks, page.commands[c] # None,
         NEW p, Ending(p, c), NEW after \in SUBSET {"free", "tell"},
         page' = Reload(p, page.commands[c], after)
  PROVE  page'.commands[c] = None /\ page'.modal = p.modal
<1> DEFINE next == Reload(p, page.commands[c], after)
<1>1. next.commands = p.commands /\ next.modal = p.modal
  BY ReloadMakes, CommandAsks DEF Ending, Reload
<1> HIDE DEF next
<1>2. page' = next
  BY DEF next
<1>3. QED
  BY <1>1, <1>2 DEF Ending

LEMMA SucceedsMakes ==
  ASSUME ConsoleInv, page # None, NEW c \in Desks, Succeeds(c)
  PROVE  /\ page.commands[c] # None /\ page.commands[c].stage = "done" /\ table' = table
         /\ \/ /\ page.commands[c].op \in {"alert", "password"}
               /\ Ending(page', c) /\ page'.answer = page.answer
            \/ \E p \in PageStates, after \in SUBSET {"free", "tell"} :
                 Ending(p, c) /\ page' = Reload(p, page.commands[c], after)
         /\ page'.commands[c] = None
         /\ page.modal # None /\ page'.modal = None => page.commands[c].from # "row"
<1> DEFINE q == page.commands[c]
           ended == Without(page, c)
           removal == page.name = "users" /\ q.op = "remove"
           shorter == IF removal /\ ended.answer # None
                        THEN [ended EXCEPT !.answer.rows[q.row] = Gone] ELSE ended
<1>1. q # None /\ q.stage = "done" /\ FreeLoads # {} /\ table' = table
  BY DEF Succeeds
<1>2. q \in Commands
  BY <1>1, PageTyped DEF PageStates, Desks
<1>3. Ending(ended, c) /\ ended.answer = page.answer /\ ended.modal = page.modal
  BY WithoutEnding
<1>4. page' = CASE q.op = "alert" -> IF q.from = "modal" THEN [ended EXCEPT !.modal.saving = FALSE]
                                                        ELSE ended
                [] q.op = "password" -> ClosedBy(ended, q)
                [] OTHER -> Reload(ClosedBy(shorter, q), q, IF removal THEN {"free"} ELSE {})
  BY DEF Succeeds
<1> HIDE DEF ended
<1>5. CASE q.op = "alert" /\ q.from = "modal"
  <2> DEFINE modal == [page.modal EXCEPT !.saving = FALSE]
  <2>1. page.modal \in Modals
    BY <1>1, <1>5, PageTyped DEF ConsoleInv, InHand, PageStates
  <2>2. modal \in Modals
    BY <2>1 DEF Modals
  <2>3. page' = [ended EXCEPT !.modal = modal]
    BY <1>3, <1>4, <1>5 DEF Ending, PageStates
  <2> HIDE DEF modal
  <2> DEFINE next == [ended EXCEPT !.modal = modal]
  <2>4. Ending(next, c) /\ next.answer = ended.answer
    BY <1>3, <2>2, ModalEnding
  <2> HIDE DEF next
  <2>5. page' = next
    BY <2>3 DEF next
  <2>6. QED
    BY <1>1, <1>3, <1>5, <2>4, <2>5 DEF Ending
<1>6. CASE q.op = "alert" /\ q.from # "modal"
  <2>1. page' = ended
    BY <1>4, <1>6
  <2>2. QED
    BY <1>1, <1>3, <1>6, <2>1 DEF Ending
<1>7. CASE q.op = "password"
  <2> DEFINE next == ClosedBy(ended, q)
  <2>1. page' = next
    BY <1>4, <1>7
  <2>2. /\ Ending(next, c) /\ next.answer = ended.answer
        /\ q.from = "row" => next.modal = page.modal
    <3> HIDE DEF q, next
    <3>1. next = ClosedBy(ended, q)
      BY DEF next
    <3>2. Ending(next, c) /\ next.answer = ended.answer
      BY <1>3, <3>1, ClosedByEnding
    <3>3. q.from = "row" => next = ended
      BY <3>1 DEF ClosedBy
    <3>4. QED
      BY <1>3, <3>2, <3>3
  <2> HIDE DEF next
  <2>3. QED
    BY <1>1, <1>3, <1>7, <2>1, <2>2 DEF Ending
<1>8. CASE q.op \notin {"alert", "password"}
  <2> DEFINE p == ClosedBy(shorter, q)
             after == IF removal THEN {"free"} ELSE {}
  <2>1. page' = Reload(p, q, after)
    BY <1>4, <1>8
  <2>2. Ending(shorter, c) /\ shorter.modal = page.modal
    BY <1>2, <1>3, ShorterEnding DEF Commands
  <2> HIDE DEF shorter
  <2>3. Ending(p, c) /\ p \in PageStates /\ (q.from = "row" => p.modal = page.modal)
    BY <2>2, ClosedByEnding DEF Ending
  <2>4. after \in SUBSET {"free", "tell"}
    OBVIOUS
  <2> HIDE DEF p, after
  <2>5. page'.commands[c] = None /\ page'.modal = p.modal
    BY <1>1, <2>1, <2>3, <2>4, ReloadKeeps
  <2>6. QED
    BY <1>1, <2>1, <2>3, <2>4, <2>5
<1>9. QED
  BY <1>5, <1>6, <1>7, <1>8

LEMMA FailsMakes ==
  ASSUME ConsoleInv, page # None, NEW c \in Desks, CommandFails(c)
  PROVE  /\ page.commands[c] # None /\ table' = table
         /\ \/ Ending(page', c) /\ page'.answer = page.answer
            \/ \E p \in PageStates, after \in SUBSET {"free", "tell"} :
                 Ending(p, c) /\ page' = Reload(p, page.commands[c], after)
         /\ page.modal # None => page'.modal # None
<1> DEFINE q == page.commands[c]
           first == Without(page, c)
           ended == FailedIn(first, q)
           error == ended.error \/ (q.from = "row" /\ This.told)
<1>1. q # None /\ FreeLoads # {} /\ table' = table
  BY DEF CommandFails
<1>2. page' = IF page.name = "users" /\ q.op = "remove" THEN Reload(ended, q, {"free", "tell"})
              ELSE [ended EXCEPT !.error = error]
  BY DEF CommandFails
<1>3. Ending(first, c) /\ first.answer = page.answer /\ first.modal = page.modal
  BY WithoutEnding
<1> HIDE DEF first
<1>4. /\ Ending(ended, c) /\ ended.answer = page.answer
      /\ page.modal # None => ended.modal # None
  <2>1. CASE q.from = "modal"
    <3> DEFINE modal == [page.modal EXCEPT !.saving = FALSE, !.error = TRUE]
    <3>1. page.modal \in Modals
      BY <1>1, <2>1, PageTyped DEF ConsoleInv, InHand, PageStates
    <3>2. modal \in Modals
      BY <3>1 DEF Modals
    <3>3. ended = [first EXCEPT !.modal = modal]
      BY <1>3, <2>1 DEF FailedIn, Ending, PageStates
    <3> HIDE DEF modal
    <3>4. Ending(ended, c) /\ ended.answer = page.answer /\ ended.modal = modal
      BY <1>3, <3>2, <3>3, ModalEnding
    <3>5. QED
      BY <3>2, <3>4, NothingAssumption
  <2>2. CASE q.from # "modal"
    BY <1>3, <2>2 DEF FailedIn
  <2>3. QED
    BY <2>1, <2>2
<1> HIDE DEF ended
<1>5. CASE page.name = "users" /\ q.op = "remove"
  <2>1. page' = Reload(ended, q, {"free", "tell"})
    BY <1>2, <1>5
  <2>2. {"free", "tell"} \in SUBSET {"free", "tell"} /\ ended \in PageStates
    BY <1>4 DEF Ending
  <2>3. page'.modal = ended.modal
    BY <1>1, <1>4, <2>1, <2>2, ReloadKeeps
  <2>4. QED
    BY <1>1, <1>4, <2>1, <2>2, <2>3
<1>6. CASE ~(page.name = "users" /\ q.op = "remove")
  <2>1. page' = [ended EXCEPT !.error = error]
    BY <1>2, <1>6
  <2>2. error \in BOOLEAN
    BY <1>4 DEF Ending, PageStates
  <2> HIDE DEF error
  <2>3. Ending(page', c) /\ page'.answer = page.answer /\ page'.modal = ended.modal
    BY <1>4, <2>1, <2>2 DEF Ending, PageStates
  <2>4. QED
    BY <1>1, <1>4, <2>3
<1>7. QED
  BY <1>5, <1>6

LEMMA SucceedsSound ==
  ASSUME ConsoleInv, page # None, NEW c \in Desks, Succeeds(c)
  PROVE  Sound
<1>1. page' \in PageStates /\ InHand'
  BY SucceedsMakes, EndingHolds, ReloadHolds DEF Succeeds
<1>2. QED
  BY <1>1, PageTyped DEF Sound, Succeeds

LEMMA FailsSound ==
  ASSUME ConsoleInv, page # None, NEW c \in Desks, CommandFails(c)
  PROVE  Sound
<1>1. page' \in PageStates /\ InHand'
  BY FailsMakes, EndingHolds, ReloadHolds DEF CommandFails
<1>2. QED
  BY <1>1, PageTyped DEF Sound, CommandFails

-----------------------------------------------------------------------------
(* The types, and that a modal is kept.                                          *)

LEMMA AnsweredWho ==
  ASSUME SessionTypeOK, NEW c \in Callers, asks[c].answer = "me"
  PROVE  asks[c].who \in Users \cup {None}
  BY DEF SessionTypeOK

LEMMA SessionTyped ==
  ASSUME SessionTypeOK, Browse \/ Proceed
  PROVE  SessionTypeOK'
<1> USE DEF SessionTypeOK, NotAsked, Sent, Asked, Callers, Places
<1>1. ASSUME NEW place \in Places, LoadAt(place), cookie' \in Users \cup {None}
      PROVE  SessionTypeOK'
  BY <1>1 DEF LoadAt
<1>2. CASE Browse
  <2>1. ASSUME NEW place \in Places, Visit(place) PROVE SessionTypeOK'
    BY <1>1, <2>1 DEF Visit
  <2>2. CASE SignInWithGoogle
    BY <1>1, <2>2 DEF SignInWithGoogle
  <2>3. CASE PressSignIn \/ Expire
    BY <2>3 DEF PressSignIn, Expire
  <2>4. ASSUME NEW ended \in BOOLEAN, SignOut(ended) PROVE SessionTypeOK'
    BY <2>4 DEF SignOut
  <2>5. QED
    BY <1>2, <2>1, <2>2, <2>3, <2>4 DEF Browse
<1>3. ASSUME NEW c \in Callers, NEW who \in Users \cup {None}, Show(c, who) PROVE SessionTypeOK'
  BY <1>3 DEF Show
<1>4. ASSUME NEW c \in Callers, AnswerMe(c) PROVE SessionTypeOK'
  BY <1>4 DEF AnswerMe
<1>5. CASE EndSignIn
  BY <1>5 DEF EndSignIn, SignedIn, SignInFails, Refresh
<1>6. CASE Redirect
  BY <1>6 DEF Redirect, RedirectIfAuthenticated, LeaveApp, LeaveHome
<1>7. QED
  BY <1>2, <1>3, <1>4, <1>5, <1>6, AnsweredWho DEF Proceed, MeArrives, MeFails

LEMMA UseSound ==
  ASSUME ConsoleInv, Use
  PROVE  Sound /\ UNCHANGED sessionVars
  BY OpenPageSound, TurnSound, CloseModalSound, SubmitSound, RefuseInputSound, OthersWriteSound,
     PressSound, OpenModalSound, TypeDraftSound DEF Use

LEMMA ServeSound ==
  ASSUME ConsoleInv, Serve
  PROVE  Sound /\ UNCHANGED sessionVars
  BY ReadRowsMakes, ArrivesMakes, LoadFailsMakes, CarrySound, SucceedsSound, FailsSound
  DEF Serve, Slots, Desks

LEMMA ConsoleInit == Init => ConsoleInv
  BY Statuses
  DEF Init, ConsoleInv, TypeOK, InHand, SessionInit, SessionTypeOK, Asked, Sent, NotAsked, Callers,
      Tablefuls

LEMMA ConsoleStep == ConsoleInv /\ [Next]_vars => ConsoleInv'
<1> SUFFICES ASSUME ConsoleInv, [Next]_vars PROVE ConsoleInv'
  OBVIOUS
<1>1. ASSUME Sound, UNCHANGED sessionVars PROVE ConsoleInv'
  BY <1>1 DEF ConsoleInv, Sound, TypeOK, sessionVars, SessionTypeOK
<1>2. ASSUME Browse \/ Proceed, StaysInside PROVE ConsoleInv'
  <2>1. SessionTypeOK'
    BY <1>2, SessionTyped DEF ConsoleInv, TypeOK
  <2>2. table' = table /\ page' \in {page, None}
    BY <1>2 DEF StaysInside
  <2>3. QED
    BY <2>1, <2>2 DEF ConsoleInv, TypeOK, InHand, This
<1>3. CASE UNCHANGED vars
  BY <1>3 DEF vars, sessionVars, ConsoleInv, TypeOK, SessionTypeOK, InHand, This
<1>4. QED
  BY <1>1, <1>2, <1>3, UseSound, ServeSound DEF Next, Act

(* Whatever is pressed, typed and answered in whatever order, the pages find their calls *)
(* and their modal as they left them: a late answer writes into nothing that is    *)
(* gone (links/page.tsx:194-243, users/page.tsx:170-253).                        *)
THEOREM ConsoleCorrect == Spec => []ConsoleInv
  BY ConsoleInit, ConsoleStep, PTL DEF Spec

(* The state of the pages keeps its types; the pager asks for no page below the first  *)
(* (audit/page.tsx:130-136) and a path holds folders only (DriveBrowser.tsx:61-75). *)
THEOREM ConsoleTyped == Spec => []TypeOK
<1>1. ConsoleInv => TypeOK
  BY DEF ConsoleInv
<1>2. QED
  BY <1>1, ConsoleCorrect, PTL

LEMMA KeepsModal ==
  ASSUME ConsoleInv, [Next]_vars, page # None, page' # None, page.modal # None, page'.modal = None
  PROVE  \/ CloseModal
         \/ \E n \in Names : OpenPage(n)
         \/ \E c \in Desks :
              /\ page.commands[c] # None /\ page'.commands[c] = None
              /\ page.commands[c].stage = "done" /\ page.commands[c].from # "row"
<1>1. CASE Serve
  BY <1>1, ReadRowsMakes, ArrivesMakes, LoadFailsMakes, CarryMakes, SucceedsMakes, FailsMakes
  DEF Serve, Slots, Desks
<1>2. CASE Use
  <2>1. ASSUME NEW row \in Rows, NEW value \in Values, TypeDraft(row, value) PROVE FALSE
    BY <2>1, PageTyped DEF TypeDraft, PageStates
  <2>2. ASSUME NEW row \in Rows, NEW kind, OpenModal(kind, row) PROVE FALSE
    BY <2>2 DEF OpenModal
  <2>3. CASE RefuseInput
    <3>1. page.modal \in Modals /\ page'.modal = [page.modal EXCEPT !.error = TRUE]
      BY <2>3, PageTyped DEF RefuseInput, PageStates
    <3>2. page'.modal \in Modals
      BY <3>1 DEF Modals
    <3>3. QED
      BY <3>2, NothingAssumption
  <2>4. CASE OthersWrite
    BY <2>4 DEF OthersWrite
  <2>5. QED
    BY <1>2, <2>1, <2>2, <2>3, <2>4, TurnMakes, SubmitMakes, PressMakes DEF Use
<1>3. CASE StaysInside \/ UNCHANGED vars
  BY <1>3 DEF StaysInside, vars
<1>4. QED
  BY <1>1, <1>2, <1>3 DEF Next, Act

(* content/page.tsx:270-279, links/page.tsx:142-152, users/page.tsx:140-158: of all that *)
(* may end while a modal is open, only a call that succeeded for a modal closes it, *)
(* and a failure leaves what was typed.                                         *)
THEOREM ModalsKept == Spec => ModalKept
<1>1. ASSUME ConsoleInv, [Next]_vars
      PROVE  page # None /\ page' # None /\ page.modal # None /\ page'.modal = None =>
               \/ CloseModal
               \/ Opens
               \/ \E c \in 1 .. MaxCommands :
                    /\ page.commands[c] # None /\ page'.commands[c] = None
                    /\ page.commands[c].stage = "done" /\ page.commands[c].from # "row"
  BY <1>1, KeepsModal DEF Desks, Opens
<1>2. QED
  BY <1>1, ConsoleCorrect, PTL DEF Spec, ModalKept

-----------------------------------------------------------------------------
(* MCConsole notes what went wrong or overlapped and bounds when pages are opened and   *)
(* what is in flight; the bounds are not needed.                                 *)
NotedSpec == HistoryInit /\ [][Next /\ Noted]_<<vars, history>>

LEMMA HistoryIsNoted == HistorySpec => NotedSpec
<1>1. Next /\ Bounded /\ Noted => Next /\ Noted
  OBVIOUS
<1>2. QED
  BY <1>1, PTL DEF HistorySpec, NotedSpec

LEMMA HistorySound == NotedSpec => []ConsoleInv
<1>1. HistoryInit => ConsoleInv
  BY ConsoleInit DEF HistoryInit
<1>2. ConsoleInv /\ [Next /\ Noted]_<<vars, history>> => ConsoleInv'
  BY ConsoleStep
<1>3. QED
  BY <1>1, <1>2, PTL DEF NotedSpec

-----------------------------------------------------------------------------
(* Who is shown as signed in.                                                    *)

(* handleLogin waits for the refresh it has asked for, and for no other.             *)
LEMMA RefreshAwaited ==
  ASSUME SessionTypeOK, form = "refreshing" <=> InFlight("refresh"),
         Browse \/ Proceed \/ UNCHANGED sessionVars
  PROVE  (form = "refreshing" <=> InFlight("refresh"))'
<1> USE DEF InFlight, NotAsked, Sent, Asked, Callers, SessionTypeOK
<1>1. ASSUME NEW place, LoadAt(place) PROVE (form = "refreshing" <=> InFlight("refresh"))'
  BY <1>1 DEF LoadAt
<1>2. CASE Browse
  BY <1>1, <1>2 DEF Browse, Visit, SignInWithGoogle, PressSignIn, SignOut, Expire
<1>3. ASSUME NEW c \in Callers, NEW who, Show(c, who)
      PROVE  (form = "refreshing" <=> InFlight("refresh"))'
  BY <1>3 DEF Show
<1>4. ASSUME NEW c \in Callers, AnswerMe(c)
      PROVE  (form = "refreshing" <=> InFlight("refresh"))'
  BY <1>4 DEF AnswerMe
<1>5. CASE EndSignIn
  BY <1>5 DEF EndSignIn, SignedIn, SignInFails, Refresh
<1>6. CASE Redirect \/ UNCHANGED sessionVars
  BY <1>6 DEF Redirect, sessionVars
<1>7. QED
  BY <1>2, <1>3, <1>4, <1>5, <1>6 DEF Proceed, MeArrives, MeFails

Undoubted ==
  /\ ~(InFlight("mount") /\ InFlight("refresh"))
  /\ \A c \in Callers : asks[c].answer = "me" => asks[c].who = cookie \/ cookie = None
  /\ (\A c \in Callers : ~InFlight(c)) => user = cookie \/ cookie = None

LEMMA UndoubtedStays ==
  ASSUME SessionTypeOK, Undoubted, ~Doubts, asks' # Asked,
         Browse \/ Proceed \/ UNCHANGED sessionVars
  PROVE  Undoubted'
<1> USE DEF InFlight, NotAsked, Sent, Callers, SessionTypeOK, Undoubted
<1>1. ~(InFlight("mount") /\ InFlight("refresh"))'
  BY DEF Doubts
<1>2. ASSUME UNCHANGED <<user, asks>>, cookie' \in {cookie, None} PROVE Undoubted'
  BY <1>1, <1>2
<1>3. CASE Browse
  <2>1. ASSUME NEW place \in Places, LoadAt(place) PROVE FALSE
    BY <2>1 DEF LoadAt
  <2>2. ASSUME NEW ended \in BOOLEAN, SignOut(ended) PROVE Undoubted'
    <3>1. CASE ended = TRUE
      BY <1>1, <2>2, <3>1 DEF SignOut
    <3>2. CASE ended = FALSE
      <4>1. cookie = None /\ cookie' = None /\ UNCHANGED asks
        BY <2>2, <3>2 DEF Doubts, SignOut
      <4>2. QED
        BY <1>1, <4>1
    <3>3. QED
      BY <3>1, <3>2
  <2>3. CASE PressSignIn \/ Expire
    BY <1>2, <2>3 DEF PressSignIn, Expire
  <2>4. QED
    BY <1>3, <2>1, <2>2, <2>3 DEF Browse, Visit, SignInWithGoogle, Places
<1>4. ASSUME NEW c \in Callers, AnswerMe(c) PROVE Undoubted'
  BY <1>1, <1>4 DEF AnswerMe
<1>5. ASSUME NEW c \in Callers, MeArrives(c) PROVE Undoubted'
  <2>1. asks[c].who = cookie \/ cookie = None
    BY <1>5 DEF MeArrives
  <2>2. user' = asks[c].who /\ cookie' = cookie /\ asks' = [asks EXCEPT ![c] = NotAsked]
    BY <1>5 DEF MeArrives, Show
  <2>3. QED
    BY <1>1, <2>1, <2>2
<1>6. ASSUME NEW c \in Callers, MeFails(c) PROVE Undoubted'
  <2>1. cookie = None
    BY <1>6 DEF Doubts
  <2>2. cookie' = cookie /\ asks' = [asks EXCEPT ![c] = NotAsked]
    BY <1>6 DEF MeFails, Show
  <2>3. QED
    BY <1>1, <2>1, <2>2
<1>7. ASSUME NEW u \in Users, SignedIn(u) PROVE Undoubted'
  BY <1>1, <1>7 DEF SignedIn, Refresh
<1>8. ASSUME NEW u \in Users, SignInFails(u) PROVE Undoubted'
  <2>1. cookie' = cookie
    BY <1>8 DEF Doubts
  <2>2. QED
    BY <1>2, <1>8, <2>1 DEF SignInFails
<1>9. CASE Redirect \/ UNCHANGED sessionVars
  BY <1>2, <1>9 DEF Redirect, sessionVars
<1>10. QED
  BY <1>3, <1>4, <1>5, <1>6, <1>7, <1>8, <1>9 DEF Proceed, EndSignIn

LEMMA SessionInvStep ==
  ASSUME SessionTypeOK, SessionInv, Noted, Browse \/ Proceed \/ UNCHANGED sessionVars
  PROVE  SessionInv'
<1>1. (form = "refreshing" <=> InFlight("refresh"))'
  BY RefreshAwaited DEF SessionInv
<1>2. ASSUME asks' = Asked PROVE Undoubted'
  BY <1>2 DEF Undoubted, InFlight, Asked, NotAsked, Sent, Callers
<1>3. ASSUME ~doubt', asks' # Asked PROVE Undoubted'
  <2>1. ~Doubts /\ ~doubt
    BY <1>3 DEF Noted
  <2>2. Undoubted
    BY <2>1 DEF SessionInv, Undoubted
  <2>3. QED
    BY <1>3, <2>1, <2>2, UndoubtedStays
<1>4. QED
  BY <1>1, <1>2, <1>3 DEF SessionInv, Undoubted

LEMMA SessionStep ==
  ConsoleInv /\ SessionInv /\ [Next /\ Noted]_<<vars, history>> => SessionInv'
<1> SUFFICES ASSUME ConsoleInv, SessionInv, [Next /\ Noted]_<<vars, history>> PROVE SessionInv'
  OBVIOUS
<1>1. CASE Next /\ Noted
  <2>1. Browse \/ Proceed \/ UNCHANGED sessionVars
    BY <1>1, UseSound, ServeSound DEF Next, Act
  <2>2. QED
    BY <1>1, <2>1, SessionInvStep DEF ConsoleInv, TypeOK
<1>2. CASE UNCHANGED <<vars, history>>
  BY <1>2 DEF vars, sessionVars, history, SessionInv, InFlight
<1>3. QED
  BY <1>1, <1>2

(* lib/auth.tsx:22-42, login/page.tsx:38-49: unless, since the site was loaded, calls of  *)
(* /me overlapped, one of them or a sign-out failed while there was a session, or a *)
(* failed sign-in changed the cookie, the browser that waits for nothing shows who is *)
(* signed in, or his session has ended on the server.                             *)
THEOREM SessionStaysHonest == NotedSpec \/ HistorySpec => []SessionHonest
<1>1. HistoryInit => SessionInv
  BY DEF HistoryInit, Init, SessionInit, SessionInv, InFlight, Asked, NotAsked, Sent, Callers
<1>2. SessionInv => SessionHonest
  BY DEF SessionInv, SessionHonest, InFlight
<1>3. NotedSpec => []SessionInv
  BY <1>1, HistorySound, SessionStep, PTL DEF NotedSpec
<1>4. QED
  BY <1>2, <1>3, HistoryIsNoted, PTL

-----------------------------------------------------------------------------
(* The list.                                                                    *)

CallsOf(p) == {<<"load", l>> : l \in {l \in Slots : p.loads[l] # None}}
                \cup {<<"command", c>> : c \in {c \in Desks : p.commands[c] # None}}

LEMMA CallsHere == Calls = CallsOf(page) /\ Calls' = CallsOf(page')
  BY DEF Calls, CallsOf, Slots, Desks

LEMMA NoCalls ==
  ASSUME NEW p, CallsOf(p) = {}
  PROVE  /\ \A l \in Slots : p.loads[l] = None
         /\ \A c \in Desks : p.commands[c] = None
  BY DEF CallsOf

LEMMA ListedStays ==
  ASSUME table' = table, page'.name = page.name, page'.ask = page.ask
  PROVE  Listed(page.ask.filter)' = Listed(page.ask.filter)
  BY DEF Listed, This


(* A page that is opened loads what it asks for.                                     *)
LEMMA OpensAfresh ==
  ASSUME ConsoleInv, NEW n \in Names, OpenPage(n)
  PROVE  /\ 1 \in Slots /\ page'.loads[1] # None
         /\ page'.loads[1].ask = page'.ask /\ page'.loads[1].rows = None
         /\ Calm' /\ OnTheMap'
<1> DEFINE blank == Blank(n)
           load == [ask |-> FirstAsk(n), rows |-> None, after |-> {}]
           next == Load(blank, 1, FirstAsk(n), {})
<1>1. 1 \in Slots /\ {} \in SUBSET {"free", "tell"}
  BY ConsoleAssumption DEF Slots
<1>2. blank \in PageStates /\ FirstAsk(n) \in Asks /\ blank.name = n
      /\ blank.ask = FirstAsk(n) /\ blank.loads = [l \in Slots |-> None]
  BY BlankTyped DEF Blank, Slots
<1>3. load \in Loads /\ load # None
  <2>1. load \in Loads
    BY <1>2 DEF Loads
  <2>2. QED
    BY <2>1, NothingAssumption
<1> HIDE DEF blank
<1>4. /\ next.name = blank.name /\ next.ask = blank.ask
      /\ next.loads = [blank.loads EXCEPT ![1] = load]
      /\ next.loading
  <2>1. blank \in PageStates /\ FirstAsk(n) \in Asks
    BY <1>2
  <2>2. /\ next \in PageStates /\ next.name = blank.name /\ next.ask = blank.ask
        /\ next.commands = blank.commands /\ next.loads = [blank.loads EXCEPT ![1] = load]
    BY <1>1, <2>1, LoadMakes
  <2>3. next.loading
    BY <1>1, <2>1, LoadMakes
  <2>4. QED
    BY <2>2, <2>3
<1>5. page' = next
  BY DEF OpenPage, blank
<1> HIDE DEF next
<1>6. /\ page'.loading /\ page'.ask = FirstAsk(n) /\ page'.name = n
      /\ page'.loads[1] = load /\ \A l \in Slots \ {1} : page'.loads[l] = None
  BY <1>1, <1>2, <1>4, <1>5
<1>7. load.ask = FirstAsk(n) /\ load.rows = None
  OBVIOUS
<1> HIDE DEF load
<1>8. Calm'
  <2>1. \A l \in Slots : page'.loads[l] # None => l = 1
    BY <1>6
  <2>2. \A l \in Slots : page'.loads[l] # None => page'.loading /\ page'.loads[l].ask = page'.ask
    BY <1>6, <1>7, <2>1
  <2>3. ~(\A l \in Slots : page'.loads[l] = None)
    BY <1>1, <1>3, <1>6
  <2>4. QED
    BY <2>1, <2>2, <2>3 DEF Calm
<1>9. OnTheMap'
  <2>1. n = "audit" => FirstAsk(n).filter = "all" /\ FirstAsk(n).number = 1
    BY DEF FirstAsk, Pages, AuditPage, Reader
  <2>2. FirstAsk(n).path = <<>>
    BY DEF FirstAsk
  <2>3. RealPath(<<>>)
    BY DEF RealPath
  <2>4. Total["all"] \in Nat \ {0}
    BY ConsoleAssumption
  <2>5. QED
    BY <1>6, <2>1, <2>2, <2>3, <2>4 DEF OnTheMap
<1>10. QED
  BY <1>1, <1>3, <1>6, <1>7, <1>8, <1>9

(* Whatever happens to the open page, either a load begins, or one is answered or    *)
(* ends, or the loads and the answer stay as they are.                          *)
Begins(l) ==
  /\ l \in Slots /\ page.loads[l] = None /\ page'.loads[l] # None
  /\ page'.loads[l].rows = None /\ page'.loading
  /\ \A k \in Slots \ {l} : page'.loads[k] = page.loads[k]

Quiet ==
  /\ page'.name = page.name /\ page'.ask = page.ask /\ page'.answer = page.answer
  /\ page'.loading = page.loading /\ page'.loads = page.loads

(* No command that is yet to load the list again is lost.                            *)
Kept ==
  \A c \in Desks : page.commands[c] # None /\ page.commands[c].stage = "done" =>
    \/ page.commands[c].op \in {"alert", "password"}
    \/ /\ page'.commands[c] # None /\ page'.commands[c].stage = "done"
       /\ page'.commands[c].op = page.commands[c].op

LostAnswer == \E c \in Desks :
  page.commands[c] # None /\ page.commands[c].stage = "done" /\ CommandFails(c)

Harmless == Quiet /\ ((table' = table /\ Kept) \/ Pending' \/ LostAnswer \/ OthersWrite)
Unmoved == page'.name = page.name /\ page'.ask = page.ask

LEMMA TurnBegins ==
  ASSUME ConsoleInv, page # None, Turn
  PROVE  \E l \in Slots : Begins(l)
  BY TurnMakes DEF Begins

LEMMA ReloadBegins ==
  ASSUME ConsoleInv, page # None, FreeLoads # {}, NEW c \in Desks, page.commands[c] # None,
         NEW p, Ending(p, c), NEW after \in SUBSET {"free", "tell"},
         page' = Reload(p, page.commands[c], after)
  PROVE  Unmoved /\ \E l \in Slots : Begins(l)
<1>1. p \in PageStates /\ p.loads = page.loads /\ p.ask = page.ask /\ p.name = page.name
      /\ page.commands[c].ask \in Asks
  BY CommandAsks DEF Ending
<1> DEFINE next == Reload(p, page.commands[c], after)
<1>2. /\ next.name = page.name /\ next.ask = page.ask /\ next.loading
      /\ \E l \in Slots : /\ page.loads[l] = None /\ next.loads[l] # None
                          /\ next.loads[l].rows = None
                          /\ \A k \in Slots \ {l} : next.loads[k] = page.loads[k]
  BY <1>1, ReloadMakes DEF Reload
<1> HIDE DEF next
<1>3. page' = next
  BY DEF next
<1>4. QED
  BY <1>2, <1>3 DEF Begins, Unmoved

LEMMA EndingQuiet ==
  ASSUME ConsoleInv, page # None, NEW c \in Desks, Ending(page', c), page'.answer = page.answer
  PROVE  /\ Quiet
         /\ page.commands[c].op \in {"alert", "password"} \/ page.commands[c].stage # "done" => Kept
  BY DEF Ending, Quiet, Kept

LEMMA CarryHarmless ==
  ASSUME ConsoleInv, page # None, NEW c \in Desks, Carry(c)
  PROVE  Harmless
<1>1. Quiet
  BY CarryMakes DEF Quiet
<1>2. /\ page.commands[c] \in Commands /\ page.commands \in [Desks -> Commands \cup {None}]
      /\ page.commands[c] # None /\ page.commands[c].stage = "sent"
  BY CarryMakes, CommandAsks, PageTyped DEF Carry, PageStates, Desks
<1>3. PICK stage \in {"done", "refused"} :
        page'.commands = [page.commands EXCEPT ![c] = [page.commands[c] EXCEPT !.stage = stage]]
  BY CarryMakes
<1>4. \A d \in Desks \ {c} : page'.commands[d] = page.commands[d]
  BY <1>2, <1>3
<1>5. page'.commands[c] # None /\ page'.commands[c].op = page.commands[c].op
  <2>1. [page.commands[c] EXCEPT !.stage = stage] \in Commands
    BY <1>2 DEF Commands
  <2>2. page'.commands[c] = [page.commands[c] EXCEPT !.stage = stage]
    BY <1>2, <1>3
  <2>3. page'.commands[c].op = page.commands[c].op
    BY <1>2, <2>2 DEF Commands
  <2>4. QED
    BY <2>1, <2>2, <2>3, NothingAssumption
<1>6. CASE table' = table
  <2>1. Kept
    BY <1>2, <1>4 DEF Kept
  <2>2. QED
    BY <1>1, <1>6, <2>1 DEF Harmless
<1>7. CASE table' # table
  <2>1. page'.commands[c].stage = "done" /\ page.commands[c].to # None
    BY <1>7, CarryMakes
  <2>2. page.commands[c].op \notin {"alert", "password"}
    BY <1>2, <2>1 DEF ConsoleInv, InHand
  <2>3. Pending'
    BY <1>5, <2>1, <2>2 DEF Pending
  <2>4. QED
    BY <1>1, <2>3 DEF Harmless
<1>8. QED
  BY <1>6, <1>7

(* A command that is sent, or taken from a modal that is closed, changes no list.    *)
LEMMA SentKept ==
  ASSUME ConsoleInv, page # None, NEW c \in Desks, page.commands[c] = None, NEW sent,
         page'.commands = [page.commands EXCEPT ![c] = sent]
  PROVE  Kept
<1>1. page.commands \in [Desks -> Commands \cup {None}]
  BY PageTyped DEF PageStates, Desks
<1>2. \A d \in Desks \ {c} : page'.commands[d] = page.commands[d]
  BY <1>1
<1>3. QED
  BY <1>2 DEF Kept

LEMMA CloseHarmless ==
  ASSUME ConsoleInv, page # None, CloseModal
  PROVE  Harmless
<1> DEFINE next == Closed(page)
<1>1. /\ next.name = page.name /\ next.ask = page.ask /\ next.answer = page.answer
      /\ next.loading = page.loading /\ next.loads = page.loads
      /\ next.commands = [c \in Desks |-> Leave(page.commands[c])]
  BY PageTyped, ClosedMakes
<1>2. page' = next /\ table' = table
  BY DEF CloseModal
<1> HIDE DEF next
<1>3. page.commands \in [Desks -> Commands \cup {None}]
  BY PageTyped DEF PageStates, Desks
<1>4. \A c \in Desks : page'.commands[c] = Leave(page.commands[c])
  BY <1>1, <1>2
<1>5. \A c \in Desks : page.commands[c] # None =>
        /\ Leave(page.commands[c]) \in Commands
        /\ Leave(page.commands[c]).stage = page.commands[c].stage
        /\ Leave(page.commands[c]).op = page.commands[c].op
  BY <1>3 DEF Leave, Commands
<1>6. Kept
  BY <1>4, <1>5, NothingAssumption DEF Kept
<1>7. QED
  BY <1>1, <1>2, <1>6 DEF Harmless, Quiet

LEMMA UseKinds ==
  ASSUME ConsoleInv, page # None, page' # None, Use, ~Opens
  PROVE  Turn \/ Harmless
<1>1. ASSUME UNCHANGED table, page'.name = page.name, page'.ask = page.ask,
             page'.answer = page.answer, page'.loading = page.loading,
             page'.loads = page.loads, page'.commands = page.commands
      PROVE  Harmless
  BY <1>1 DEF Harmless, Quiet, Kept
<1>2. CASE SubmitModal
  <2>1. Kept
    BY <1>2, SubmitMakes, SentKept
  <2>2. QED
    BY <1>2, <2>1, SubmitMakes DEF Harmless, Quiet
<1>3. ASSUME NEW row \in Rows, Press(row) \/ AddRule(row) PROVE Harmless
  <2>1. Kept
    BY <1>3, PressMakes, SentKept
  <2>2. QED
    BY <1>3, <2>1, PressMakes DEF Harmless, Quiet
<1>4. CASE RefuseInput
  BY <1>1, <1>4, PageTyped DEF RefuseInput, PageStates
<1>5. ASSUME NEW row \in Rows, NEW kind, OpenModal(kind, row) PROVE Harmless
  BY <1>1, <1>5, PageTyped DEF OpenModal, PageStates
<1>6. ASSUME NEW row \in Rows, NEW value, TypeDraft(row, value) PROVE Harmless
  BY <1>1, <1>6, PageTyped DEF TypeDraft, PageStates
<1>7. CASE OthersWrite
  BY <1>7 DEF OthersWrite, Harmless, Quiet
<1>8. QED
  BY <1>2, <1>3, <1>4, <1>5, <1>6, <1>7, CloseHarmless DEF Use, Opens

LEMMA StepKinds ==
  ASSUME ConsoleInv, page # None, page' # None, [Next]_vars, ~Opens
  PROVE  \/ (Turn \/ Unmoved) /\ \E l \in Slots : Begins(l)
         \/ \E l \in Slots : ReadRows(l) \/ Arrives(l) \/ LoadFails(l)
         \/ Harmless
<1>1. ASSUME NEW c \in Desks, Succeeds(c) PROVE Harmless \/ (Unmoved /\ \E l \in Slots : Begins(l))
  <2>1. /\ page.commands[c] # None /\ table' = table /\ FreeLoads # {}
        /\ \/ /\ page.commands[c].op \in {"alert", "password"}
              /\ Ending(page', c) /\ page'.answer = page.answer
           \/ \E p \in PageStates, after \in SUBSET {"free", "tell"} :
                Ending(p, c) /\ page' = Reload(p, page.commands[c], after)
    BY <1>1, SucceedsMakes DEF Succeeds
  <2>2. QED
    BY <2>1, EndingQuiet, ReloadBegins DEF Harmless
<1>2. ASSUME NEW c \in Desks, CommandFails(c) PROVE Harmless \/ (Unmoved /\ \E l \in Slots : Begins(l))
  <2>1. /\ page.commands[c] # None /\ table' = table /\ FreeLoads # {}
        /\ \/ Ending(page', c) /\ page'.answer = page.answer
           \/ \E p \in PageStates, after \in SUBSET {"free", "tell"} :
                Ending(p, c) /\ page' = Reload(p, page.commands[c], after)
    BY <1>2, FailsMakes DEF CommandFails
  <2>2. CASE page.commands[c].stage = "done"
    BY <1>2, <2>1, <2>2, EndingQuiet, ReloadBegins DEF Harmless, LostAnswer
  <2>3. CASE page.commands[c].stage # "done"
    BY <2>1, <2>3, EndingQuiet, ReloadBegins DEF Harmless
  <2>4. QED
    BY <2>2, <2>3
<1>3. CASE Serve
  BY <1>1, <1>2, <1>3, CarryHarmless DEF Serve, Slots, Desks
<1>4. CASE Use
  BY <1>4, UseKinds, TurnBegins
<1>5. CASE StaysInside \/ UNCHANGED vars
  BY <1>5 DEF StaysInside, vars, Harmless, Quiet, Kept
<1>6. QED
  BY <1>3, <1>4, <1>5 DEF Next, Act

-----------------------------------------------------------------------------
(* What a page asks for exists.                                                   *)

LEMMA CrumbReal ==
  ASSUME NEW path \in Seq(DOMAIN Children), RealPath(path), NEW n \in 0 .. Len(path)
  PROVE  RealPath(SubSeq(path, 1, n))
<1> DEFINE crumb == SubSeq(path, 1, n)
<1>1. crumb \in Seq(DOMAIN Children) /\ Len(crumb) = n /\ \A i \in 1 .. n : crumb[i] = path[i]
  BY Beginning
<1>2. ASSUME NEW i \in 1 .. n PROVE SubSeq(crumb, 1, i - 1) = SubSeq(path, 1, i - 1)
  <2>1. i - 1 \in 0 .. n /\ i - 1 \in 0 .. Len(path)
    OBVIOUS
  <2>2. /\ SubSeq(crumb, 1, i - 1) \in Seq(DOMAIN Children)
        /\ Len(SubSeq(crumb, 1, i - 1)) = i - 1
        /\ \A j \in 1 .. i - 1 : SubSeq(crumb, 1, i - 1)[j] = crumb[j]
    BY <1>1, <2>1, Beginning
  <2>3. /\ SubSeq(path, 1, i - 1) \in Seq(DOMAIN Children)
        /\ Len(SubSeq(path, 1, i - 1)) = i - 1
        /\ \A j \in 1 .. i - 1 : SubSeq(path, 1, i - 1)[j] = path[j]
    BY <2>1, Beginning
  <2>4. \A j \in 1 .. i - 1 : SubSeq(crumb, 1, i - 1)[j] = SubSeq(path, 1, i - 1)[j]
    BY <1>1, <2>2, <2>3
  <2>5. QED
    BY <2>2, <2>3, <2>4, SeqEqual
<1>3. DOMAIN crumb = 1 .. n
  BY <1>1
<1> HIDE DEF crumb
<1>4. ASSUME NEW i \in 1 .. n PROVE crumb[i] \in Children[Folder(SubSeq(crumb, 1, i - 1))]
  <2>1. i \in DOMAIN path
    OBVIOUS
  <2>2. path[i] \in Children[Folder(SubSeq(path, 1, i - 1))]
    BY <2>1 DEF RealPath
  <2>3. QED
    BY <1>1, <1>2, <2>2
<1>5. QED
  BY <1>3, <1>4 DEF RealPath, crumb

LEMMA LongerReal ==
  ASSUME NEW path \in Seq(DOMAIN Children), RealPath(path), NEW f \in Children[Folder(path)],
         f \in DOMAIN Children
  PROVE  RealPath(Append(path, f))
<1> DEFINE longer == Append(path, f)
<1>1. /\ longer \in Seq(DOMAIN Children) /\ Len(longer) = Len(path) + 1
      /\ \A i \in 1 .. Len(path) : longer[i] = path[i]
      /\ longer[Len(path) + 1] = f
  BY Longer
<1>2. Len(path) \in Nat
  OBVIOUS
<1> HIDE DEF longer
<1>3. ASSUME NEW i \in 1 .. Len(path) + 1 PROVE SubSeq(longer, 1, i - 1) = SubSeq(path, 1, i - 1)
  <2>1. i - 1 \in 0 .. Len(longer) /\ i - 1 \in 0 .. Len(path)
    BY <1>1, <1>2
  <2>2. /\ SubSeq(longer, 1, i - 1) \in Seq(DOMAIN Children)
        /\ Len(SubSeq(longer, 1, i - 1)) = i - 1
        /\ \A j \in 1 .. i - 1 : SubSeq(longer, 1, i - 1)[j] = longer[j]
    BY <1>1, <2>1, Beginning
  <2>3. /\ SubSeq(path, 1, i - 1) \in Seq(DOMAIN Children)
        /\ Len(SubSeq(path, 1, i - 1)) = i - 1
        /\ \A j \in 1 .. i - 1 : SubSeq(path, 1, i - 1)[j] = path[j]
    BY <2>1, Beginning
  <2>4. \A j \in 1 .. i - 1 : SubSeq(longer, 1, i - 1)[j] = SubSeq(path, 1, i - 1)[j]
    BY <1>1, <1>2, <2>2, <2>3
  <2>5. QED
    BY <2>2, <2>3, <2>4, SeqEqual
<1>4. SubSeq(path, 1, Len(path)) = path
  OBVIOUS
<1>5. ASSUME NEW i \in 1 .. Len(path) + 1
      PROVE  longer[i] \in Children[Folder(SubSeq(longer, 1, i - 1))]
  <2>1. CASE i = Len(path) + 1
    <3>1. i - 1 = Len(path)
      BY <1>2, <2>1
    <3>2. SubSeq(longer, 1, i - 1) = path
      BY <1>3, <1>4, <3>1
    <3>3. QED
      BY <1>1, <2>1, <3>2
  <2>2. CASE i # Len(path) + 1
    <3>1. i \in 1 .. Len(path) /\ i \in DOMAIN path
      BY <1>2, <2>2
    <3>2. QED
      BY <1>1, <1>3, <3>1 DEF RealPath
  <2>3. QED
    BY <2>1, <2>2
<1>6. DOMAIN longer = 1 .. Len(path) + 1
  BY <1>1
<1>7. QED
  BY <1>5, <1>6 DEF RealPath, longer

LEMMA TurnsReal ==
  ASSUME ConsoleInv, page # None, Calm, OnTheMap, Turn
  PROVE  OnTheMap'
<1> DEFINE ask == page'.ask
<1>1. /\ page'.name = page.name /\ ask \in Turns /\ ask.number <= MaxAsk /\ Len(ask.path) <= MaxAsk
  BY TurnMakes
<1>2. ask \in Asks /\ ask.filter \in DOMAIN This.filters
  BY <1>1, TurnsTyped
<1>3. page.ask \in Asks /\ page.name \in Names /\ page.ask.path \in Seq(DOMAIN Children)
  BY PageTyped DEF Asks, Paths
<1>4. page.name = "audit" => DOMAIN This.filters = {"all", "action"}
  BY DEF This, Pages, AuditPage, Reader, AuditFilters
<1>5. Displayed => page.answer.ask = page.ask
  BY DEF Displayed, Calm
<1>6. CASE ask \in FilterTurns
  <2>1. ask.number = 1 /\ ask.path = <<>>
    BY <1>6 DEF FilterTurns
  <2>2. RealPath(<<>>)
    BY DEF RealPath
  <2>3. page.name = "audit" => Total[ask.filter] \in Nat \ {0}
    BY <1>2, <1>4, ConsoleAssumption
  <2>4. QED
    BY <1>1, <2>1, <2>2, <2>3 DEF OnTheMap
<1>7. CASE ask \in PagerTurns /\ page.name = "audit"
  <2>1. Displayed
    BY <1>7 DEF PagerTurns
  <2>2. PICK n : /\ \/ page.ask.number < Total[page.ask.filter] /\ n = page.ask.number + 1
                    \/ page.ask.number > 1 /\ n = Previous(page.ask.number)
                 /\ ask = [page.ask EXCEPT !.number = n]
    BY <1>5, <1>7, <2>1 DEF PagerTurns
  <2>3. ask.filter = page.ask.filter /\ ask.path = page.ask.path /\ ask.number = n
    BY <1>3, <2>2 DEF Asks
  <2>4. Total[page.ask.filter] \in Nat
    BY <1>2, <1>4, <1>7, <2>3, ConsoleAssumption
  <2>5. page.ask.number \in Nat /\ page.ask.number <= Total[page.ask.filter]
    BY <1>3, <1>7 DEF Asks, OnTheMap
  <2>6. n <= Total[page.ask.filter]
    BY <2>2, <2>4, <2>5 DEF Previous
  <2>7. QED
    BY <1>1, <2>3, <2>6 DEF OnTheMap
<1>8. CASE ask \in CrumbTurns /\ page.name = "drive"
  <2>1. PICK n \in 0 .. Len(page.ask.path) :
          ask = [page.ask EXCEPT !.path = SubSeq(page.ask.path, 1, n)]
    BY <1>8 DEF CrumbTurns
  <2>2. ask.path = SubSeq(page.ask.path, 1, n)
    BY <1>3, <2>1 DEF Asks
  <2>3. RealPath(ask.path)
    BY <1>3, <2>2, CrumbReal DEF OnTheMap
  <2>4. QED
    BY <1>1, <1>8, <2>3 DEF OnTheMap
<1>9. CASE ask \in FolderTurns /\ page.name = "drive"
  <2>1. Displayed
    BY <1>9 DEF FolderTurns
  <2>2. PICK f \in Children[Folder(page.ask.path)] :
          ask = [page.ask EXCEPT !.path = Append(page.ask.path, f)]
    BY <1>5, <1>9, <2>1 DEF FolderTurns
  <2>3. ask.path = Append(page.ask.path, f) /\ f \in DOMAIN Children
    BY <1>3, <2>2, FolderTyped DEF Asks
  <2>4. RealPath(ask.path)
    BY <1>3, <2>2, <2>3, LongerReal DEF OnTheMap
  <2>5. QED
    BY <1>1, <1>9, <2>4 DEF OnTheMap
<1>10. QED
  BY <1>1, <1>6, <1>7, <1>8, <1>9 DEF Turns


-----------------------------------------------------------------------------
(* What each kind of step makes of the list.                                        *)

LEMMA BegunOne ==
  ASSUME ~Opens, NEW l, Begins(l)
  PROVE  Begun = {l}
  BY DEF Begun, Begins, Slots

LEMMA BegunNone ==
  ASSUME ~Opens, \A k \in Slots : page.loads[k] = None => page'.loads[k] = None
  PROVE  Begun = {}
  BY DEF Begun, Slots

(* A load that has just begun and is right makes up for whatever was missed.          *)
LEMMA BeginsAfresh ==
  ASSUME NEW l \in Slots, page'.loads[l] # None, page'.loads[l].ask = page'.ask,
         page'.loads[l].rows = None, newest' = {l}
  PROVE  Afresh'
  BY DEF Afresh

CurrentThen(rows) == rows = Listed(page.ask.filter)' \/ Pending'

LEMMA CurrentStays ==
  ASSUME table' = table, Unmoved, Kept, NEW rows, Current(rows)
  PROVE  CurrentThen(rows)
<1>1. Listed(page.ask.filter)' = Listed(page.ask.filter)
  BY ListedStays DEF Unmoved
<1>2. Pending => Pending'
  BY DEF Pending, Kept
<1>3. QED
  BY <1>1, <1>2 DEF Current, CurrentThen

LEMMA ReadsAfresh ==
  ASSUME ConsoleInv, page # None, Afresh, NEW l \in Slots, ReadRows(l), newest' = newest,
         newest \subseteq Slots
  PROVE  Afresh'
<1>1. /\ table' = table /\ Unmoved /\ Kept /\ page'.answer = page.answer
      /\ page'.loads[l] # None /\ page'.loads[l].ask = page.loads[l].ask
      /\ page'.loads[l].rows = Listed(page.loads[l].ask.filter)
      /\ \A k \in Slots \ {l} : page'.loads[k] = page.loads[k]
  BY ReadRowsMakes DEF Unmoved, Kept
<1>2. page'.ask = page.ask
  BY <1>1 DEF Unmoved
<1>3. ASSUME NEW k \in newest
      PROVE  /\ page'.loads[k].ask = page'.ask
             /\ page'.loads[k].rows = None \/ CurrentThen(page'.loads[k].rows)
  <2>1. /\ page.loads[k].ask = page.ask
        /\ page.loads[k].rows = None \/ Current(page.loads[k].rows)
    BY DEF Afresh
  <2>2. CASE k = l
    <3> DEFINE rows == page'.loads[l].rows
    <3>1. rows = Listed(page.ask.filter)
      BY <1>1, <2>1, <2>2
    <3>2. Listed(page.ask.filter)' = Listed(page.ask.filter)
      BY <1>1, ListedStays DEF Unmoved
    <3>3. QED
      BY <1>1, <1>2, <2>1, <2>2, <3>1, <3>2 DEF CurrentThen
  <2>3. CASE k # l
    <3>1. page'.loads[k] = page.loads[k]
      BY <1>1, <2>3
    <3>2. QED
      BY <1>1, <1>2, <2>1, <3>1, CurrentStays
  <2>4. QED
    BY <2>2, <2>3
<1>4. \E k \in Slots : page'.loads[k] # None
  BY <1>1
<1>5. QED
  BY <1>3, <1>4 DEF Afresh, Current, CurrentThen

(* The answer of the load that began last is shown; one of an earlier load is not     *)
(* the last.                                                                     *)
LEMMA ArrivesAfresh ==
  ASSUME ConsoleInv, page # None, Afresh, NEW l \in Slots, Arrives(l), newest # {},
         newest \subseteq Slots, \A k, m \in newest : k = m, newest' = newest \ {l}
  PROVE  Afresh'
<1>1. /\ table' = table /\ Unmoved /\ Kept
      /\ page.loads[l].rows # None /\ page'.loads = [page.loads EXCEPT ![l] = None]
      /\ page'.answer # None /\ page'.answer.ask = page.loads[l].ask
      /\ page'.answer.rows = page.loads[l].rows
  BY ArrivesMakes DEF Unmoved, Kept
<1>2. page'.ask = page.ask
  BY <1>1 DEF Unmoved
<1>3. \A k \in Slots \ {l} : page'.loads[k] = page.loads[k]
  BY <1>1, PageTyped DEF PageStates, Slots
<1>4. CASE l \in newest
  <2>1. newest' = {}
    BY <1>4
  <2>2. page.loads[l].ask = page.ask /\ Current(page.loads[l].rows)
    BY <1>1, <1>4 DEF Afresh
  <2>3. CurrentThen(page'.answer.rows)
    BY <1>1, <2>2, CurrentStays
  <2>4. QED
    BY <1>1, <1>2, <2>1, <2>2, <2>3 DEF Afresh, Current, CurrentThen
<1>5. CASE l \notin newest
  <2>1. newest' = newest
    BY <1>5
  <2>2. ASSUME NEW k \in newest
        PROVE  /\ page'.loads[k].ask = page'.ask
               /\ page'.loads[k].rows = None \/ CurrentThen(page'.loads[k].rows)
    <3>1. /\ page.loads[k].ask = page.ask
          /\ page.loads[k].rows = None \/ Current(page.loads[k].rows)
      BY DEF Afresh
    <3>2. page'.loads[k] = page.loads[k]
      BY <1>3, <1>5
    <3>3. QED
      BY <1>1, <1>2, <3>1, <3>2, CurrentStays
  <2>3. QED
    BY <2>1, <2>2 DEF Afresh, Current, CurrentThen
<1>6. QED
  BY <1>4, <1>5

LEMMA FailsAfresh ==
  ASSUME ConsoleInv, page # None, Afresh, NEW l \in Slots, LoadFails(l),
         newest \subseteq Slots, \A k, m \in newest : k = m, ~(newest \subseteq {l}),
         newest' = newest \ {l}
  PROVE  Afresh'
<1>1. newest' = newest /\ l \notin newest /\ newest # {}
  OBVIOUS
<1>2. /\ table' = table /\ Unmoved /\ Kept /\ page'.loads = [page.loads EXCEPT ![l] = None]
  BY LoadFailsMakes DEF Unmoved, Kept
<1>3. page'.ask = page.ask
  BY <1>2 DEF Unmoved
<1>4. \A k \in Slots \ {l} : page'.loads[k] = page.loads[k]
  BY <1>2, PageTyped DEF PageStates, Slots
<1>5. ASSUME NEW k \in newest
      PROVE  /\ page'.loads[k].ask = page'.ask
             /\ page'.loads[k].rows = None \/ CurrentThen(page'.loads[k].rows)
  <2>1. /\ page.loads[k].ask = page.ask
        /\ page.loads[k].rows = None \/ Current(page.loads[k].rows)
    BY DEF Afresh
  <2>2. page'.loads[k] = page.loads[k]
    BY <1>1, <1>4
  <2>3. QED
    BY <1>2, <1>3, <2>1, <2>2, CurrentStays
<1>6. QED
  BY <1>1, <1>5 DEF Afresh, Current, CurrentThen

LEMMA HarmlessAfresh ==
  ASSUME page # None, Afresh, Quiet, newest' = newest, (table' = table /\ Kept) \/ Pending'
  PROVE  Afresh'
<1>1. /\ page'.loads = page.loads /\ page'.answer = page.answer /\ page'.ask = page.ask /\ Unmoved
  BY DEF Quiet, Unmoved
<1>2. \A rows : Current(rows) => CurrentThen(rows)
  BY <1>1, CurrentStays DEF CurrentThen
<1>3. QED
  BY <1>1, <1>2 DEF Afresh, Current, CurrentThen

-----------------------------------------------------------------------------
(* The invariant of the list is inductive.                                          *)

(* A page comes from nowhere only by being opened.                                   *)
LEMMA OnlyOpens ==
  ASSUME page = None, page' # None, [Next]_vars
  PROVE  Opens
  BY DEF Next, Act, Use, Serve, StaysInside, vars, Opens

LEMMA MapStays ==
  ASSUME ConsoleInv, page # None, Calm, OnTheMap, Turn \/ Unmoved
  PROVE  OnTheMap'
  BY TurnsReal DEF OnTheMap, Unmoved

(* The claim of a step: what ListInv says after it.                                  *)
ListThen ==
  /\ newest' \subseteq {l \in Slots : page'.loads[l] # None} /\ \A k, l \in newest' : k = l
  /\ ~spoiled' => Afresh'
  /\ ~strayed' => Calm' /\ OnTheMap'

LEMMA OpensStep ==
  ASSUME ConsoleInv, page' # None, Noted, Opens
  PROVE  ListThen
<1>1. /\ 1 \in Slots /\ page'.loads[1] # None
      /\ page'.loads[1].ask = page'.ask /\ page'.loads[1].rows = None /\ Calm' /\ OnTheMap'
  BY OpensAfresh DEF Opens
<1>2. newest' = {1}
  BY DEF Noted, Begun
<1>3. Afresh'
  BY <1>1, <1>2, BeginsAfresh
<1>4. QED
  BY <1>1, <1>2, <1>3 DEF ListThen

LEMMA BeginsStep ==
  ASSUME ConsoleInv, ListInv, page # None, page' # None, Noted, ~Opens,
         Turn \/ Unmoved, NEW l \in Slots, Begins(l)
  PROVE  ListThen
<1>1. Begun = {l}
  BY BegunOne
<1>2. newest' = {l} /\ (~spoiled' => ~Astray) /\ (~strayed' => ~strayed /\ ~Overlap /\ ~Astray)
  <2>1. Begun # {}
    BY <1>1
  <2>2. newest' = {l}
    BY <1>1, <2>1 DEF Noted
  <2>3. ~spoiled' => ~Astray
    BY <2>1, Zenon DEF Noted
  <2>4. ~strayed' => ~strayed /\ ~Overlap /\ ~Astray
    BY Zenon DEF Noted
  <2>5. QED
    BY <2>2, <2>3, <2>4
<1>3. page'.loads[l] # None /\ page'.loads[l].rows = None /\ page'.loading
  BY DEF Begins
<1>4. ~Astray => page'.loads[l].ask = page'.ask
  BY <1>1 DEF Astray
<1>5. ~spoiled' => Afresh'
  BY <1>2, <1>3, <1>4, BeginsAfresh
<1>6. ASSUME ~strayed' PROVE Calm' /\ OnTheMap'
  <2>1. \A k \in Slots : page'.loads[k] # None => k = l
    BY <1>2, <1>3, <1>6 DEF Overlap, Slots
  <2>2. Calm'
    BY <1>2, <1>3, <1>4, <1>6, <2>1 DEF Calm
  <2>3. OnTheMap'
    BY <1>2, <1>6, MapStays DEF ListInv
  <2>4. QED
    BY <2>2, <2>3
<1>7. QED
  BY <1>2, <1>3, <1>5, <1>6 DEF ListThen

LEMMA ReadsStep ==
  ASSUME ConsoleInv, ListInv, page # None, page' # None, Noted, ~Opens, NEW l \in Slots, ReadRows(l)
  PROVE  ListThen
<1>1. /\ Unmoved /\ page'.answer = page.answer /\ page'.loading = page.loading
      /\ page.loads[l] # None /\ page'.loads[l] # None /\ page'.loads[l].ask = page.loads[l].ask
      /\ \A k \in Slots \ {l} : page'.loads[k] = page.loads[k]
  BY ReadRowsMakes DEF Unmoved
<1>2. Begun = {}
  BY <1>1, BegunNone
<1>3. newest' = newest
  BY <1>1, <1>2 DEF Noted, ListInv
<1>4. (~spoiled' => ~spoiled) /\ (~strayed' => ~strayed)
  BY <1>2 DEF Noted
<1>5. ~spoiled' => Afresh'
  BY <1>3, <1>4, ReadsAfresh DEF ListInv
<1>6. ~strayed' => Calm' /\ OnTheMap'
  <2>1. Calm => Calm'
    BY <1>1 DEF Calm, Unmoved
  <2>2. QED
    BY <1>1, <1>4, <2>1, MapStays DEF ListInv
<1>7. QED
  BY <1>1, <1>3, <1>5, <1>6 DEF ListThen, ListInv

LEMMA EndsStep ==
  ASSUME ConsoleInv, ListInv, page # None, page' # None, Noted, ~Opens,
         NEW l \in Slots, Arrives(l) \/ LoadFails(l)
  PROVE  ListThen
<1>1. Unmoved /\ page'.loads = [page.loads EXCEPT ![l] = None] /\ page.loads[l] # None
  BY ArrivesMakes, LoadFailsMakes DEF Unmoved, Arrives, LoadFails
<1>2. page'.loads[l] = None /\ \A k \in Slots \ {l} : page'.loads[k] = page.loads[k]
  BY <1>1, PageTyped DEF PageStates, Slots
<1>3. Begun = {}
  BY <1>2, BegunNone
<1>4. newest \subseteq {k \in Slots : page.loads[k] # None} /\ \A k, m \in newest : k = m
  BY DEF ListInv
<1>5. newest' = newest \ {l}
  BY <1>2, <1>3, <1>4 DEF Noted
<1>6. /\ ~spoiled' => ~spoiled /\ ~Spoils
      /\ ~strayed' => ~strayed /\ ~(\E k \in 1 .. MaxLoads : LoadFails(k))
  BY <1>3 DEF Noted
<1>7. ASSUME ~spoiled' PROVE Afresh'
  <2>1. Afresh /\ ~Spoils /\ newest \subseteq Slots
    BY <1>4, <1>6, <1>7 DEF ListInv
  <2>2. CASE Arrives(l)
    <3>1. newest # {}
      BY <2>1, <2>2 DEF Spoils, Slots
    <3>2. QED
      BY <1>4, <1>5, <2>1, <2>2, <3>1, ArrivesAfresh
  <2>3. CASE LoadFails(l)
    <3>1. ~(newest \subseteq {l})
      BY <2>1, <2>3 DEF Spoils, Slots
    <3>2. QED
      BY <1>4, <1>5, <2>1, <2>3, <3>1, FailsAfresh
  <2>4. QED
    BY <2>2, <2>3
<1>8. ASSUME ~strayed' PROVE Calm' /\ OnTheMap'
  <2>1. Calm /\ OnTheMap /\ Arrives(l)
    BY <1>6, <1>8 DEF ListInv, Slots
  <2>2. /\ page'.answer # None /\ page'.answer.ask = page.loads[l].ask /\ page'.ask = page.ask
    BY <2>1, ArrivesMakes
  <2>3. page.loads[l].ask = page.ask
    BY <1>1, <2>1 DEF Calm
  <2>4. \A k \in Slots : page'.loads[k] = None
    BY <1>1, <1>2, <2>1 DEF Calm
  <2>5. Calm'
    BY <2>2, <2>3, <2>4 DEF Calm
  <2>6. QED
    BY <1>1, <2>1, <2>5, MapStays
<1>9. QED
  BY <1>2, <1>4, <1>5, <1>7, <1>8 DEF ListThen

LEMMA HarmlessStep ==
  ASSUME ConsoleInv, ListInv, page # None, page' # None, Noted, ~Opens, Harmless
  PROVE  ListThen
<1>1. Quiet /\ Unmoved /\ page'.loads = page.loads
  BY DEF Harmless, Quiet, Unmoved
<1>2. Begun = {}
  BY <1>1, BegunNone
<1>3. newest' = newest
  BY <1>1, <1>2 DEF Noted, ListInv
<1>4. (~spoiled' => ~spoiled /\ ~Spoils) /\ (~strayed' => ~strayed)
  BY <1>2 DEF Noted
<1>5. ASSUME ~spoiled' PROVE Afresh'
  <2>1. Afresh /\ ~LostAnswer /\ ~OthersWrite
    BY <1>4, <1>5 DEF ListInv, Spoils, LostAnswer, Desks
  <2>2. (table' = table /\ Kept) \/ Pending'
    BY <2>1 DEF Harmless
  <2>3. QED
    BY <1>1, <1>3, <2>1, <2>2, HarmlessAfresh
<1>6. ~strayed' => Calm' /\ OnTheMap'
  <2>1. Calm => Calm'
    BY <1>1 DEF Calm, Quiet
  <2>2. QED
    BY <1>1, <1>4, <2>1, MapStays DEF ListInv
<1>7. QED
  BY <1>1, <1>3, <1>5, <1>6 DEF ListThen, ListInv

LEMMA ListStep ==
  ConsoleInv /\ ListInv /\ [Next /\ Noted]_<<vars, history>> => ListInv'
<1> SUFFICES ASSUME ConsoleInv, ListInv, [Next /\ Noted]_<<vars, history>> PROVE ListInv'
  OBVIOUS
<1>1. CASE UNCHANGED <<vars, history>>
  BY <1>1 DEF vars, history, ListInv, Afresh, Current, Pending, Calm, OnTheMap, Listed, This
<1>2. CASE Next /\ Noted
  <2> SUFFICES ASSUME page' # None PROVE ListThen
    BY DEF ListInv, ListThen
  <2>1. CASE Opens
    BY <1>2, <2>1, OpensStep
  <2>2. CASE ~Opens
    <3>1. page # None
      BY <1>2, <2>2, OnlyOpens
    <3>2. QED
      BY <1>2, <2>2, <3>1, StepKinds, BeginsStep, ReadsStep, EndsStep, HarmlessStep
  <2>3. QED
    BY <2>1, <2>2
<1>3. QED
  BY <1>1, <1>2

LEMMA ListByInvariant == ConsoleInv /\ ListInv => ListHonest
<1> SUFFICES ASSUME ConsoleInv, ListInv, page # None
             PROVE  /\ ~spoiled /\ Calls = {} =>
                         page.answer = [ask |-> page.ask, rows |-> Listed(page.ask.filter)]
                    /\ ~strayed => OnTheMap
  BY DEF ListHonest, OnTheMap
<1>1. ASSUME ~spoiled, Calls = {}
      PROVE  page.answer = [ask |-> page.ask, rows |-> Listed(page.ask.filter)]
  <2>1. /\ \A l \in Slots : page.loads[l] = None
        /\ \A c \in Desks : page.commands[c] = None
    BY <1>1, CallsHere, NoCalls
  <2>2. newest = {} /\ ~Pending
    BY <2>1 DEF ListInv, Pending
  <2>3. /\ page.answer # None /\ page.answer.ask = page.ask
        /\ page.answer.rows = Listed(page.ask.filter)
    BY <1>1, <2>1, <2>2 DEF ListInv, Afresh, Current
  <2>4. page.answer \in Answers
    BY <2>3, PageTyped DEF PageStates
  <2>5. QED
    BY <2>3, <2>4 DEF Answers
<1>2. QED
  BY <1>1 DEF ListInv

(* content/page.tsx:50-94, links/page.tsx:35-60, audit/page.tsx:40-60,              *)
(* DriveBrowser.tsx:37-75: however many loads and commands overlap, a page that waits *)
(* for nothing shows the server's rows for what it asks for, unless answers came in *)
(* the wrong order, the last load failed, the answer to a command was lost, somebody *)
(* else wrote, or the last load was that of a command pressed before the page asked *)
(* for something else; and if loads never overlapped, failed or asked for something *)
(* else, the number and the path that the page asks for exist.                    *)
THEOREM ListStaysHonest == NotedSpec \/ HistorySpec => []ListHonest
<1>1. HistoryInit => ListInv
  BY DEF HistoryInit, Init, ListInv
<1>2. NotedSpec => []ListHonest
  BY <1>1, HistorySound, ListStep, ListByInvariant, PTL DEF NotedSpec
<1>3. QED
  BY <1>2, HistoryIsNoted, PTL
=============================================================================
