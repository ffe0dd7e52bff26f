----------------------------- MODULE MCConsole -----------------------------
(* Instances of Console for TLC, with a history of what went wrong or overlapped. *)
EXTENDS Console, FiniteSets, TLC

CONSTANTS admin, reader, root, outer, inner

MCRoleOf == (admin :> "SUPER_ADMIN") @@ (reader :> "READ_ONLY")
MCTotal == [all |-> 2, action |-> 1]
MCChildren == (root :> {outer}) @@ (outer :> {inner}) @@ (inner :> {})

VARIABLES
  newest,   \* the load that began last, as long as it is under way
  spoiled,  \* whether the open page's list may be behind
  strayed,  \* whether, since it was opened, loads of the page overlapped, failed or asked
            \* for something else than the page
  doubt     \* whether the user shown may be wrong

history == <<newest, spoiled, strayed, doubt>>

HistoryInit == Init /\ newest = {} /\ spoiled = FALSE /\ strayed = FALSE /\ doubt = FALSE

Calls == {<<"load", l>> : l \in {l \in 1 .. MaxLoads : page.loads[l] # None}}
           \cup {<<"command", c>> : c \in {c \in 1 .. MaxCommands : page.commands[c] # None}}

Opens == \E n \in Names : OpenPage(n)
Begun ==
  IF Opens THEN {1}
  ELSE {l \in 1 .. MaxLoads : page.loads[l] = None /\ page'.loads[l] # None}

Overlap == \E k, l \in 1 .. MaxLoads : k # l /\ page'.loads[k] # None /\ page'.loads[l] # None
Astray == \E l \in Begun : page'.loads[l].ask # page'.ask

(* An answer comes after that of a later load, the last load fails, a command is   *)
(* carried out and its answer is lost, or somebody else writes.                  *)
Spoils ==
  \/ \E l \in 1 .. MaxLoads :
       \/ Arrives(l) /\ newest = {}
       \/ LoadFails(l) /\ newest \subseteq {l}
  \/ \E c \in 1 .. MaxCommands :
       page.commands[c] # None /\ page.commands[c].stage = "done" /\ CommandFails(c)
  \/ OthersWrite

Doubts ==
  \/ \A c \in Callers : asks'[c] # NotAsked
  \/ cookie # None /\ (SignOut(FALSE) \/ \E c \in Callers : MeFails(c))
  \/ \E u \in Users : SignInFails(u) /\ cookie' # cookie

Noted ==
  /\ newest' = IF page' = None THEN {}
               ELSE IF Begun # {} THEN Begun ELSE {l \in newest : page'.loads[l] # None}
  /\ spoiled' = (page' # None /\ IF Begun # {} THEN Astray ELSE spoiled \/ Spoils)
  /\ strayed' =
       (page' # None /\ ~Opens /\
          (strayed \/ Overlap \/ Astray \/ \E l \in 1 .. MaxLoads : LoadFails(l)))
  /\ doubt' = (Doubts \/ (doubt /\ asks' # Asked))

(* Bounds: a page is opened, and somebody else writes, while no call is in flight, *)
(* of calls of a page there are at most two at once, and two commands only if     *)
(* modals sent both, and a session runs out while no page is open.               *)
Bounded ==
  /\ Opens =>
       /\ ~doubt /\ cookie = user /\ form = "idle" /\ \A c \in Callers : asks[c] = NotAsked
       /\ page # None => Calls = {}
  /\ page # None /\ OthersWrite => Calls = {}
  /\ page' # None =>
       /\ Cardinality(Calls') <= 2
       /\ FreeCommands' = {} => \A c \in 1 .. MaxCommands : page'.commands[c].from # "row"
  /\ Expire => page = None

HistorySpec ==
  HistoryInit /\ [][Next /\ Bounded /\ Noted]_<<vars, history>> /\ Ends

-----------------------------------------------------------------------------
(* content/page.tsx:50-94, links/page.tsx:35-60, audit/page.tsx:40-60,           *)
(* DriveBrowser.tsx:37-75 and the like: however loads and commands overlap, a    *)
(* page that waits for nothing shows the server's rows for what it asks for. The *)
(* exceptions, until a load begins that is right: answers that came in the wrong  *)
(* order, a last load that failed, a lost answer to a command, somebody else's    *)
(* write, and the load after a command, which asks for what the page asked for   *)
(* when the button was pressed.  If loads never overlapped, failed or asked for   *)
(* something else, the number and the path that the page asks for exist.         *)
RealPath(path) == \A i \in DOMAIN path : path[i] \in Children[Folder(SubSeq(path, 1, i - 1))]

ListHonest == page # None =>
  /\ ~spoiled /\ Calls = {} =>
       page.answer = [ask |-> page.ask, rows |-> Listed(page.ask.filter)]
  /\ ~strayed =>
       /\ page.name = "audit" => page.ask.number <= Total[page.ask.filter]
       /\ RealPath(page.ask.path)

(* content/page.tsx:270-279, links/page.tsx:142-152, users/page.tsx:140-158: what *)
(* is typed into a modal is lost only when the user closes it or when its call,  *)
(* or that of one like it which was closed while it was saving, has succeeded.   *)
ModalKept ==
  [][page # None /\ page' # None /\ page.modal # None /\ page'.modal = None =>
       \/ CloseModal
       \/ Opens
       \/ \E c \in 1 .. MaxCommands :
            /\ page.commands[c] # None /\ page'.commands[c] = None
            /\ page.commands[c].stage = "done" /\ page.commands[c].from # "row"]_vars

(* lib/auth.tsx:22-42, login/page.tsx:38-49: when nothing is under way, the user *)
(* shown is the one that is signed in, unless his session ended on the server,   *)
(* or since the site was loaded calls of /me overlapped, one of them or a sign-   *)
(* out failed while there was a session, or a failed sign-in changed the cookie. *)
SessionHonest ==
  ~doubt /\ form = "idle" /\ (\A c \in Callers : asks[c] = NotAsked) =>
    user = cookie \/ cookie = None

(* AppShell.tsx:35-45, AuthScreen.tsx:192-199, app/page.tsx:12-15 and every load's *)
(* "finally": once nobody does anything, the browser comes to rest, at the login  *)
(* page if and only if no user is known, and no page spins for ever.             *)
Undisturbed == <>[][~Act]_vars

Settles ==
  Undisturbed => <>[]((at = "app" <=> user # None) /\ (page # None => ~page.loading))
=============================================================================
