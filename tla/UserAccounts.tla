---------------------------- MODULE UserAccounts ----------------------------
(***************************************************************************)
(* Who may administer the system: the users, their roles and credentials   *)
(* (backend/src/services/user.service.ts), the check of a request's        *)
(* identity and permissions (middleware/auth.middleware.ts), and the boot  *)
(* of a process (server.ts, bootstrap/), which seeds the roles again and   *)
(* ensures the bootstrap administrator.                                    *)
(*                                                                         *)
(* A request is judged once, when it arrives; what it decided is written   *)
(* some awaits later.  Processes boot while others serve, and a boot may   *)
(* stop anywhere.  Each user is named by the email, which is unique.       *)
(***************************************************************************)
EXTENDS Permissions, Integers, FiniteSets, Sequences

CONSTANTS
  Users, Bootstrap,  \* emails; the one of BOOTSTRAP_SUPER_ADMIN_EMAIL
  Requests,          \* slots for requests in flight
  Processes,
  Obsolete,          \* permissions that roles had in an earlier build
  Bodies,            \* bound: the changes that are asked for
  None               \* no user, no row

ASSUME BootstrapAssumption == Bootstrap \in Users /\ None \notin Users \cup Roles
ASSUME RequestsAssumption == IsFiniteSet(Requests)

SeedOrder == <<"SUPER_ADMIN", "CONTENT_MANAGER", "READ_ONLY">>

Undefined == "undefined"   \* a field that the request body leaves out
Changes ==
  [kind : {"create"}, role : Roles, status : {Undefined}]
    \cup [kind : {"update"}, role : Roles \cup {Undefined},
          status : {"ACTIVE", "SUSPENDED", Undefined}]
    \cup [kind : {"remove", "password"}, role : {Undefined}, status : {Undefined}]

ASSUME BodiesAssumption == Bodies \subseteq Changes

VARIABLES
  role,        \* the users' rows: None where there is no row
  status,
  credential,  \* the users who have a password, and so can sign in
  grants,      \* role -> its permissions in the table; None without a row
  boot,        \* per process: the step of main() it is at
  request      \* per slot: the request being handled, or None

identity == <<role, status, credential>>
vars == <<identity, grants, boot, request>>

Seeding == {<<step, i>> : step \in {"role", "clear", "grant"}, i \in DOMAIN SeedOrder}
Ensuring == {<<step, 0>> : step \in {"find", "create", "promote", "account", "newAccount", "reset"}}
Down == <<"down", 0>>
Up == <<"up", 0>>

InFlight ==
  [actor : Users, target : Users, change : Bodies,
   at : {"find", "write", "look", "addAccount", "setAccount"}]

TypeOK ==
  /\ role \in [Users -> Roles \cup {None}]
  /\ status \in [Users -> {"ACTIVE", "SUSPENDED"}]
  /\ credential \subseteq {u \in Users : role[u] # None}
  /\ grants \in [Roles -> (SUBSET (AllPermissions \cup Obsolete)) \cup {None}]
  /\ boot \in [Processes -> {Down, Up} \cup Seeding \cup Ensuring]
  /\ request \in [Requests -> InFlight \cup {None}]

(* A new database, or one that an earlier build seeded and nobody was added to.  *)
Init ==
  /\ role = [u \in Users |-> None]
  /\ status = [u \in Users |-> "ACTIVE"]
  /\ credential = {}
  /\ \/ grants = [r \in Roles |-> None]
     \/ grants = [r \in Roles |-> RolePermissions[r] \cup Obsolete]
  /\ boot = [p \in Processes |-> Down]
  /\ request = [r \in Requests |-> None]

-----------------------------------------------------------------------------
(* main(): the roles are seeded one after the other, then the bootstrap         *)
(* administrator is ensured, then the process listens.                          *)

At(p, step) == boot[p][1] = step
Step(p, step, i) == boot' = [boot EXCEPT ![p] = <<step, i>>]

(* The permissions are upserted first; nothing ever deletes one, so each boot   *)
(* finds all of them when it seeds the roles.                                   *)
Start(p) ==
  /\ At(p, "down")
  /\ Step(p, "role", 1)
  /\ UNCHANGED <<identity, grants, request>>

UpsertRole(p) ==
  /\ At(p, "role")
  /\ LET i == boot[p][2] IN
       /\ grants' = [grants EXCEPT ![SeedOrder[i]] = IF @ = None THEN {} ELSE @]
       /\ Step(p, "clear", i)
  /\ UNCHANGED <<identity, request>>

KeepPermissions(p) ==
  /\ At(p, "clear")
  /\ Step(p, "grant", boot[p][2])
  /\ UNCHANGED <<identity, grants, request>>

ClearPermissions(p) ==
  /\ At(p, "clear")
  /\ LET i == boot[p][2] IN
       /\ grants' = [grants EXCEPT ![SeedOrder[i]] = {}]
       /\ Step(p, "grant", i)
  /\ UNCHANGED <<identity, request>>

SeedsOneMore(i) == i <= Len(SeedOrder)
SeedsAnother(i) == i < Len(SeedOrder)

GrantedBefore(i) == IF i = 1 THEN {} ELSE RolePermissions[SeedOrder[i - 1]]
Granted(i) == RolePermissions[SeedOrder[i]]

GrantPermissions(p) ==
  /\ At(p, "grant")
  /\ LET i == boot[p][2] IN
       /\ grants' = [grants EXCEPT ![SeedOrder[i]] = @ \cup Granted(i)]
       /\ IF SeedsAnother(i) THEN Step(p, "role", i + 1) ELSE Step(p, "find", 0)
  /\ UNCHANGED <<identity, request>>

(* A bootstrap user who has the role is left as it is, suspended or not.        *)
FindBootstrap(p) ==
  /\ At(p, "find")
  /\ Step(p, IF role[Bootstrap] = None THEN "create"
             ELSE IF role[Bootstrap] = "SUPER_ADMIN" THEN "account" ELSE "promote", 0)
  /\ UNCHANGED <<identity, grants, request>>

(* The email is unique and an update needs its row: a boot that another writer  *)
(* overtook fails, and the process exits.                                       *)
StoreBootstrap(p) ==
  /\ \/ At(p, "create") /\ role[Bootstrap] = None
     \/ At(p, "promote") /\ role[Bootstrap] # None
  /\ role' = [role EXCEPT ![Bootstrap] = "SUPER_ADMIN"]
  /\ status' = [status EXCEPT ![Bootstrap] = "ACTIVE"]
  /\ Step(p, "account", 0)
  /\ UNCHANGED <<credential, grants, request>>

FindAccount(p) ==
  /\ At(p, "account")
  /\ Step(p, IF Bootstrap \notin credential THEN "newAccount" ELSE "reset", 0)
  /\ UNCHANGED <<identity, grants, request>>

StoreAccount(p) ==
  /\ role[Bootstrap] # None
  /\ \/ At(p, "newAccount") /\ Bootstrap \notin credential
     \/ At(p, "reset") /\ Bootstrap \in credential
  /\ credential' = credential \cup {Bootstrap}
  /\ boot' = [boot EXCEPT ![p] = Up]
  /\ UNCHANGED <<role, status, grants, request>>

(* A call of main() throws, or the process is stopped. *)
Stop(p) ==
  /\ ~At(p, "down")
  /\ boot' = [boot EXCEPT ![p] = Down]
  /\ UNCHANGED <<identity, grants, request>>

Seed(p) == UpsertRole(p) \/ ClearPermissions(p) \/ GrantPermissions(p)
Ensure(p) == FindBootstrap(p) \/ StoreBootstrap(p) \/ FindAccount(p) \/ StoreAccount(p)

-----------------------------------------------------------------------------
(* A request arrives: authenticate, then requirePermissions or requireRole.     *)
(* The session library signs in whoever has a credential, suspended or not.     *)

Serving == \E p \in Processes : boot[p] = Up

AnyUser(u) == u \in credential
ActiveUser(u) == u \in credential /\ status[u] = "ACTIVE"

Authorised(u, change) ==
  IF change.kind = "password" THEN role[u] = "SUPER_ADMIN"
  ELSE "user:manage" \in grants[role[u]]

(* The page shows no controls in the user's own row (users/page.tsx); of these  *)
(* operations the server itself refuses only the removal.                       *)
AllRows(u, target, change) == TRUE
OffersRow(u, target, change) == change.kind = "create" \/ target # u

Receive(r, u, target, change) ==
  /\ Serving /\ request[r] = None
  /\ ActiveUser(u) /\ Authorised(u, change)
  /\ OffersRow(u, target, change)
  /\ request' = [request EXCEPT ![r] =
       [actor |-> u, target |-> target, change |-> change, at |-> "find"]]
  /\ UNCHANGED <<identity, grants, boot>>

Goto(r, l) == request' = [request EXCEPT ![r].at = l]
Finish(r) == request' = [request EXCEPT ![r] = None]

(* findByEmail refuses an email in use, getById an id that is not.               *)
FindUser(r) ==
  /\ request[r] # None /\ request[r].at = "find"
  /\ LET q == request[r] IN
       IF (q.change.kind = "create") = (role[q.target] = None)
         THEN Goto(r, IF q.change.kind = "password" THEN "look" ELSE "write")
         ELSE Finish(r)
  /\ UNCHANGED <<identity, grants, boot>>

(* What the write finds may differ from what was found before: the unique email *)
(* refuses a second creation, an update or a removal needs its row.             *)
CreateUser(r) ==
  LET u == request[r].target IN
    /\ request[r].change.kind = "create" /\ role[u] = None
    /\ role' = [role EXCEPT ![u] = request[r].change.role]
    /\ status' = [status EXCEPT ![u] = "ACTIVE"]
    /\ Finish(r)
    /\ UNCHANGED <<credential, boot>>

UpdateUser(r) ==
  LET u == request[r].target
      given(field, old) == IF field = Undefined THEN old ELSE field
  IN  /\ request[r].change.kind = "update" /\ role[u] # None
      /\ role' = [role EXCEPT ![u] = given(request[r].change.role, @)]
      /\ status' = [status EXCEPT ![u] = given(request[r].change.status, @)]
      /\ Finish(r)
      /\ UNCHANGED <<credential, boot>>

(* One transaction.  Whoever else holds the id of the row, a request or a boot,  *)
(* can only fail from now on, even if the email is used again; he ends here.     *)
RemoveUser(r) ==
  LET u == request[r].target
      holdsId(q) == request[q].target = u /\ request[q].change.kind # "create"
  IN  /\ request[r].change.kind = "remove" /\ role[u] # None
      /\ role' = [role EXCEPT ![u] = None]
      /\ credential' = credential \ {u}
      /\ request' = [q \in Requests |->
           IF q = r \/ (request[q] # None /\ holdsId(q)) THEN None ELSE request[q]]
      /\ boot' = [p \in Processes |->
           IF u = Bootstrap /\ boot[p][1] \in {"promote", "account", "newAccount", "reset"}
             THEN Down ELSE boot[p]]
      /\ UNCHANGED status

WriteUser(r) ==
  /\ request[r] # None /\ request[r].at = "write"
  /\ CreateUser(r) \/ UpdateUser(r) \/ RemoveUser(r)
  /\ UNCHANGED grants

FindCredential(r) ==
  /\ request[r] # None /\ request[r].at = "look"
  /\ Goto(r, IF request[r].target \notin credential THEN "addAccount" ELSE "setAccount")
  /\ UNCHANGED <<identity, grants, boot>>

(* One credential a user: the accounts are unique, so the second creation fails.*)
StoreCredential(r) ==
  /\ request[r] # None
  /\ LET u == request[r].target IN
       /\ role[u] # None
       /\ \/ request[r].at = "addAccount" /\ u \notin credential
          \/ request[r].at = "setAccount" /\ u \in credential
       /\ credential' = credential \cup {u}
  /\ Finish(r)
  /\ UNCHANGED <<role, status, grants, boot>>

(* A call fails, as a creation does that was overtaken, or the process stops.    *)
Fail(r) ==
  /\ request[r] # None
  /\ Finish(r)
  /\ UNCHANGED <<identity, grants, boot>>

-----------------------------------------------------------------------------
Administer(r) ==
  \/ \E u, target \in Users, change \in Bodies : Receive(r, u, target, change)
  \/ FindUser(r) \/ WriteUser(r) \/ FindCredential(r) \/ StoreCredential(r) \/ Fail(r)

Next ==
  \/ \E p \in Processes : Start(p) \/ Seed(p) \/ Ensure(p) \/ Stop(p)
  \/ \E r \in Requests : Administer(r)

Spec == Init /\ [][Next]_vars

(* A process that is down is started again, and main() goes on when a call       *)
(* answers.                                                                     *)
Booted == \A p \in Processes : WF_vars(Start(p)) /\ WF_vars(Seed(p))
FairSpec == Spec /\ Booted

-----------------------------------------------------------------------------
(* ensureCoreSeed.ts: while a process serves, no role keeps a permission of an   *)
(* earlier build and none is granted in part, however boots overlap or stop: a  *)
(* role has what config/permissions.ts gives it or, while a boot has cleared it *)
(* and not granted it again, nothing.                                           *)
GrantsWhole == Serving => \A r \in Roles : grants[r] \in {{}, RolePermissions[r]}

(* server.ts boots before it serves: once processes are no longer stopped, a     *)
(* role that an interrupted boot left without permissions does not stay so.     *)
Undisturbed == <>[][\A p \in Processes : ~Stop(p)]_vars

GrantsRestored ==
  Undisturbed => \A r \in Roles : grants[r] = {} ~> grants[r] = RolePermissions[r]

(* The bound of a suspension or a removal: nothing more that the user asks for   *)
(* is let in, although the session may still be there; what was let in before   *)
(* may still be carried out.                                                    *)
Asked(u) == {r \in Requests : request[r] # None /\ request[r].actor = u}

Inactive(u) == role[u] = None \/ status[u] = "SUSPENDED"

SuspensionDrains ==
  [][\A u \in Users : Inactive(u) /\ Inactive(u)' => Asked(u)' \subseteq Asked(u)]_vars
=============================================================================
