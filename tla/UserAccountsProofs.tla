------------------------- MODULE UserAccountsProofs -------------------------
(* What holds of the users, their roles and the boots that seed them, for every  *)
(* number of users, requests and processes and every set of obsolete permissions. *)
EXTENDS MCUserAccounts, FiniteSetTheorems, TLAPS

LEMMA SeedOrderFacts ==
  /\ SeedOrder \in [1 .. 3 -> Roles]
  /\ DOMAIN SeedOrder = 1 .. 3 /\ Len(SeedOrder) = 3
  /\ \A r \in Roles : \E j \in 1 .. 3 : SeedOrder[j] = r
  /\ \A i, j \in 1 .. 3 : SeedOrder[i] = SeedOrder[j] => i = j
  BY DEF SeedOrder, Roles

LEMMA PermissionsOfRoles == \A r \in Roles : RolePermissions[r] \in SUBSET AllPermissions
  BY DEF Roles, RolePermissions, AllPermissions

(* What the label of a process says of the rest of its place. *)
LEMMA PlaceOf ==
  ASSUME TypeOK, NEW p \in Processes
  PROVE  /\ boot[p][1] \in {"role", "clear", "grant"} => boot[p][2] \in 1 .. 3
         /\ boot[p][1] = "down" => boot[p] = Down
         /\ boot[p][1] = "up" => boot[p] = Up
         /\ boot[p][1] \in {"down", "up", "role", "clear", "grant",
                            "find", "create", "promote", "account", "newAccount", "reset"}
  BY SeedOrderFacts DEF TypeOK, Down, Up, Seeding, Ensuring

-----------------------------------------------------------------------------
(* The roles that no permission of an earlier build is left in and none is      *)
(* granted in part.                                                             *)
Clean(r) == grants[r] \in {{}, RolePermissions[r]}

(* What a boot knows at each of its steps: the role it works on has a row, and   *)
(* those before it are clean, this one once it has been cleared.                *)
Placed(p) ==
  /\ boot[p][1] \in {"clear", "grant"} =>
       grants[SeedOrder[boot[p][2]]] \in SUBSET (AllPermissions \cup Obsolete)
  /\ boot[p][1] \in {"role", "clear"} =>
       \A j \in 1 .. 3 : j < boot[p][2] => Clean(SeedOrder[j])
  /\ boot[p][1] = "grant" => \A j \in 1 .. 3 : j <= boot[p][2] => Clean(SeedOrder[j])
  /\ boot[p][1] \notin {"down", "role", "clear", "grant"} => \A r \in Roles : Clean(r)

SeedsInOrder == \A p \in Processes : Placed(p)

UsersInv == TypeOK /\ SeedsInOrder

LEMMA UsersInit == Init => UsersInv
<1>1. Init => TypeOK
  BY BootstrapAssumption DEF Init, TypeOK, RolePermissions, Roles, AllPermissions
<1>2. Init => SeedsInOrder
  BY DEF Init, SeedsInOrder, Placed, Down
<1>3. QED
  BY <1>1, <1>2 DEF UsersInv

(* Nothing makes a clean role unclean, however boots overlap. *)
LEMMA CleanStays ==
  ASSUME UsersInv, [Next]_vars, NEW r \in Roles, Clean(r)
  PROVE  Clean(r)'
<1> USE DEF UsersInv, Clean
<1>1. ASSUME NEW p \in Processes, UpsertRole(p) PROVE Clean(r)'
  BY <1>1, PlaceOf, SeedOrderFacts DEF UpsertRole, At, TypeOK
<1>2. ASSUME NEW p \in Processes, ClearPermissions(p) PROVE Clean(r)'
  BY <1>2, PlaceOf, SeedOrderFacts DEF ClearPermissions, At, TypeOK
<1>3. ASSUME NEW p \in Processes, GrantPermissions(p) PROVE Clean(r)'
  BY <1>3, PlaceOf, SeedOrderFacts DEF GrantPermissions, At, TypeOK, Granted, SeedsInOrder, Placed
<1>4. ASSUME UNCHANGED grants PROVE Clean(r)'
  BY <1>4
<1>5. QED
  BY <1>1, <1>2, <1>3, <1>4 DEF Next, vars, Start, Seed, Ensure, Stop, FindBootstrap,
     StoreBootstrap, FindAccount, StoreAccount, Administer, Receive, FindUser, WriteUser,
     FindCredential, StoreCredential, Fail

(* Nor is a role's row ever deleted. *)
LEMMA RowsStay ==
  ASSUME UsersInv, [Next]_vars, NEW r \in Roles,
         grants[r] \in SUBSET (AllPermissions \cup Obsolete)
  PROVE  (grants[r] \in SUBSET (AllPermissions \cup Obsolete))'
<1> USE DEF UsersInv
<1>1. ASSUME NEW p \in Processes, UpsertRole(p) PROVE grants'[r] \in SUBSET (AllPermissions \cup Obsolete)
  BY <1>1, PlaceOf, SeedOrderFacts DEF UpsertRole, At, TypeOK
<1>2. ASSUME NEW p \in Processes, ClearPermissions(p) PROVE grants'[r] \in SUBSET (AllPermissions \cup Obsolete)
  BY <1>2, PlaceOf, SeedOrderFacts DEF ClearPermissions, At, TypeOK
<1>3. ASSUME NEW p \in Processes, GrantPermissions(p) PROVE grants'[r] \in SUBSET (AllPermissions \cup Obsolete)
  BY <1>3, PlaceOf, SeedOrderFacts, PermissionsOfRoles DEF GrantPermissions, At, TypeOK, Granted
<1>4. ASSUME UNCHANGED grants PROVE grants'[r] \in SUBSET (AllPermissions \cup Obsolete)
  BY <1>4
<1>5. QED
  BY <1>1, <1>2, <1>3, <1>4 DEF Next, vars, Start, Seed, Ensure, Stop, FindBootstrap,
     StoreBootstrap, FindAccount, StoreAccount, Administer, Receive, FindUser, WriteUser,
     FindCredential, StoreCredential, Fail

LEMMA BootStep ==
  ASSUME UsersInv, NEW p \in Processes, Start(p) \/ Seed(p) \/ Ensure(p) \/ Stop(p)
  PROVE  UsersInv'
<1> USE PlaceOf, SeedOrderFacts DEF UsersInv, At, Step, identity, Seeding, Ensuring, Down, Up
<1>0. [Next]_vars
  BY DEF Next
<1>1. ASSUME Start(p) PROVE TypeOK'
  BY <1>1 DEF Start, TypeOK
<1>2. ASSUME UpsertRole(p) PROVE TypeOK'
  BY <1>2 DEF UpsertRole, TypeOK
<1>3. ASSUME ClearPermissions(p) PROVE TypeOK'
  BY <1>3 DEF ClearPermissions, TypeOK
<1>4. ASSUME GrantPermissions(p) PROVE TypeOK'
  <2>1. grants[SeedOrder[boot[p][2]]] \in SUBSET (AllPermissions \cup Obsolete)
    BY <1>4 DEF GrantPermissions, SeedsInOrder, Placed
  <2>2. grants' \in [Roles -> (SUBSET (AllPermissions \cup Obsolete)) \cup {None}]
    BY <1>4, <2>1, PermissionsOfRoles DEF GrantPermissions, TypeOK, Granted
  <2>3. boot' \in [Processes -> {Down, Up} \cup Seeding \cup Ensuring]
    BY <1>4 DEF GrantPermissions, TypeOK, SeedsAnother
  <2>4. QED
    BY <1>4, <2>2, <2>3 DEF GrantPermissions, TypeOK
<1>5. ASSUME Ensure(p) PROVE TypeOK'
  <2> USE DEF TypeOK
  <2>1. CASE FindBootstrap(p)
    BY <2>1 DEF FindBootstrap
  <2>2. CASE StoreBootstrap(p)
    BY <2>2, BootstrapAssumption DEF StoreBootstrap, Roles
  <2>3. CASE FindAccount(p)
    BY <2>3 DEF FindAccount
  <2>4. CASE StoreAccount(p)
    BY <2>4, BootstrapAssumption DEF StoreAccount
  <2>5. QED
    BY <1>5, <2>1, <2>2, <2>3, <2>4 DEF Ensure
<1>6. ASSUME Stop(p) PROVE TypeOK'
  BY <1>6 DEF Stop, TypeOK
<1>7. TypeOK'
  BY <1>1, <1>2, <1>3, <1>4, <1>5, <1>6 DEF Seed
<1>8. SeedsInOrder'
  <2>1. \A r \in Roles : Clean(r) => Clean(r)'
    BY <1>0, CleanStays
  <2>2. \A r \in Roles : grants[r] \in SUBSET (AllPermissions \cup Obsolete) =>
          (grants[r] \in SUBSET (AllPermissions \cup Obsolete))'
    BY <1>0, RowsStay
  <2>3. SUFFICES ASSUME NEW q \in Processes PROVE Placed(q)'
    BY DEF SeedsInOrder
  <2>4. CASE q # p
    <3>1. boot'[q] = boot[q]
      BY <2>4 DEF TypeOK, Start, Seed, UpsertRole, ClearPermissions, GrantPermissions, Ensure,
         FindBootstrap, StoreBootstrap, FindAccount, StoreAccount, Stop
    <3>2. boot[q][2] \in 1 .. 3 => SeedOrder[boot[q][2]] \in Roles
      OBVIOUS
    <3>3. QED
      BY <2>1, <2>2, <3>1, <3>2 DEF SeedsInOrder, Placed
  <2>5. CASE q = p
    <3> USE <2>5 DEF Placed
    <3>1. ASSUME Start(p) \/ Stop(p) PROVE Placed(q)'
      BY <3>1 DEF Start, Stop, TypeOK
    <3>2. ASSUME UpsertRole(p) PROVE Placed(q)'
      <4>1. grants'[SeedOrder[boot[p][2]]] \in SUBSET (AllPermissions \cup Obsolete)
        BY <3>2 DEF UpsertRole, TypeOK
      <4>2. boot'[p] = <<"clear", boot[p][2]>>
        BY <3>2 DEF UpsertRole, TypeOK
      <4>3. QED
        BY <2>1, <3>2, <4>1, <4>2 DEF UpsertRole, SeedsInOrder
    <3>3. ASSUME ClearPermissions(p) PROVE Placed(q)'
      <4>1. grants'[SeedOrder[boot[p][2]]] = {}
        BY <3>3 DEF ClearPermissions, TypeOK
      <4>2. boot'[p] = <<"grant", boot[p][2]>>
        BY <3>3 DEF ClearPermissions, TypeOK
      <4>3. QED
        BY <2>1, <3>3, <4>1, <4>2 DEF ClearPermissions, SeedsInOrder, Clean
    <3>4. ASSUME GrantPermissions(p) PROVE Placed(q)'
      <4>1. boot'[p] = IF boot[p][2] < 3 THEN <<"role", boot[p][2] + 1>> ELSE <<"find", 0>>
        BY <3>4 DEF GrantPermissions, TypeOK, SeedsAnother
      <4>2. \A j \in 1 .. 3 : j <= boot[p][2] => Clean(SeedOrder[j])'
        BY <2>1, <3>4 DEF GrantPermissions, SeedsInOrder, Placed
      <4>3. QED
        BY <3>4, <4>1, <4>2 DEF GrantPermissions
    <3>5. ASSUME Ensure(p) PROVE Placed(q)'
      <4>1. boot[p][1] \notin {"down", "role", "clear", "grant"}
        BY <3>5 DEF Ensure, FindBootstrap, StoreBootstrap, FindAccount, StoreAccount
      <4>2. boot'[p][1] \notin {"down", "role", "clear", "grant"}
        BY <3>5 DEF Ensure, FindBootstrap, StoreBootstrap, FindAccount, StoreAccount, TypeOK
      <4>3. QED
        BY <2>1, <4>1, <4>2 DEF SeedsInOrder
    <3>6. QED
      BY <3>1, <3>2, <3>3, <3>4, <3>5 DEF Seed
  <2>6. QED
    BY <2>4, <2>5
<1>9. QED
  BY <1>7, <1>8

LEMMA RequestStep ==
  ASSUME UsersInv, NEW r \in Requests, Administer(r)
  PROVE  UsersInv'
<1> USE DEF UsersInv, TypeOK, InFlight, identity, Goto, Finish
<1>1. ASSUME NEW u \in Users, NEW target \in Users, NEW change \in Bodies,
             Receive(r, u, target, change)
      PROVE  TypeOK'
  BY <1>1 DEF Receive
<1>2. ASSUME FindUser(r) PROVE TypeOK'
  BY <1>2 DEF FindUser
<1>3. ASSUME WriteUser(r) PROVE TypeOK'
  <2>1. request[r] \in InFlight /\ request[r].change \in Changes
    BY <1>3, BodiesAssumption DEF WriteUser
  <2>2. CASE CreateUser(r)
    BY <1>3, <2>1, <2>2, BootstrapAssumption DEF WriteUser, CreateUser, Changes
  <2>3. CASE UpdateUser(r)
    BY <1>3, <2>1, <2>3, BootstrapAssumption DEF WriteUser, UpdateUser, Changes, Undefined
  <2>4. CASE RemoveUser(r)
    BY <1>3, <2>1, <2>4, BootstrapAssumption DEF WriteUser, RemoveUser
  <2>5. QED
    BY <1>3, <2>2, <2>3, <2>4 DEF WriteUser
<1>4. ASSUME FindCredential(r) PROVE TypeOK'
  BY <1>4 DEF FindCredential
<1>5. ASSUME StoreCredential(r) PROVE TypeOK'
  BY <1>5 DEF StoreCredential
<1>6. ASSUME Fail(r) PROVE TypeOK'
  BY <1>6 DEF Fail
<1>7. TypeOK'
  BY <1>1, <1>2, <1>3, <1>4, <1>5, <1>6 DEF Administer
<1>8. UNCHANGED grants /\ \A p \in Processes : boot'[p] \in {boot[p], Down}
  BY DEF Administer, Receive, FindUser, WriteUser, CreateUser, UpdateUser, RemoveUser,
     FindCredential, StoreCredential, Fail
<1>9. SeedsInOrder'
  BY <1>8 DEF SeedsInOrder, Placed, Clean, Down
<1>10. QED
  BY <1>7, <1>9

LEMMA UsersStep == UsersInv /\ [Next]_vars => UsersInv'
<1> SUFFICES ASSUME UsersInv, [Next]_vars PROVE UsersInv'
  OBVIOUS
<1>1. CASE UNCHANGED vars
  BY <1>1 DEF vars, identity, UsersInv, TypeOK, SeedsInOrder, Placed, Clean
<1>2. QED
  BY <1>1, BootStep, RequestStep DEF Next

(* Every state of the users' tables, of the boots and of the requests is well    *)
(* formed: an account belongs to a user, a request carries a body that the       *)
(* schema admits, and a boot that clears or grants finds the row of the role.    *)
THEOREM UsersCorrect == Spec => []UsersInv
  BY UsersInit, UsersStep, PTL DEF Spec

(* The users, the roles, the requests and the boots keep their types, however many      *)
(* processes seed and requests overlap (ensureCoreSeed.ts, user.service.ts).       *)
THEOREM UsersTyped == Spec => []TypeOK
<1>1. UsersInv => TypeOK
  BY DEF UsersInv
<1>2. QED
  BY <1>1, UsersCorrect, PTL

(* ensureCoreSeed.ts: a process listens only after its own boot has gone through *)
(* all roles, and no other boot makes one unclean again: so while a process      *)
(* serves each role has its own permissions, or none.                           *)
THEOREM GrantsStayWhole == Spec => []GrantsWhole
<1>1. UsersInv => GrantsWhole
  BY DEF UsersInv, GrantsWhole, Serving, SeedsInOrder, Placed, Clean, Up
<1>2. QED
  BY <1>1, UsersCorrect, PTL

-----------------------------------------------------------------------------
(* What a request asks for, and who asked, does not change while it is handled.  *)
LEMMA AskersKept ==
  ASSUME TypeOK, NEW r \in Requests, NEW q \in Requests, request'[q] # None,
         FindUser(r) \/ FindCredential(r) \/ WriteUser(r) \/ StoreCredential(r) \/ Fail(r)
  PROVE  /\ request[q] # None
         /\ request'[q].actor = request[q].actor
         /\ request'[q].target = request[q].target
         /\ request'[q].change = request[q].change
<1>1. request \in [Requests -> InFlight \cup {None}]
  BY DEF TypeOK
<1>2. request[r] # None
  BY DEF FindUser, FindCredential, WriteUser, StoreCredential, Fail
<1>3. ASSUME NEW l, Goto(r, l)
      PROVE  /\ request[q] # None
             /\ request'[q].actor = request[q].actor
             /\ request'[q].target = request[q].target
             /\ request'[q].change = request[q].change
  BY <1>1, <1>2, <1>3 DEF Goto, InFlight
<1>4. ASSUME \A s \in Requests : request'[s] \in {request[s], None}
      PROVE  /\ request[q] # None
             /\ request'[q].actor = request[q].actor
             /\ request'[q].target = request[q].target
             /\ request'[q].change = request[q].change
  BY <1>4
<1>5. Finish(r) \/ RemoveUser(r) => \A s \in Requests : request'[s] \in {request[s], None}
  BY <1>1 DEF Finish, RemoveUser
<1>6. QED
  BY <1>3, <1>4, <1>5 DEF FindUser, FindCredential, WriteUser, CreateUser, UpdateUser,
     StoreCredential, Fail

(* requirePermissions and requireRole admit active users with a credential only, *)
(* and whoever has a credential has a row: after a suspension or a removal a     *)
(* user's requests can only become fewer.                                       *)
THEOREM SuspensionsDrain == Spec => SuspensionDrains
<1> DEFINE Drains == \A u \in Users : Inactive(u) /\ Inactive(u)' => Asked(u)' \subseteq Asked(u)
<1>1. ASSUME UsersInv, [Next]_vars, NEW u \in Users, Inactive(u)
      PROVE  Asked(u)' \subseteq Asked(u)
  <2>1. ASSUME NEW r \in Requests, NEW v \in Users, NEW target \in Users, NEW change \in Bodies,
               Receive(r, v, target, change)
        PROVE  Asked(u)' \subseteq Asked(u)
    <3>1. v # u
      BY <1>1, <2>1 DEF UsersInv, TypeOK, Receive, ActiveUser, Inactive
    <3>2. QED
      BY <2>1, <3>1 DEF UsersInv, TypeOK, Receive, Asked
  <2>2. ASSUME NEW r \in Requests,
               FindUser(r) \/ FindCredential(r) \/ WriteUser(r) \/ StoreCredential(r) \/ Fail(r)
        PROVE  Asked(u)' \subseteq Asked(u)
    BY <1>1, <2>2, AskersKept DEF UsersInv, Asked
  <2>3. ASSUME UNCHANGED request PROVE Asked(u)' \subseteq Asked(u)
    BY <2>3 DEF Asked
  <2>4. QED
    BY <1>1, <2>1, <2>2, <2>3 DEF Next, vars, Administer, Start, Seed, UpsertRole,
       ClearPermissions, GrantPermissions, Ensure, FindBootstrap, StoreBootstrap, FindAccount,
       StoreAccount, Stop
<1>2. UsersInv /\ [Next]_vars => [Drains]_vars
  BY <1>1
<1>3. QED
  BY <1>2, UsersCorrect, PTL DEF Spec, SuspensionDrains

-----------------------------------------------------------------------------
(* The last administrator.  MCUserAccounts notes whether requests overlapped and *)
(* bounds what is under way; the bound is not needed.                           *)
Notes == overlapped' = (overlapped \/ Cardinality(InHand') > 1)
NotedSpec == HistoryInit /\ [][Next /\ Notes]_<<vars, overlapped>>

(* Somebody manages, and whoever has asked for something manages and asked it of *)
(* another; or nobody has ever managed: no process serves yet and the first boot *)
(* to ensure the bootstrap administrator makes one.                             *)
Managed ==
  /\ \E u \in Users : CanManage(u)
  /\ \A r \in InHand :
       /\ CanManage(request[r].actor)
       /\ request[r].change.kind # "create" => request[r].target # request[r].actor

Unmanaged ==
  /\ ~Serving /\ InHand = {}
  /\ status[Bootstrap] = "ACTIVE" /\ role[Bootstrap] \in {None, "SUPER_ADMIN"}
  /\ \A p \in Processes :
       boot[p][1] \in {"account", "newAccount", "reset"} => role[Bootstrap] = "SUPER_ADMIN"

SerialInv ==
  ~overlapped => (\A q, r \in InHand : q = r) /\ (Managed \/ Unmanaged)

LEMMA TwoInHand ==
  ASSUME NEW S, IsFiniteSet(S), NEW a \in S, NEW b \in S, a # b
  PROVE  Cardinality(S) > 1
<1>1. IsFiniteSet({a}) /\ Cardinality({a}) = 1
  BY FS_Singleton
<1>2. IsFiniteSet({a, b}) /\ Cardinality({a, b}) = 2
  <2>1. {a, b} = {a} \cup {b} /\ b \notin {a}
    OBVIOUS
  <2>2. QED
    BY <1>1, <2>1, FS_AddElement
<1>3. Cardinality({a, b}) <= Cardinality(S) /\ Cardinality(S) \in Nat
  BY FS_Subset, FS_CardinalityType
<1>4. QED
  BY <1>2, <1>3

LEMMA SerialInit == HistoryInit => SerialInv
  BY BootstrapAssumption DEF HistoryInit, Init, SerialInv, Unmanaged, InHand, Serving, Down, Up

(* What Authorised comes to while a process serves. *)
LEMMA ManagersOnly ==
  ASSUME UsersInv, Serving, NEW u \in Users, NEW change, ActiveUser(u), Authorised(u, change)
  PROVE  CanManage(u)
<1>1. \A r \in Roles : Clean(r)
  BY DEF UsersInv, Serving, SeedsInOrder, Placed, Up
<1>2. role[u] \in Roles
  BY DEF UsersInv, TypeOK, ActiveUser
<1>3. "user:manage" \in RolePermissions[role[u]] => role[u] = "SUPER_ADMIN"
  BY <1>2 DEF Roles, RolePermissions, ViewPermissions, EditPermissions
<1>4. QED
  BY <1>1, <1>2, <1>3 DEF Authorised, ActiveUser, CanManage, Clean

LEMMA SerialBoot ==
  ASSUME UsersInv, SerialInv, ~overlapped, NEW p \in Processes,
         Start(p) \/ Seed(p) \/ Ensure(p) \/ Stop(p)
  PROVE  (\A q, r \in InHand' : q = r) /\ (Managed' \/ Unmanaged')
<1> USE DEF UsersInv, TypeOK, identity, At, Step
<1>1. InHand' = InHand /\ UNCHANGED request
  BY DEF InHand, Start, Seed, UpsertRole, ClearPermissions, GrantPermissions, Ensure,
     FindBootstrap, StoreBootstrap, FindAccount, StoreAccount, Stop
<1>2. \A u \in Users : CanManage(u) => CanManage(u)'
  BY DEF CanManage, Start, Seed, UpsertRole, ClearPermissions, GrantPermissions, Ensure,
     FindBootstrap, StoreBootstrap, FindAccount, StoreAccount, Stop
<1>3. CASE Managed
  BY <1>1, <1>2, <1>3 DEF SerialInv, Managed, InHand, InFlight
<1>4. CASE Unmanaged
  <2> USE <1>4 DEF Unmanaged
  <2>1. ASSUME StoreAccount(p) PROVE Managed'
    BY <2>1, <1>1, BootstrapAssumption DEF StoreAccount, Managed, CanManage
  <2>2. ASSUME Start(p) \/ Seed(p) \/ FindBootstrap(p) \/ StoreBootstrap(p) \/ FindAccount(p) \/ Stop(p)
        PROVE  Unmanaged'
    <3>1. /\ status'[Bootstrap] = "ACTIVE"
          /\ role'[Bootstrap] \in {role[Bootstrap], "SUPER_ADMIN"}
      BY <2>2, BootstrapAssumption DEF Start, Seed, UpsertRole, ClearPermissions, GrantPermissions,
         FindBootstrap, StoreBootstrap, FindAccount, Stop
    <3>2. \A q \in Processes : q # p => boot'[q] = boot[q]
      BY <2>2 DEF Start, Seed, UpsertRole, ClearPermissions, GrantPermissions,
         FindBootstrap, StoreBootstrap, FindAccount, Stop
    <3>3. boot'[p] # Up
      BY <2>2 DEF Start, Seed, UpsertRole, ClearPermissions, GrantPermissions,
         FindBootstrap, StoreBootstrap, FindAccount, Stop, Up, Down
    <3>4. boot'[p][1] \in {"account", "newAccount", "reset"} => role'[Bootstrap] = "SUPER_ADMIN"
      BY <2>2, BootstrapAssumption DEF Start, Seed, UpsertRole, ClearPermissions, GrantPermissions,
         FindBootstrap, StoreBootstrap, FindAccount, Stop, Up, Down
    <3>5. QED
      BY <1>1, <3>1, <3>2, <3>3, <3>4 DEF Serving
  <2>3. QED
    BY <1>1, <2>1, <2>2 DEF SerialInv, Ensure
<1>5. QED
  BY <1>3, <1>4 DEF SerialInv

LEMMA SerialRequest ==
  ASSUME UsersInv, SerialInv, ~overlapped, ~(Cardinality(InHand') > 1),
         NEW r \in Requests, Administer(r)
  PROVE  (\A q, s \in InHand' : q = s) /\ Managed'
<1> USE DEF UsersInv, TypeOK, InFlight, identity, Goto, Finish
<1>1. \A q, s \in InHand' : q = s
  <2>1. IsFiniteSet(InHand')
    BY RequestsAssumption, FS_Subset DEF InHand
  <2>2. QED
    BY <2>1, TwoInHand
<1>2. Managed'
  <2>1. ASSUME NEW u \in Users, NEW target \in Users, NEW change \in Bodies,
               Receive(r, u, target, change)
        PROVE  Managed'
    <3>1. CanManage(u)
      BY <2>1, ManagersOnly DEF Receive
    <3>2. Managed
      BY <2>1 DEF SerialInv, Unmanaged, Receive
    <3>3. UNCHANGED identity
      BY <2>1 DEF Receive
    <3>4. QED
      BY <2>1, <3>1, <3>2, <3>3 DEF Receive, Managed, InHand, CanManage, OffersRow
  <2>2. ASSUME request[r] # None, FindUser(r) \/ FindCredential(r) \/ Fail(r) PROVE Managed'
    <3>1. Managed
      BY <2>2 DEF SerialInv, Unmanaged, InHand
    <3>2. UNCHANGED identity
      BY <2>2 DEF FindUser, FindCredential, Fail
    <3>3. QED
      BY <2>2, <3>1, <3>2, AskersKept DEF Managed, InHand, CanManage
  <2>3. ASSUME request[r] # None, WriteUser(r) \/ StoreCredential(r) PROVE Managed'
    <3>1. Managed /\ \A q \in InHand : q = r
      BY <2>3 DEF SerialInv, Unmanaged, InHand
    <3>2. PICK u \in Users : u = request[r].actor
      BY <2>3
    <3>3. CanManage(u)'
      BY <2>3, <3>1, <3>2, BootstrapAssumption DEF WriteUser, CreateUser, UpdateUser, RemoveUser,
         StoreCredential, Managed, CanManage, InHand
    <3>4. InHand' = {}
      BY <2>3, <3>1 DEF WriteUser, CreateUser, UpdateUser, RemoveUser, StoreCredential, InHand
    <3>5. QED
      BY <3>3, <3>4 DEF Managed
  <2>4. QED
    BY <2>1, <2>2, <2>3 DEF Administer, FindUser, WriteUser, FindCredential, StoreCredential, Fail
<1>3. QED
  BY <1>1, <1>2

LEMMA SerialStep ==
  UsersInv /\ SerialInv /\ [Next /\ Notes]_<<vars, overlapped>> => SerialInv'
<1> SUFFICES ASSUME UsersInv, SerialInv, [Next /\ Notes]_<<vars, overlapped>>, ~overlapped'
             PROVE  (\A q, r \in InHand' : q = r) /\ (Managed' \/ Unmanaged')
  BY DEF SerialInv
<1>1. CASE UNCHANGED <<vars, overlapped>>
  BY <1>1 DEF vars, identity, SerialInv, Managed, Unmanaged, InHand, CanManage, Serving
<1>2. CASE Next /\ Notes
  <2>1. ~overlapped /\ ~(Cardinality(InHand') > 1)
    BY <1>2 DEF Notes
  <2>2. QED
    BY <1>2, <2>1, SerialBoot, SerialRequest DEF Next
<1>3. QED
  BY <1>1, <1>2

LEMMA ManagerLeft == NotedSpec => []ManagerLeftSerially
<1>1. SerialInv => ManagerLeftSerially
  BY DEF SerialInv, ManagerLeftSerially, Managed, Unmanaged
<1>2. HistoryInit => UsersInv
  BY UsersInit DEF HistoryInit
<1>3. UsersInv /\ [Next /\ Notes]_<<vars, overlapped>> => UsersInv'
  BY UsersStep DEF vars
<1>4. QED
  BY <1>1, <1>2, <1>3, SerialInit, SerialStep, PTL DEF NotedSpec

(* users/page.tsx offers nobody the controls of his own row, and a boot makes the *)
(* bootstrap administrator before its process serves: as long as requests come   *)
(* one at a time, somebody who may manage users and can sign in is left.         *)
THEOREM ManagerIsLeft == HistorySpec => []ManagerLeftSerially
<1>1. HistoryNext => Next /\ Notes
  BY DEF HistoryNext, Notes
<1>2. HistorySpec => NotedSpec
  BY <1>1, PTL DEF HistorySpec, NotedSpec
<1>3. QED
  BY <1>2, ManagerLeft, PTL
=============================================================================
