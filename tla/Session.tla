------------------------------ MODULE Session ------------------------------
(***************************************************************************)
(* Who the browser shows as signed in (frontend lib/auth.tsx) and where it *)
(* therefore is: the login page (app/login, components/auth/AuthScreen) or *)
(* the console behind AppShell.  The cookie belongs to the session         *)
(* library; what the page knows of it are the answers of GET /me, which    *)
(* may fail and overtake each other.                                       *)
(***************************************************************************)
EXTENDS Integers

CONSTANTS
  Users,  \* who may sign in
  None    \* nobody, nothing asked

ASSUME NobodyAssumption == None \notin Users

VARIABLES
  cookie,    \* whose session the cookie is
  user,      \* AuthProvider: the user shown
  checking,  \* AuthProvider: loading, until the first /me has ended
  asks,      \* the calls of /me in flight, and what the server answered
  at,        \* the path: "root", "login" or "app"
  form       \* the login page's handler

sessionVars == <<cookie, user, checking, asks, at, form>>

Callers == {"mount", "refresh"}   \* AuthProvider's effect, handleLogin
Places == {"root", "login", "app"}

SessionTypeOK ==
  /\ cookie \in Users \cup {None}
  /\ user \in Users \cup {None}
  /\ checking \in BOOLEAN
  /\ asks \in [Callers -> {[answer |-> "none"], [answer |-> "sent"]}
                            \cup [answer : {"me"}, who : Users \cup {None}]]
  /\ at \in Places
  /\ form \in {"idle", "signing", "refreshing"}

NotAsked == [answer |-> "none"]
Sent == [answer |-> "sent"]
Asked == [c \in Callers |-> IF c = "mount" THEN Sent ELSE NotAsked]
InFlight(c) == asks[c] # NotAsked

SessionInit ==
  /\ cookie \in Users \cup {None}
  /\ user = None /\ checking = TRUE /\ asks = Asked
  /\ at \in Places /\ form = "idle"

-----------------------------------------------------------------------------
(* A page is loaded: a link is followed into the site, or it is reloaded.        *)
LoadAt(place) ==
  /\ user' = None /\ checking' = TRUE /\ asks' = Asked
  /\ at' = place /\ form' = "idle"

Visit(place) == LoadAt(place) /\ UNCHANGED cookie

(* The server answers with the user of the cookie. *)
AnswerMe(c) ==
  /\ asks[c] = Sent
  /\ asks' = [asks EXCEPT ![c] = [answer |-> "me", who |-> cookie]]
  /\ UNCHANGED <<cookie, user, checking, at, form>>

(* load: whatever goes wrong, nobody is shown as signed in; handleLogin then     *)
(* goes on to the console either way.                                           *)
Show(c, who) ==
  /\ InFlight(c)
  /\ user' = who /\ checking' = FALSE
  /\ asks' = [asks EXCEPT ![c] = NotAsked]
  /\ IF c = "refresh" THEN at' = "app" /\ form' = "idle" ELSE UNCHANGED <<at, form>>
  /\ UNCHANGED cookie

MeArrives(c) == asks[c].answer = "me" /\ Show(c, asks[c].who)
MeFails(c) == Show(c, None)

-----------------------------------------------------------------------------
(* submitAuthForm disables the button until handleLogin has ended. *)
PressSignIn ==
  /\ at = "login" /\ form = "idle"
  /\ form' = "signing"
  /\ UNCHANGED <<cookie, user, checking, asks, at>>

EnterUnasked ==
  /\ at' = "app" /\ form' = "idle"
  /\ UNCHANGED asks
Refresh ==
  /\ form' = "refreshing" /\ asks' = [asks EXCEPT !["refresh"] = Sent]
  /\ UNCHANGED at

SignedIn(u) ==
  /\ form = "signing"
  /\ cookie' = u
  /\ Refresh
  /\ UNCHANGED <<user, checking>>

(* Refused, or the answer was lost after the session had been opened. *)
SignInFails(opened) ==
  /\ form = "signing"
  /\ cookie' \in {cookie, opened}
  /\ form' = "idle"
  /\ UNCHANGED <<user, checking, asks, at>>

(* The browser leaves for Google and comes back at the console, or here. *)
SignInWithGoogle ==
  /\ at = "login"
  /\ \/ cookie' \in Users /\ LoadAt("app")
     \/ LoadAt("login") /\ UNCHANGED cookie

(* logout: a failure of the call is swallowed, the user is gone from the screen. *)
SignOut(ended) ==
  /\ at = "app" /\ user # None
  /\ cookie' = IF ended THEN None ELSE cookie
  /\ user' = None /\ at' = "login"
  /\ UNCHANGED <<checking, asks, form>>

(* The session runs out or is ended on the server; no page is told. *)
Expire ==
  /\ cookie # None
  /\ cookie' = None
  /\ UNCHANGED <<user, checking, asks, at, form>>

-----------------------------------------------------------------------------
(* The effects that move the browser. *)
RedirectIfAuthenticated == at = "login" /\ user # None /\ at' = "app"
LeaveApp == at = "app" /\ ~checking /\ user = None /\ at' = "login"
LeaveHome ==
  /\ at = "root" /\ ~checking
  /\ at' = IF user = None THEN "login" ELSE "app"

Redirect ==
  /\ RedirectIfAuthenticated \/ LeaveApp \/ LeaveHome
  /\ UNCHANGED <<cookie, user, checking, asks, form>>

(* AppShell renders its pages for a known user only. *)
Inside == at = "app" /\ ~checking /\ user # None

-----------------------------------------------------------------------------
Browse ==
  \/ \E place \in Places : Visit(place)
  \/ PressSignIn \/ SignInWithGoogle
  \/ \E ended \in BOOLEAN : SignOut(ended)
  \/ Expire

EndSignIn == \E u \in Users : SignedIn(u) \/ SignInFails(u)

Proceed ==
  \/ \E c \in Callers : AnswerMe(c) \/ MeArrives(c) \/ MeFails(c)
  \/ EndSignIn \/ Redirect
=============================================================================
