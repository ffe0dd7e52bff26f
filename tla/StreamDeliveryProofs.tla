------------------------ MODULE StreamDeliveryProofs ------------------------
(* What holds of the watch pages, the sessions they are granted and the ranges    *)
(* they are served, for every number of pages, requests and transfers.           *)
EXTENDS MCStreamDelivery, FiniteSetTheorems, TLAPS

(* What is known of an access request at each of its steps: the session it will   *)
(* answer with exists before it is counted, and is counted before it is granted. *)
AnswersCounted ==
  \A c \in Calls : call[c] # None =>
    /\ call[c].at = "count" => call[c].answer \in Keys /\ session[call[c].answer] # None
    /\ call[c].at = "grant" => call[c].answer \in views
    /\ call[c].at = "answer" => call[c].answer \in views \cup Codes

DeliveryInv == TypeOK /\ AnswersCounted

(* Whether a page has resolved its link is as it was. *)
SameStage(p) == page'[p].loading = page[p].loading /\ page'[p].resolved = page[p].resolved

Steps == {"read", "record", "count", "grant", "answer"}

-----------------------------------------------------------------------------
(* What the helpers change.                                                     *)

LEMMA GotoFacts ==
  ASSUME TypeOK, NEW c \in Calls, call[c] # None, NEW l \in Steps, Goto(c, l)
  PROVE  /\ call' \in [Calls -> Requests \cup {None}] /\ call'[c] # None
         /\ call'[c].at = l /\ call'[c].answer = call[c].answer /\ call'[c].page = call[c].page
         /\ \A d \in Calls : d # c => call'[d] = call[d]
<1>1. call[c] \in Requests /\ call \in [Calls -> Requests \cup {None}]
  BY DEF TypeOK
<1>2. [call[c] EXCEPT !.at = l] \in Requests
  BY <1>1 DEF Requests, Steps
<1>3. call' = [call EXCEPT ![c] = [call[c] EXCEPT !.at = l]]
  BY DEF Goto
<1>4. /\ [call[c] EXCEPT !.at = l].at = l
      /\ [call[c] EXCEPT !.at = l].answer = call[c].answer
      /\ [call[c] EXCEPT !.at = l].page = call[c].page
  BY <1>1 DEF Requests
<1>5. QED
  BY <1>1, <1>2, <1>3, <1>4, DeliveryAssumption

LEMMA AnswerFacts ==
  ASSUME TypeOK, NEW c \in Calls, call[c] # None, NEW l \in Steps,
         NEW a \in Keys \cup Codes,
         call' = [call EXCEPT ![c].at = l, ![c].answer = a]
  PROVE  /\ call' \in [Calls -> Requests \cup {None}] /\ call'[c] # None
         /\ call'[c].at = l /\ call'[c].answer = a /\ call'[c].page = call[c].page
         /\ \A d \in Calls : d # c => call'[d] = call[d]
<1> DEFINE now == [call[c] EXCEPT !.at = l, !.answer = a]
<1>1. call[c] \in Requests /\ call \in [Calls -> Requests \cup {None}]
  BY DEF TypeOK
<1>2. now \in Requests
  BY <1>1 DEF Requests, Steps
<1>3. call' = [call EXCEPT ![c] = now]
  BY <1>1
<1>4. now.at = l /\ now.answer = a /\ now.page = call[c].page
  BY <1>1 DEF Requests
<1> HIDE DEF now
<1>5. QED
  BY <1>1, <1>2, <1>3, <1>4, DeliveryAssumption

LEMMA DropFacts ==
  ASSUME TypeOK, NEW c \in Calls, call' = [call EXCEPT ![c] = None]
  PROVE  /\ call' \in [Calls -> Requests \cup {None}] /\ call'[c] = None
         /\ \A d \in Calls : d # c => call'[d] = call[d]
  BY DEF TypeOK

LEMMA SendFacts ==
  ASSUME TypeOK, NEW p \in Pages, NEW w \in Windows, NEW right \in BOOLEAN, Send(p, w, right)
  PROVE  /\ page' \in [Pages -> Windows]
         /\ page'[p].key = w.key /\ page'[p].loading = w.loading /\ page'[p].resolved = w.resolved
         /\ \A q \in Pages : q # p => page'[q] = page[q]
         /\ call' \in [Calls -> Requests \cup {None}]
         /\ \E c \in Calls :
              /\ call[c] = None /\ call'[c] # None /\ call'[c].at = "read"
              /\ call'[c].page = p
              /\ \A d \in Calls : d # c => call'[d] = call[d]
<1> DEFINE now == [w EXCEPT !.requesting = TRUE, !.error = None]
<1>1. /\ now \in Windows
      /\ now.key = w.key /\ now.loading = w.loading /\ now.resolved = w.resolved
  BY DEF Windows
<1>2. page' = [page EXCEPT ![p] = now] /\ page \in [Pages -> Windows]
  BY DEF Send, TypeOK
<1> HIDE DEF now
<1> DEFINE asked == [page |-> p, right |-> right, at |-> "read", answer |-> None]
<1>3. asked \in Requests /\ asked.at = "read" /\ asked.page = p
  BY DEF Requests
<1>4. PICK c \in Calls : call[c] = None /\ call' = [call EXCEPT ![c] = asked]
  BY DEF Send
<1>5. call \in [Calls -> Requests \cup {None}] /\ asked # None
  BY <1>3, DeliveryAssumption DEF TypeOK
<1> HIDE DEF asked
<1>6. /\ page' \in [Pages -> Windows]
      /\ page'[p].key = w.key /\ page'[p].loading = w.loading /\ page'[p].resolved = w.resolved
      /\ \A q \in Pages : q # p => page'[q] = page[q]
  BY <1>1, <1>2
<1>7. call' \in [Calls -> Requests \cup {None}] /\ call'[c] = asked
  BY <1>3, <1>4, <1>5
<1>8. \A d \in Calls : d # c => call'[d] = call[d]
  BY <1>4, <1>5
<1>9. QED
  BY <1>3, <1>4, <1>5, <1>6, <1>7, <1>8

LEMMA ShowErrorFacts ==
  ASSUME TypeOK, NEW c \in Calls, call[c] # None, NEW code \in Codes, ShowError(c, code)
  PROVE  /\ page' \in [Pages -> Windows]
         /\ \A p \in Pages : page'[p].key = page[p].key /\ SameStage(p)
<1> DEFINE p == call[c].page
<1> DEFINE now == [page[p] EXCEPT !.requesting = FALSE, !.error = code]
<1>1. p \in Pages /\ page \in [Pages -> Windows]
  BY DEF TypeOK, Requests
<1>2. page[p] \in Windows
  BY <1>1
<1>3. /\ now \in Windows /\ now.key = page[p].key
      /\ now.loading = page[p].loading /\ now.resolved = page[p].resolved
  BY <1>2 DEF Windows
<1>4. page' = [page EXCEPT ![p] = now]
  BY <1>1, <1>2 DEF ShowError, Windows
<1> HIDE DEF now, p
<1>5. QED
  BY <1>1, <1>3, <1>4 DEF SameStage

LEMMA ShowContentFacts ==
  ASSUME TypeOK, NEW c \in Calls, call[c] # None, call[c].answer \in Keys, ShowContent(c)
  PROVE  /\ call[c].page \in Pages
         /\ page' \in [Pages -> Windows]
         /\ page'[call[c].page].key = call[c].answer
         /\ \A p \in Pages : p # call[c].page => page'[p] = page[p]
         /\ \A p \in Pages : SameStage(p)
<1> DEFINE p == call[c].page
<1> DEFINE k == call[c].answer
<1> DEFINE now == [page[p] EXCEPT !.requesting = FALSE, !.key = k, !.broken = FALSE]
<1>1. p \in Pages /\ page \in [Pages -> Windows]
  BY DEF TypeOK, Requests
<1>2. page[p] \in Windows
  BY <1>1
<1>3. /\ now \in Windows /\ now.key = k
      /\ now.loading = page[p].loading /\ now.resolved = page[p].resolved
  BY <1>2 DEF Windows
<1>4. page' = [page EXCEPT ![p] = now]
  BY <1>1, <1>2 DEF ShowContent, Windows
<1> HIDE DEF now, p, k
<1>5. QED
  BY <1>1, <1>3, <1>4 DEF p, k, SameStage

LEMMA BreakFacts ==
  ASSUME TypeOK, NEW t \in Transfers, transfer[t] # None, Break(t)
  PROVE  /\ page' \in [Pages -> Windows]
         /\ \A p \in Pages : page'[p].key = page[p].key /\ SameStage(p)
<1> DEFINE p == transfer[t].page
<1> DEFINE b == page[p].broken \/ (Plays /\ page[p].key = transfer[t].key)
<1> DEFINE now == [page[p] EXCEPT !.broken = b]
<1>1. p \in Pages /\ page \in [Pages -> Windows]
  BY DEF TypeOK, Ranges
<1>2. page[p] \in Windows /\ b \in BOOLEAN
  BY <1>1
<1> HIDE DEF b
<1>3. /\ now \in Windows /\ now.key = page[p].key
      /\ now.loading = page[p].loading /\ now.resolved = page[p].resolved
  BY <1>2 DEF Windows
<1>4. page' = [page EXCEPT ![p] = now]
  BY <1>1, <1>2 DEF Break, b
<1> HIDE DEF now, p
<1>5. QED
  BY <1>1, <1>3, <1>4 DEF SameStage

LEMMA MoveFacts ==
  ASSUME TypeOK, NEW t \in Transfers, transfer[t] # None,
         NEW l \in {"session", "link", "touch", "open", "piping"}, Move(t, l)
  PROVE  /\ transfer' \in [Transfers -> Ranges \cup {None}] /\ transfer'[t] # None
         /\ transfer'[t].at = l /\ transfer'[t].key = transfer[t].key
         /\ \A u \in Transfers : u # t => transfer'[u] = transfer[u]
<1> DEFINE now == [transfer[t] EXCEPT !.at = l]
<1>1. transfer[t] \in Ranges /\ transfer \in [Transfers -> Ranges \cup {None}]
  BY DEF TypeOK
<1>2. now \in Ranges /\ now.at = l /\ now.key = transfer[t].key
  BY <1>1 DEF Ranges
<1>3. transfer' = [transfer EXCEPT ![t] = now]
  BY DEF Move
<1> HIDE DEF now
<1>4. QED
  BY <1>1, <1>2, <1>3, DeliveryAssumption

LEMMA CloseFacts ==
  ASSUME TypeOK, NEW t \in Transfers, Close(t)
  PROVE  /\ transfer' \in [Transfers -> Ranges \cup {None}] /\ transfer'[t] = None
         /\ \A u \in Transfers : u # t => transfer'[u] = transfer[u]
  BY DEF TypeOK, Close

LEMMA FetchFacts ==
  ASSUME TypeOK, NEW t \in Transfers, NEW p \in Pages, Fetch(t, p)
  PROVE  /\ transfer' \in [Transfers -> Ranges \cup {None}]
         /\ transfer'[t].at = "session" /\ transfer'[t].key \in views
         /\ \A u \in Transfers : u # t => transfer'[u] = transfer[u]
<1> DEFINE now == [page |-> p, key |-> page[p].key, at |-> "session"]
<1>1. page[p].key \in views /\ page[p].key \in Keys
  BY DEF TypeOK, Fetch
<1>2. now \in Ranges /\ now.at = "session" /\ now.key = page[p].key
  BY <1>1 DEF Ranges
<1>3. transfer' = [transfer EXCEPT ![t] = now] /\ transfer \in [Transfers -> Ranges \cup {None}]
  BY DEF Fetch, TypeOK
<1> HIDE DEF now
<1>4. QED
  BY <1>1, <1>2, <1>3

-----------------------------------------------------------------------------
(* Every step keeps the types and what the requests know.                        *)

LEMMA DeliveryInit == Init => DeliveryInv
<1> SUFFICES ASSUME Init PROVE DeliveryInv
  OBVIOUS
<1>1. page \in [Pages -> Windows] /\ \A p \in Pages : page[p].key = None
  BY DEF Init, Windows
<1>2. link \in [status : Statuses, overdue : BOOLEAN, locked : BOOLEAN]
  BY DEF Init, Statuses
<1>3. TypeOK
  BY <1>1, <1>2 DEF Init, TypeOK
<1>4. AnswersCounted
  BY DEF Init, AnswersCounted
<1>5. QED
  BY <1>3, <1>4 DEF DeliveryInv

LEMMA VisitStep ==
  ASSUME DeliveryInv, NEW p \in Pages, Visit(p)
  PROVE  DeliveryInv'
<1>1. ASSUME NEW w \in Windows, NEW right \in BOOLEAN, Send(p, w, right), w.key = page[p].key,
             UNCHANGED <<rows, transfer>>
      PROVE  DeliveryInv'
  <2>1. TypeOK'
    BY <1>1, SendFacts DEF DeliveryInv, TypeOK, rows
  <2>2. AnswersCounted'
    BY <1>1, SendFacts DEF DeliveryInv, AnswersCounted, rows
  <2>3. QED
    BY <2>1, <2>2 DEF DeliveryInv
<1>2. page[p] \in Windows
  BY DEF DeliveryInv, TypeOK
<1>3. ASSUME NEW w \in Windows, page' = [page EXCEPT ![p] = w], w.key = page[p].key,
             UNCHANGED <<rows, transfer, call>>
      PROVE  DeliveryInv'
  <2>1. page' \in [Pages -> Windows] /\ \A q \in Pages : page'[q].key = page[q].key
    BY <1>3 DEF DeliveryInv, TypeOK
  <2>2. QED
    BY <1>3, <2>1 DEF DeliveryInv, TypeOK, AnswersCounted, rows
<1>4. CASE Resolve(p)
  <2> DEFINE now == [status |-> Effective, locked |-> link.locked]
  <2> DEFINE w == [page[p] EXCEPT !.loading = FALSE, !.resolved = now]
  <2>1. now \in Resolutions
    BY DEF Resolutions, Effective, DeliveryInv, TypeOK, Statuses
  <2>2. w \in Windows /\ w.key = page[p].key
    BY <1>2, <2>1 DEF Windows
  <2>3. UNCHANGED <<rows, transfer>>
    BY <1>4 DEF Resolve
  <2>4. Send(p, w, FALSE) \/ (page' = [page EXCEPT ![p] = w] /\ UNCHANGED call)
    BY <1>4 DEF Resolve
  <2> HIDE DEF w, now
  <2>5. QED
    BY <1>1, <1>3, <2>2, <2>3, <2>4
<1>5. CASE ResolveFails(p)
  <2> DEFINE w == [page[p] EXCEPT !.loading = FALSE, !.error = "ERROR"]
  <2>1. w \in Windows /\ w.key = page[p].key
    BY <1>2 DEF Windows, Codes
  <2>2. page' = [page EXCEPT ![p] = w]
    BY <1>2, <1>5 DEF ResolveFails, Windows
  <2> HIDE DEF w
  <2>3. QED
    BY <1>3, <1>5, <2>1, <2>2 DEF ResolveFails
<1>6. ASSUME NEW right \in BOOLEAN, Unlock(p, right) \/ PressEnter(p, right)
      PROVE  DeliveryInv'
  BY <1>1, <1>2, <1>6 DEF Unlock, PressEnter
<1>7. QED
  BY <1>4, <1>5, <1>6 DEF Visit

LEMMA HandleStep ==
  ASSUME DeliveryInv, NEW c \in Calls, Handle(c)
  PROVE  DeliveryInv'
<1> USE DEF DeliveryInv, AnswersCounted, rows
<1>1. CASE ReadLink(c)
  <2>1. link' \in [status : Statuses, overdue : BOOLEAN, locked : BOOLEAN]
    BY <1>1 DEF ReadLink, TypeOK, Statuses
  <2>2. UNCHANGED <<fileType, session, views, live, transfer, page>> /\ call[c] # None
    BY <1>1 DEF ReadLink
  <2> DEFINE Judged ==
        /\ call' \in [Calls -> Requests \cup {None}]
        /\ \/ call'[c].at = "record"
           \/ call'[c].at = "answer" /\ call'[c].answer \in Codes
        /\ \A d \in Calls : d # c => call'[d] = call[d]
  <2>3. Judged
    <3>1. CASE Goto(c, "record")
      BY <2>2, <3>1, GotoFacts DEF Steps
    <3>2. ASSUME NEW a \in Codes, AnswerWith(c, a) PROVE Judged
      BY <2>2, <3>2, AnswerFacts DEF Steps, AnswerWith
    <3>3. StatusCode \in Codes \/ StatusCode = None
      BY DEF StatusCode, Codes, LinkCodes
    <3>4. "PASSWORD_REQUIRED" \in Codes /\ "RULE_BROKEN" \in Codes
      BY DEF Codes
    <3>5. QED
      BY <1>1, <3>1, <3>2, <3>3, <3>4 DEF ReadLink
  <2>4. TypeOK'
    BY <2>1, <2>2, <2>3 DEF TypeOK
  <2>5. QED
    BY <2>2, <2>3, <2>4
<1>2. CASE CreateSession(c)
  <2> DEFINE k == CHOOSE new \in Keys : session[new] = None
  <2>1. k \in Keys /\ session[k] = None
    BY <1>2 DEF CreateSession
  <2>2. /\ call[c] # None /\ call[c].at = "record"
        /\ session' = [session EXCEPT ![k] = "active"]
        /\ call' = [call EXCEPT ![c].at = "count", ![c].answer = k]
        /\ UNCHANGED <<link, fileType, views, live, transfer, page>>
    BY <1>2 DEF CreateSession
  <2> HIDE DEF k
  <2>3. /\ call' \in [Calls -> Requests \cup {None}]
        /\ call'[c].at = "count" /\ call'[c].answer = k
        /\ \A d \in Calls : d # c => call'[d] = call[d]
    BY <2>1, <2>2, AnswerFacts DEF Steps
  <2>4. /\ session' \in [Keys -> {None, "active", "ended"}]
        /\ session'[k] # None /\ \A j \in Keys : session[j] # None => session'[j] # None
    BY <2>1, <2>2, DeliveryAssumption DEF TypeOK
  <2>5. TypeOK'
    BY <2>2, <2>3, <2>4 DEF TypeOK
  <2>6. AnswersCounted'
    BY <2>1, <2>2, <2>3, <2>4
  <2>7. QED
    BY <2>5, <2>6
<1>3. CASE IncrementViewCount(c)
  <2>1. call[c] # None /\ call[c].at = "count" /\ call[c].answer \in Keys
        /\ session[call[c].answer] # None
    BY <1>3 DEF IncrementViewCount
  <2>2. views' = views \cup {call[c].answer} /\ Goto(c, "grant")
        /\ UNCHANGED <<link, fileType, session, live, transfer, page>>
    BY <1>3 DEF IncrementViewCount
  <2>3. /\ call' \in [Calls -> Requests \cup {None}]
        /\ call'[c].at = "grant" /\ call'[c].answer = call[c].answer
        /\ \A d \in Calls : d # c => call'[d] = call[d]
    BY <2>1, <2>2, GotoFacts DEF Steps
  <2>4. TypeOK'
    BY <2>1, <2>2, <2>3 DEF TypeOK
  <2>5. AnswersCounted'
    BY <2>2, <2>3
  <2>6. QED
    BY <2>4, <2>5
<1>4. CASE CreateStreamGrant(c)
  <2>1. call[c] # None /\ call[c].answer \in views
    BY <1>4 DEF CreateStreamGrant
  <2>2. live' = live \cup {call[c].answer} /\ Goto(c, "answer")
        /\ UNCHANGED <<link, fileType, session, views, transfer, page>>
    BY <1>4 DEF CreateStreamGrant
  <2>3. /\ call' \in [Calls -> Requests \cup {None}]
        /\ call'[c].at = "answer" /\ call'[c].answer = call[c].answer
        /\ \A d \in Calls : d # c => call'[d] = call[d]
    BY <2>1, <2>2, GotoFacts DEF Steps
  <2>4. TypeOK'
    BY <2>1, <2>2, <2>3 DEF TypeOK
  <2>5. AnswersCounted'
    BY <2>1, <2>2, <2>3
  <2>6. QED
    BY <2>4, <2>5
<1>5. CASE Fail(c)
  <2>1. call[c] # None /\ AnswerWith(c, "ERROR") /\ UNCHANGED <<rows, transfer, page>>
    BY <1>5 DEF Fail
  <2>2. "ERROR" \in Codes
    BY DEF Codes
  <2>3. /\ call' \in [Calls -> Requests \cup {None}]
        /\ call'[c].at = "answer" /\ call'[c].answer = "ERROR"
        /\ \A d \in Calls : d # c => call'[d] = call[d]
    BY <2>1, <2>2, AnswerFacts DEF Steps, AnswerWith
  <2>4. TypeOK'
    BY <2>1, <2>3 DEF TypeOK
  <2>5. AnswersCounted'
    BY <2>1, <2>2, <2>3
  <2>6. QED
    BY <2>4, <2>5
<1>6. QED
  BY <1>1, <1>2, <1>3, <1>4, <1>5 DEF Handle

LEMMA AnsweredStep ==
  ASSUME DeliveryInv, NEW c \in Calls, Receive(c) \/ LoseAnswer(c)
  PROVE  DeliveryInv'
<1> USE DEF DeliveryInv, AnswersCounted, rows
<1>1. /\ call[c] # None /\ call[c].at = "answer" /\ call[c].answer \in views \cup Codes
      /\ call' = [call EXCEPT ![c] = None] /\ UNCHANGED <<rows, transfer>>
  BY DEF Receive, LoseAnswer
<1>2. AnswersCounted'
  BY <1>1, DropFacts
<1>3. page' \in [Pages -> Windows] /\ \A p \in Pages : page'[p].key \in views \cup {None}
  <2>1. CASE \E code \in Codes : ShowError(c, code)
    BY <1>1, <2>1, ShowErrorFacts DEF TypeOK
  <2>2. CASE call[c].answer \in Keys /\ ShowContent(c)
    BY <1>1, <2>2, ShowContentFacts, DeliveryAssumption DEF TypeOK
  <2>3. QED
    BY <2>1, <2>2 DEF Receive, LoseAnswer, Refused, Codes
<1>4. TypeOK'
  BY <1>1, <1>3, DropFacts DEF TypeOK
<1>5. QED
  BY <1>2, <1>4

LEMMA StreamStep ==
  ASSUME DeliveryInv, NEW t \in Transfers,
         Stream(t) \/ \E p \in Pages : Fetch(t, p)
  PROVE  DeliveryInv'
<1> USE DEF DeliveryInv, AnswersCounted, rows
<1>1. CASE \E p \in Pages : Fetch(t, p)
  <2>1. UNCHANGED <<rows, call, page>>
    BY <1>1 DEF Fetch
  <2>2. QED
    BY <1>1, <2>1, FetchFacts DEF TypeOK
<1>2. CASE transfer[t] # None /\ Refuse(t)
  <2>1. Close(t) /\ Break(t) /\ UNCHANGED <<rows, call>>
    BY <1>2 DEF Refuse
  <2>2. QED
    BY <1>2, <2>1, CloseFacts, BreakFacts DEF TypeOK
<1>3. ASSUME NEW l \in {"session", "link", "touch", "open", "piping"}, transfer[t] # None,
             Move(t, l), UNCHANGED <<rows, call, page>>
      PROVE  DeliveryInv'
  BY <1>3, MoveFacts DEF TypeOK
<1>4. CASE Finish(t)
  <2>1. Close(t) /\ UNCHANGED <<rows, call, page>>
    BY <1>4 DEF Finish
  <2>2. QED
    BY <2>1, CloseFacts DEF TypeOK
<1>5. QED
  BY <1>1, <1>2, <1>3, <1>4 DEF Stream, FindSession, FindLink, Touch, StreamFile, BreakOff

LEMMA DeliveryStep == DeliveryInv /\ [Next]_vars => DeliveryInv'
<1> SUFFICES ASSUME DeliveryInv, [Next]_vars PROVE DeliveryInv'
  OBVIOUS
<1>1. CASE UNCHANGED vars
  BY <1>1 DEF DeliveryInv, AnswersCounted, TypeOK, vars, rows
<1>2. CASE ChangeLink
  <2>1. link' \in [status : Statuses, overdue : BOOLEAN, locked : BOOLEAN]
    BY <1>2 DEF ChangeLink, DeliveryInv, TypeOK
  <2>2. QED
    BY <1>2, <2>1 DEF ChangeLink, DeliveryInv, AnswersCounted, TypeOK
<1>3. ASSUME NEW k \in Keys, ExpireGrant(k) \/ EndSession(k) PROVE DeliveryInv'
  <2>1. CASE ExpireGrant(k)
    BY <2>1 DEF ExpireGrant, DeliveryInv, AnswersCounted, TypeOK
  <2>2. CASE EndSession(k)
    <3>1. /\ session' \in [Keys -> {None, "active", "ended"}]
          /\ \A j \in Keys : session[j] # None => session'[j] # None
      BY <2>2, DeliveryAssumption DEF EndSession, DeliveryInv, TypeOK
    <3>2. QED
      BY <2>2, <3>1 DEF EndSession, DeliveryInv, AnswersCounted, TypeOK
  <2>3. QED
    BY <1>3, <2>1, <2>2
<1>4. QED
  BY <1>1, <1>2, <1>3, VisitStep, HandleStep, AnsweredStep, StreamStep DEF Next

-----------------------------------------------------------------------------
(* requestAccess counts a view before it signs its grant, and the page, the         *)
(* player and the proxy only ever hold sessions that were answered: for any      *)
(* number of pages, requests and transfers, nobody is shown what was not counted. *)
THEOREM DeliveryCorrect == Spec => []DeliveryInv
<1>1. QED
  BY DeliveryInit, DeliveryStep, PTL DEF Spec

(* The watch page, its requests and the proxy's rows keep their types: no session is   *)
(* granted that was not counted (streaming.service.ts:265-324).                    *)
THEOREM DeliveryTyped == Spec => []TypeOK
<1>1. DeliveryInv => TypeOK
  BY DEF DeliveryInv
<1>2. QED
  BY <1>1, DeliveryCorrect, PTL

(* The conditions of the watch page's JSX leave no refusal without its message,    *)
(* but for the one that SilentForm names.                                       *)
THEOREM RefusalIsTold == Spec => []RefusalTold
<1>1. TypeOK => RefusalTold
  <2> SUFFICES ASSUME TypeOK, NEW p \in Pages, page[p].error # None, page[p].key = None,
                      page[p].resolved # None
               PROVE  \/ ShowsStatus(page[p]) \/ ShowsFormError(page[p]) \/ ShowsDenied(page[p])
                      \/ SilentForm(page[p])
    BY DEF RefusalTold, ShowsUnavailable
  <2>1. QED
    BY DEF ShowsStatus, ShowsFormError, ShowsDenied, SilentForm, ShowsForm, StatusUi,
           DeniedFromResolve, Opened
<1>2. QED
  BY <1>1, DeliveryTyped, PTL

-----------------------------------------------------------------------------
(* Ranges on their way: what a step of another, or of the range itself, can move   *)
(* past a judgement.                                                            *)

LEMMA OnlyStreaming ==
  ASSUME DeliveryInv, Next, transfer' # transfer
  PROVE  \E t \in Transfers : Stream(t) \/ \E p \in Pages : Fetch(t, p)
  BY DEF Next, ChangeLink, Visit, Resolve, ResolveFails, Unlock, PressEnter, Handle, ReadLink,
         CreateSession, IncrementViewCount, CreateStreamGrant, Fail, Receive, LoseAnswer,
         ExpireGrant, EndSession

(* A range gets past the link only while it is streamable, and past the session    *)
(* only while that is honoured.                                                 *)
LEMMA RangeStep ==
  ASSUME DeliveryInv, NEW t \in Transfers, Stream(t) \/ \E p \in Pages : Fetch(t, p)
  PROVE  /\ PastLink' \subseteq PastLink \/ Streamable
         /\ \A k \in Keys : PastSession(k)' \subseteq PastSession(k) \/ Honoured(k)
<1> USE DEF DeliveryInv, PastLink, PastSession
<1>1. CASE \E p \in Pages : Fetch(t, p)
  BY <1>1, FetchFacts
<1>2. CASE Close(t)
  BY <1>2, CloseFacts
<1>3. CASE transfer[t] # None /\ transfer[t].at = "session" /\ Honoured(transfer[t].key) /\ Move(t, "link")
  BY <1>3, MoveFacts
<1>4. CASE transfer[t] # None /\ transfer[t].at = "link" /\ Streamable /\ Move(t, "touch")
  BY <1>4, MoveFacts
<1>5. CASE /\ transfer[t] # None
           /\ \/ transfer[t].at = "touch" /\ Move(t, "open")
              \/ transfer[t].at = "open" /\ Move(t, "piping")
  BY <1>5, MoveFacts
<1>6. QED
  BY <1>1, <1>2, <1>3, <1>4, <1>5
  DEF Stream, FindSession, FindLink, Touch, StreamFile, Finish, BreakOff, Refuse

(* streaming.service.ts looks at the session and at the link anew for every range:  *)
(* while the link stays closed, or a session spent, no further range passes.    *)
THEOREM ServedStaysDrained == Spec => ServedDrains
<1> DEFINE A == /\ Closed /\ Closed' => PastLink' \subseteq PastLink
                /\ \A k \in Keys : Spent(k) /\ Spent(k)' => PastSession(k)' \subseteq PastSession(k)
<1>1. ASSUME DeliveryInv, Next PROVE A
  <2>1. CASE transfer' = transfer
    BY <2>1 DEF PastLink, PastSession
  <2>2. CASE transfer' # transfer
    <3>1. PICK t \in Transfers : Stream(t) \/ \E p \in Pages : Fetch(t, p)
      BY <1>1, <2>2, OnlyStreaming
    <3>2. /\ PastLink' \subseteq PastLink \/ Streamable
          /\ \A k \in Keys : PastSession(k)' \subseteq PastSession(k) \/ Honoured(k)
      BY <1>1, <3>1, RangeStep
    <3>3. QED
      BY <3>2 DEF Closed, Streamable, Spent
  <2>3. QED
    BY <2>1, <2>2
<1>2. ASSUME DeliveryInv, [Next]_vars PROVE [A]_vars
  BY <1>1, <1>2
<1>3. ServedDrains <=> [][A]_vars
  BY PTL DEF ServedDrains
<1>4. QED
  BY <1>2, <1>3, DeliveryCorrect, PTL DEF Spec

-----------------------------------------------------------------------------
(* One view for each visit.                                                     *)

(* The session a page has been given, or is about to be.                        *)
Due(c, p, k) ==
  /\ call[c] # None /\ call[c].page = p
  /\ call[c].at \in {"grant", "answer"} /\ call[c].answer = k
Holds(p, k) == page[p].key = k \/ \E c \in Calls : Due(c, p, k)

(* An undisturbed page asks only while it has nothing, and asks once at a time.  *)
Asking == \A c \in Calls : call[c] # None =>
            page[call[c].page].key = None /\ ~page[call[c].page].loading
Loading == \A p \in Pages : page[p].loading => page[p].key = None /\ page[p].resolved = None
Held == \A k \in views : \E p \in Pages : Holds(p, k)

VisitInv == ~disturbed => Loading /\ ~AsksTwice /\ Asking /\ Held

(* Then no page holds two sessions. *)
LEMMA HeldByOne ==
  ASSUME TypeOK, ~AsksTwice, Asking, NEW p \in Pages, NEW j \in Keys, NEW k \in Keys,
         Holds(p, j), Holds(p, k)
  PROVE  j = k
  BY DeliveryAssumption DEF Holds, Due, AsksTwice, Asking

LEMMA HeldViews ==
  ASSUME TypeOK, ~AsksTwice, Asking, Held
  PROVE  Cardinality(views) <= Cardinality(Pages)
<1> DEFINE holder == [k \in views |-> CHOOSE p \in Pages : Holds(p, k)]
<1>1. \A k \in views : holder[k] \in Pages /\ Holds(holder[k], k)
  BY DEF Held
<1>2. views \subseteq Keys
  BY DEF TypeOK
<1>3. holder \in [views -> Pages]
  BY <1>1
<1> HIDE DEF holder
<1>4. \A j, k \in views : holder[j] = holder[k] => j = k
  BY <1>1, <1>2, HeldByOne
<1>5. holder \in Injection(views, Pages)
  BY <1>3, <1>4 DEF Injection, IsInjective
<1>6. QED
  BY <1>5, FS_Injection, DeliveryAssumption

LEMMA VisitInit == HistoryInit => VisitInv
  BY DEF HistoryInit, Init, VisitInv, Loading, AsksTwice, Asking, Held

LEMMA StillKept ==
  ASSUME Loading, Asking, Held, call' = call, views' = views,
         \A p \in Pages : page'[p].key = page[p].key /\ SameStage(p), TypeOK
  PROVE  Loading' /\ Asking' /\ Held'
<1>1. Loading' /\ Asking'
  BY DEF Loading, Asking, SameStage, TypeOK, Requests
<1>2. Held'
  BY DEF Held, Holds, Due
<1>3. QED
  BY <1>1, <1>2

LEMMA AskKept ==
  ASSUME Loading, Asking, Held, DeliveryInv, NEW p \in Pages, Visit(p)
  PROVE  Loading' /\ Asking' /\ Held'
<1> USE DEF DeliveryInv
<1>1. ASSUME NEW w \in Windows, NEW right \in BOOLEAN, Send(p, w, right), UNCHANGED rows,
             w.key = page[p].key, w.key = None, ~w.loading
      PROVE  Loading' /\ Asking' /\ Held'
  <2>1. PICK c \in Calls :
          /\ call[c] = None /\ call'[c] # None /\ call'[c].at = "read"
          /\ call'[c].page = p
          /\ \A d \in Calls : d # c => call'[d] = call[d]
    BY <1>1, SendFacts
  <2>2. /\ page'[p].key = None /\ ~page'[p].loading
        /\ \A q \in Pages : q # p => page'[q] = page[q]
    BY <1>1, SendFacts
  <2>3. Loading'
    BY <2>2 DEF Loading
  <2>4. \A d \in Calls : call[d] # None => call[d].page \in Pages
    BY DEF TypeOK, Requests
  <2>5. Asking'
    BY <2>1, <2>2, <2>4 DEF Asking
  <2>6. \A q \in Pages : page'[q].key = page[q].key
    BY <1>1, <2>2
  <2>7. \A q \in Pages, k \in views : Holds(q, k) => Holds(q, k)'
    BY <2>1, <2>6 DEF Holds, Due
  <2>8. Held'
    BY <1>1, <2>7 DEF Held, rows
  <2>9. QED
    BY <2>3, <2>5, <2>8
<1>2. page[p] \in Windows
  BY DEF TypeOK
<1>3. ASSUME NEW w \in Windows, page' = [page EXCEPT ![p] = w], w.key = page[p].key, ~w.loading,
             UNCHANGED <<rows, call>>
      PROVE  Loading' /\ Asking' /\ Held'
  <2>1. page'[p] = w /\ \A q \in Pages : q # p => page'[q] = page[q]
    BY <1>3 DEF TypeOK
  <2>2. Loading'
    BY <1>3, <2>1 DEF Loading
  <2>3. \A d \in Calls : call[d] # None => call[d].page \in Pages
    BY DEF TypeOK, Requests
  <2>4. Asking'
    BY <1>3, <2>1, <2>3 DEF Asking
  <2>5. Held'
    BY <1>3, <2>1 DEF Held, Holds, Due, rows
  <2>6. QED
    BY <2>2, <2>4, <2>5
<1>4. CASE Resolve(p)
  <2> DEFINE now == [status |-> Effective, locked |-> link.locked]
  <2> DEFINE w == [page[p] EXCEPT !.loading = FALSE, !.resolved = now]
  <2>1. now \in Resolutions
    BY DEF Resolutions, Effective, TypeOK, Statuses
  <2>2. w \in Windows /\ w.key = page[p].key /\ ~w.loading
    BY <1>2, <2>1 DEF Windows
  <2>3. UNCHANGED rows /\ page[p].loading
    BY <1>4 DEF Resolve
  <2>4. Send(p, w, FALSE) \/ (page' = [page EXCEPT ![p] = w] /\ UNCHANGED call)
    BY <1>4 DEF Resolve
  <2>5. page[p].key = None
    BY <2>3 DEF Loading
  <2> HIDE DEF w, now
  <2>6. QED
    BY <1>1, <1>3, <2>2, <2>3, <2>4, <2>5
<1>5. CASE ResolveFails(p)
  <2> DEFINE w == [page[p] EXCEPT !.loading = FALSE, !.error = "ERROR"]
  <2>1. w \in Windows /\ w.key = page[p].key /\ ~w.loading
    BY <1>2 DEF Windows, Codes
  <2>2. page' = [page EXCEPT ![p] = w]
    BY <1>2, <1>5 DEF ResolveFails, Windows
  <2> HIDE DEF w
  <2>3. QED
    BY <1>3, <1>5, <2>1, <2>2 DEF ResolveFails
<1>6. ASSUME NEW right \in BOOLEAN, Unlock(p, right) \/ PressEnter(p, right)
      PROVE  Loading' /\ Asking' /\ Held'
  <2>1. page[p].key = None /\ page[p].resolved # None
    BY <1>6 DEF Unlock, PressEnter, ShowsForm, Opened
  <2>2. ~page[p].loading
    BY <2>1 DEF Loading
  <2>3. QED
    BY <1>1, <1>2, <1>6, <2>1, <2>2 DEF Unlock, PressEnter
<1>7. QED
  BY <1>4, <1>5, <1>6 DEF Visit

LEMMA HandleKept ==
  ASSUME Loading, Asking, Held, DeliveryInv, NEW c \in Calls, Handle(c), ~Fail(c)
  PROVE  Loading' /\ Asking' /\ Held'
<1> USE DEF DeliveryInv
<1>1. page' = page /\ call[c] # None /\ call[c] \in Requests
  BY DEF Handle, ReadLink, CreateSession, IncrementViewCount, CreateStreamGrant, TypeOK
<1> DEFINE Onward ==
      /\ call'[c].page = call[c].page
      /\ \A d \in Calls : d # c => call'[d] = call[d]
<1>2. ASSUME Onward,
             \A k \in views' : \/ k \in views /\ ~Due(c, call[c].page, k)
                              \/ Due(c, call[c].page, k)'
      PROVE  Loading' /\ Asking' /\ Held'
  <2>1. Loading' /\ Asking'
    BY <1>1, <1>2 DEF Loading, Asking
  <2>2. ASSUME NEW k \in views' PROVE \E p \in Pages : Holds(p, k)'
    <3>1. CASE Due(c, call[c].page, k)'
      <4>1. PICK p \in Pages : p = call[c].page /\ p = call'[c].page
        BY <1>1, <1>2 DEF Requests
      <4>2. Due(c, p, k)'
        BY <3>1, <4>1 DEF Due
      <4>3. QED
        BY <4>2 DEF Holds
    <3>2. CASE k \in views /\ ~Due(c, call[c].page, k)
      <4>1. PICK p \in Pages : Holds(p, k)
        BY <3>2 DEF Held
      <4>2. \A d \in Calls : Due(d, p, k) => d # c
        BY <3>2 DEF Due
      <4>3. Holds(p, k)'
        BY <1>1, <1>2, <4>1, <4>2 DEF Holds, Due
      <4>4. QED
        BY <4>3
    <3>3. QED
      BY <1>2, <3>1, <3>2
  <2>3. QED
    BY <2>1, <2>2 DEF Held
<1>3. CASE ReadLink(c)
  <2>1. views' = views /\ call[c].at = "read"
    BY <1>3 DEF ReadLink
  <2>2. Onward
    <3>1. CASE Goto(c, "record")
      BY <1>1, <3>1, GotoFacts DEF Steps
    <3>2. ASSUME NEW a \in Codes, AnswerWith(c, a) PROVE Onward
      BY <1>1, <3>2, AnswerFacts DEF Steps, AnswerWith
    <3>3. StatusCode \in Codes \/ StatusCode = None
      BY DEF StatusCode, Codes, LinkCodes
    <3>4. "PASSWORD_REQUIRED" \in Codes /\ "RULE_BROKEN" \in Codes
      BY DEF Codes
    <3>5. QED
      BY <1>3, <3>1, <3>2, <3>3, <3>4 DEF ReadLink
  <2>3. QED
    BY <1>2, <2>1, <2>2 DEF Due
<1>4. CASE CreateSession(c)
  <2> DEFINE k == CHOOSE new \in Keys : session[new] = None
  <2>1. k \in Keys /\ views' = views /\ call[c].at = "record"
        /\ call' = [call EXCEPT ![c].at = "count", ![c].answer = k]
    BY <1>4 DEF CreateSession
  <2> HIDE DEF k
  <2>2. Onward
    BY <1>1, <2>1, AnswerFacts DEF Steps
  <2>3. QED
    BY <1>2, <2>1, <2>2 DEF Due
<1>5. CASE IncrementViewCount(c)
  <2>1. call[c].at = "count" /\ views' = views \cup {call[c].answer} /\ Goto(c, "grant")
    BY <1>5 DEF IncrementViewCount
  <2>2. Onward /\ call'[c] # None /\ call'[c].at = "grant" /\ call'[c].answer = call[c].answer
    BY <1>1, <2>1, GotoFacts DEF Steps
  <2>3. QED
    BY <1>2, <2>1, <2>2 DEF Due
<1>6. CASE CreateStreamGrant(c)
  <2>1. call[c].at = "grant" /\ views' = views /\ Goto(c, "answer")
    BY <1>6 DEF CreateStreamGrant
  <2>2. Onward /\ call'[c] # None /\ call'[c].at = "answer" /\ call'[c].answer = call[c].answer
    BY <1>1, <2>1, GotoFacts DEF Steps
  <2>3. QED
    BY <1>2, <2>1, <2>2 DEF Due
<1>7. QED
  BY <1>3, <1>4, <1>5, <1>6 DEF Handle

LEMMA ReceiveKept ==
  ASSUME Loading, Asking, Held, ~AsksTwice, DeliveryInv, NEW c \in Calls, Receive(c)
  PROVE  Loading' /\ Asking' /\ Held'
<1> USE DEF DeliveryInv
<1>1. /\ call[c] # None /\ call[c].at = "answer" /\ views' = views
      /\ call'[c] = None /\ \A d \in Calls : d # c => call'[d] = call[d]
  BY DropFacts DEF Receive, rows
<1>2. page[call[c].page].key = None /\ ~page[call[c].page].loading
  BY <1>1 DEF Asking
<1>3. \A d \in Calls : call'[d] # None => call'[d] = call[d] /\ call[d].page # call[c].page
  BY <1>1 DEF AsksTwice
<1>4. \A d \in Calls : call[d] # None => call[d].page \in Pages
  BY DEF TypeOK, Requests
<1>5. CASE Refused(c)
  <2>1. call[c].answer \in Codes
    BY <1>5 DEF Refused
  <2>2. \A p \in Pages : page'[p].key = page[p].key /\ SameStage(p)
    BY <1>1, <1>5, <2>1, ShowErrorFacts DEF Refused
  <2>3. Loading' /\ Asking'
    BY <1>3, <1>4, <2>2 DEF Loading, Asking, SameStage
  <2>4. \A p \in Pages, k \in views : Holds(p, k) => Holds(p, k)'
    <3>1. views \cap Codes = {}
      BY DeliveryAssumption DEF TypeOK
    <3>2. QED
      BY <1>1, <2>1, <2>2, <3>1 DEF Holds, Due
  <2>5. QED
    BY <1>1, <2>3, <2>4 DEF Held
<1>6. CASE call[c].answer \in Keys /\ ShowContent(c)
  <2>1. /\ page'[call[c].page].key = call[c].answer
        /\ \A p \in Pages : p # call[c].page => page'[p] = page[p]
        /\ \A p \in Pages : SameStage(p)
    BY <1>1, <1>6, ShowContentFacts
  <2>2. Loading' /\ Asking'
    BY <1>2, <1>3, <1>4, <2>1 DEF Loading, Asking, SameStage
  <2>3. ASSUME NEW p \in Pages, NEW k \in views, Holds(p, k) PROVE Holds(p, k)'
    <3>1. CASE p = call[c].page
      <4>1. k # None
        BY DeliveryAssumption DEF TypeOK
      <4>2. PICK d \in Calls : Due(d, p, k)
        BY <1>2, <2>3, <3>1, <4>1 DEF Holds
      <4>3. d = c
        BY <1>1, <3>1, <4>2 DEF Due, AsksTwice
      <4>4. QED
        BY <2>1, <3>1, <4>2, <4>3 DEF Holds, Due
    <3>2. CASE p # call[c].page
      BY <1>1, <2>1, <2>3, <3>2 DEF Holds, Due
    <3>3. QED
      BY <3>1, <3>2
  <2>4. QED
    BY <1>1, <2>2, <2>3 DEF Held
<1>7. QED
  BY <1>5, <1>6 DEF Receive

LEMMA VisitInvStep ==
  DeliveryInv /\ VisitInv /\ [HistoryNext]_<<vars, disturbed>> => VisitInv'
<1> SUFFICES ASSUME DeliveryInv, VisitInv, [HistoryNext]_<<vars, disturbed>>, ~disturbed'
             PROVE  Loading' /\ ~AsksTwice' /\ Asking' /\ Held'
  BY DEF VisitInv
<1>1. CASE UNCHANGED <<vars, disturbed>>
  BY <1>1 DEF VisitInv, Loading, AsksTwice, Asking, Held, Holds, Due, vars, rows
<1>2. CASE HistoryNext
  <2>1. /\ ~AsksTwice' /\ \A c \in Calls : ~LoseAnswer(c) /\ ~Fail(c)
        /\ Next /\ Loading /\ ~AsksTwice /\ Asking /\ Held
    BY <1>2 DEF HistoryNext, VisitInv
  <2>2. ASSUME call' = call, views' = views,
               \A p \in Pages : page'[p].key = page[p].key /\ SameStage(p)
        PROVE  Loading' /\ Asking' /\ Held'
    BY <2>1, <2>2, StillKept DEF DeliveryInv
  <2>3. CASE page' = page /\ call' = call /\ views' = views
    BY <2>1, <2>2, <2>3 DEF SameStage
  <2>4. ASSUME NEW t \in Transfers, Stream(t) \/ \E p \in Pages : Fetch(t, p)
        PROVE  Loading' /\ Asking' /\ Held'
    <3>1. CASE transfer[t] # None /\ Refuse(t)
      BY <2>2, <3>1, BreakFacts DEF Refuse, rows, DeliveryInv
    <3>2. CASE UNCHANGED <<rows, call, page>>
      BY <2>3, <3>2, <2>1 DEF rows
    <3>3. QED
      BY <2>4, <3>1, <3>2
      DEF Stream, FindSession, FindLink, Touch, StreamFile, Finish, BreakOff, Fetch
  <2>5. CASE ChangeLink \/ \E k \in Keys : ExpireGrant(k) \/ EndSession(k)
    BY <2>1, <2>3, <2>5 DEF ChangeLink, ExpireGrant, EndSession
  <2>6. QED
    BY <2>1, <2>4, <2>5, AskKept, HandleKept, ReceiveKept DEF Next
<1>3. QED
  BY <1>1, <1>2

(* watch/[token]/page.tsx: as long as no page asks twice at a time and no request     *)
(* fails, no more views are used than pages have been opened, however many there  *)
(* are.                                                                         *)
THEOREM OneViewForEachVisit == HistorySpec => []OneViewPerVisit
<1>1. DeliveryInv /\ VisitInv => OneViewPerVisit
  BY HeldViews DEF DeliveryInv, VisitInv, OneViewPerVisit
<1>2. HistoryInit => DeliveryInv
  BY DeliveryInit DEF HistoryInit
<1>3. DeliveryInv /\ [HistoryNext]_<<vars, disturbed>> => DeliveryInv'
  BY DeliveryStep DEF HistoryNext, vars
<1>4. QED
  BY <1>1, <1>2, <1>3, VisitInit, VisitInvStep, PTL DEF HistorySpec
=============================================================================
