------------------------ MODULE ContentLibraryProofs ------------------------
(* The content library and the form that links its contents, for every number of  *)
(* files, contents and requests in flight.                                       *)
EXTENDS MCContentLibrary, FiniteSetTheorems, SequenceTheorems, WellFoundedInduction, TLAPS

Steps == {"find", "drive", "store", "delete", "insert", "answer"}

(* What a request knows at each of its steps.                                   *)
Knows(r) ==
  LET q == request[r] IN
    /\ q.at \in {"drive"} => q.ask.op = "create"
    /\ q.at = "store" /\ q.ask.op # "create" => q.row \in 1 .. created
    /\ q.at \in {"delete", "insert", "answer"} =>
         /\ q.row \in 1 .. created
         /\ q.ask.op = "create" /\ q.row \in Rows => content[q.row].file = q.ask.file
    /\ q.at \in {"delete", "insert"} => q.ask.op \in {"create", "update"} /\ q.ask.tags \in TagSets

LibraryInv == LibraryTypeOK /\ \A r \in Requests : request[r] # None => Knows(r)

-----------------------------------------------------------------------------
(* What the helpers change: one request moves on, the others stay.               *)

OthersStay(r) == \A q \in Requests : q # r => request'[q] = request[q]

Moved(r, step, c, found) ==
  /\ request' \in [Requests -> InFlight \cup {None}] /\ OthersStay(r)
  /\ request'[r] # None /\ request'[r].ask = request[r].ask
  /\ request'[r].at = step /\ request'[r].row = c /\ request'[r].seen = found

LEMMA MoveFacts ==
  ASSUME LibraryTypeOK, NEW r \in Requests, request[r] # None, NEW step \in Steps,
         NEW c \in Contents \cup {None}, NEW found \in SUBSET (UNION TagSets),
         request' = [request EXCEPT ![r] = [request[r] EXCEPT !.row = c, !.seen = found, !.at = step]]
  PROVE  Moved(r, step, c, found)
<1> DEFINE now == [request[r] EXCEPT !.row = c, !.seen = found, !.at = step]
<1>1. request[r] \in InFlight /\ request \in [Requests -> InFlight \cup {None}]
  BY DEF LibraryTypeOK
<1>2. now \in InFlight
  BY <1>1 DEF InFlight, Steps
<1>3. now.at = step /\ now.row = c /\ now.seen = found /\ now.ask = request[r].ask
  BY <1>1 DEF InFlight
<1>4. request' = [request EXCEPT ![r] = now]
  OBVIOUS
<1> HIDE DEF now
<1>5. QED
  BY <1>1, <1>2, <1>3, <1>4, NoneAssumption DEF Moved, OthersStay

(* A request in flight is well formed, whatever it asks for.                     *)
LEMMA RequestTyped ==
  ASSUME LibraryTypeOK, NEW r \in Requests, request[r] # None
  PROVE  /\ request[r] \in InFlight /\ request[r].ask \in Asks /\ request[r].at \in Steps
         /\ request[r].row \in Contents \cup {None} /\ request[r].seen \in SUBSET (UNION TagSets)
         /\ request \in [Requests -> InFlight \cup {None}]
  BY DEF LibraryTypeOK, InFlight, Steps

LEMMA GotoMoves ==
  ASSUME LibraryTypeOK, NEW r \in Requests, request[r] # None, NEW step \in Steps, Goto(r, step)
  PROVE  Moved(r, step, request[r].row, request[r].seen)
<1>1. [request[r] EXCEPT !.at = step]
        = [request[r] EXCEPT !.row = request[r].row, !.seen = request[r].seen, !.at = step]
  BY RequestTyped DEF InFlight
<1>2. QED
  BY <1>1, RequestTyped, MoveFacts DEF Goto

LEMMA RowMoves ==
  ASSUME LibraryTypeOK, NEW r \in Requests, request[r] # None, NEW step \in Steps, NEW c \in Contents,
         \/ request' = [request EXCEPT ![r].row = c, ![r].at = step]
         \/ request' = [request EXCEPT ![r].at = step, ![r].row = c]
  PROVE  Moved(r, step, c, request[r].seen)
<1>1. /\ [request[r] EXCEPT !.row = c, !.at = step]
           = [request[r] EXCEPT !.row = c, !.seen = request[r].seen, !.at = step]
      /\ [request[r] EXCEPT !.at = step, !.row = c]
           = [request[r] EXCEPT !.row = c, !.seen = request[r].seen, !.at = step]
  BY RequestTyped DEF InFlight
<1>2. request' = [request EXCEPT ![r] = [request[r] EXCEPT !.row = c, !.seen = request[r].seen, !.at = step]]
  BY <1>1, RequestTyped
<1>3. QED
  BY <1>2, RequestTyped, MoveFacts

LEMMA SeenMoves ==
  ASSUME LibraryTypeOK, NEW r \in Requests, request[r] # None, NEW found \in SUBSET (UNION TagSets),
         request' = [request EXCEPT ![r].seen = found, ![r].at = "insert"]
  PROVE  Moved(r, "insert", request[r].row, found)
<1>1. [request[r] EXCEPT !.seen = found, !.at = "insert"]
        = [request[r] EXCEPT !.row = request[r].row, !.seen = found, !.at = "insert"]
  BY RequestTyped DEF InFlight
<1>2. QED
  BY <1>1, RequestTyped, MoveFacts DEF Steps

LEMMA FinishFacts ==
  ASSUME LibraryTypeOK, NEW r \in Requests, Finish(r)
  PROVE  request' \in [Requests -> InFlight \cup {None}] /\ request'[r] = None /\ OthersStay(r)
  BY DEF LibraryTypeOK, Finish, OthersStay

LEMMA ReceiveFacts ==
  ASSUME LibraryTypeOK, NEW r \in Requests, NEW ask \in Asks, Receive(r, ask)
  PROVE  /\ request' \in [Requests -> InFlight \cup {None}] /\ OthersStay(r)
         /\ request'[r] # None /\ request'[r].ask = ask /\ request'[r].at = "find"
         /\ UNCHANGED library
<1> DEFINE now == [ask |-> ask, row |-> None, seen |-> {}, at |-> "find"]
<1>1. now \in InFlight
  BY DEF InFlight
<1>2. now.ask = ask /\ now.at = "find" /\ request' = [request EXCEPT ![r] = now] /\ UNCHANGED library
  BY DEF Receive
<1> HIDE DEF now
<1>3. QED
  BY <1>1, <1>2, NoneAssumption DEF LibraryTypeOK, OthersStay

-----------------------------------------------------------------------------
(* Rows come one after another and keep their file until they are deleted.       *)
FilesStay ==
  /\ created <= created'
  /\ \A c \in 1 .. created : c \in Rows' => c \in Rows /\ content'[c].file = content[c].file

LEMMA CreatedRow ==
  ASSUME LibraryTypeOK, NEW r \in Requests, CreateRow(r)
  PROVE  /\ request[r] # None /\ request[r].ask.op = "create" /\ created' = created + 1 /\ created' \in Contents
         /\ tags' = tags /\ Moved(r, AfterRow(r), created', request[r].seen)
         /\ content' \in [Contents -> ContentRows \cup {None}]
         /\ Rows' = Rows \cup {created'} /\ created' \notin Rows
         /\ content'[created'].file = request[r].ask.file
         /\ content'[created'].status = request[r].ask.status
         /\ \A c \in Rows : content'[c] = content[c]
<1>1. /\ request[r] # None /\ request[r].ask.op = "create" /\ created < MaxContents /\ created' = created + 1
      /\ tags' = tags /\ AfterRow(r) \in Steps
  BY DEF CreateRow, At, AfterRow, Steps
<1>2. created \in Nat /\ created' \in Contents /\ Rows \subseteq 1 .. created
  BY <1>1, ContentsAssumption DEF LibraryTypeOK, Contents
<1>3. created' \notin Rows
  BY <1>1, <1>2
<1>4. Moved(r, AfterRow(r), created', request[r].seen)
  BY <1>1, <1>2, RowMoves DEF CreateRow
<1> DEFINE row == [file |-> request[r].ask.file, status |-> request[r].ask.status]
<1>5. request[r].ask \in [op : {"create"}, file : Files, status : Statuses, tags : TagSets \cup {None}]
  BY <1>1, RequestTyped DEF Asks
<1>6. row \in ContentRows /\ row.file = request[r].ask.file /\ row.status = request[r].ask.status
  BY <1>5 DEF ContentRows
<1>7. content' = [content EXCEPT ![created'] = row]
  BY DEF CreateRow
<1> HIDE DEF row
<1>8. content' \in [Contents -> ContentRows \cup {None}] /\ content'[created'] = row
  BY <1>2, <1>6, <1>7 DEF LibraryTypeOK
<1>9. row # None
  BY <1>6, NoneAssumption
<1>10. Rows' = Rows \cup {created'} /\ \A c \in Rows : content'[c] = content[c]
  BY <1>2, <1>3, <1>7, <1>8, <1>9 DEF LibraryTypeOK, Rows
<1>11. QED
  BY <1>1, <1>2, <1>3, <1>4, <1>6, <1>8, <1>10

LEMMA WrittenRow ==
  ASSUME LibraryTypeOK, NEW c \in Rows, NEW status \in Statuses,
         content' = [content EXCEPT ![c].status = status]
  PROVE  /\ content' \in [Contents -> ContentRows \cup {None}] /\ Rows' = Rows
         /\ content'[c].status = status
         /\ \A d \in Rows : content'[d].file = content[d].file /\ (d # c => content'[d] = content[d])
<1>1. c \in Contents /\ content[c] \in ContentRows /\ content \in [Contents -> ContentRows \cup {None}]
  BY DEF Rows, LibraryTypeOK
<1> DEFINE row == [content[c] EXCEPT !.status = status]
<1>2. row \in ContentRows /\ row.file = content[c].file /\ row.status = status
  BY <1>1 DEF ContentRows
<1>3. content' = [content EXCEPT ![c] = row]
  BY <1>1
<1> HIDE DEF row
<1>4. row # None
  BY <1>2, NoneAssumption
<1>5. content'[c] = row /\ \A d \in Contents : d # c => content'[d] = content[d]
  BY <1>1, <1>3
<1>6. Rows' = Rows
  BY <1>4, <1>5 DEF Rows
<1>7. QED
  BY <1>1, <1>2, <1>3, <1>5, <1>6 DEF Rows

LEMMA DeletedRow ==
  ASSUME LibraryTypeOK, NEW c \in Rows, content' = [content EXCEPT ![c] = None], tags' = CascadedTags(c)
  PROVE  /\ content' \in [Contents -> ContentRows \cup {None}] /\ Rows' = Rows \ {c}
         /\ \A d \in Rows' : content'[d] = content[d]
         /\ tags' \in [Contents -> SUBSET (UNION TagSets)]
         /\ tags'[c] = {} /\ \A d \in Contents : tags'[d] \subseteq tags[d] /\ (d # c => tags'[d] = tags[d])
<1>1. c \in Contents /\ content \in [Contents -> ContentRows \cup {None}]
      /\ tags \in [Contents -> SUBSET (UNION TagSets)]
  BY DEF Rows, LibraryTypeOK
<1>2. tags' = [tags EXCEPT ![c] = {}]
  BY DEF CascadedTags
<1>3. QED
  BY <1>1, <1>2 DEF Rows

(* A step of one request keeps what all the others know.                         *)
OthersKeep(r) ==
  \A q \in Requests \ {r} :
    /\ request'[q] # None => request[q] # None
    /\ request'[q].ask = request[q].ask /\ request'[q].at = request[q].at
    /\ request'[q].row = request[q].row

LEMMA StepOfOne ==
  ASSUME LibraryInv, NEW r \in Requests, OthersKeep(r), FilesStay, created' \in 0 .. MaxContents,
         request' \in [Requests -> InFlight \cup {None}],
         content' \in [Contents -> ContentRows \cup {None}], Rows' \subseteq 1 .. created',
         tags' \in [Contents -> SUBSET (UNION TagSets)], \A c \in Contents \ Rows' : tags'[c] = {},
         request'[r] # None => Knows(r)'
  PROVE  LibraryInv'
<1>1. LibraryTypeOK'
  BY DEF LibraryTypeOK
<1>2. ASSUME NEW q \in Requests, request'[q] # None PROVE Knows(q)'
  <2>1. CASE q = r
    BY <1>2, <2>1
  <2>2. CASE q # r
    <3>1. /\ request[q] # None /\ request'[q].ask = request[q].ask /\ request'[q].at = request[q].at
          /\ request'[q].row = request[q].row
      BY <1>2, <2>2 DEF OthersKeep
    <3>2. Knows(q)
      BY <3>1 DEF LibraryInv
    <3>3. created \in Nat /\ created' \in Nat /\ created <= created'
      BY ContentsAssumption DEF LibraryInv, LibraryTypeOK, FilesStay
    <3>4. \A c : c \in 1 .. created => c \in 1 .. created'
      BY <3>3
    <3>5. \A c \in 1 .. created : c \in Rows' => c \in Rows /\ content'[c].file = content[c].file
      BY DEF FilesStay
    <3>6. QED
      BY <3>1, <3>2, <3>4, <3>5 DEF Knows
  <2>3. QED
    BY <2>1, <2>2
<1>3. QED
  BY <1>1, <1>2 DEF LibraryInv

LEMMA LibraryNow ==
  ASSUME LibraryInv
  PROVE  /\ LibraryTypeOK /\ created \in 0 .. MaxContents /\ created \in Nat
         /\ content \in [Contents -> ContentRows \cup {None}] /\ Rows \subseteq 1 .. created
         /\ tags \in [Contents -> SUBSET (UNION TagSets)] /\ \A c \in Contents \ Rows : tags[c] = {}
         /\ \A r \in Requests : request[r] # None => Knows(r)
         /\ 1 .. created \subseteq Contents
  BY ContentsAssumption DEF LibraryInv, LibraryTypeOK, Contents

(* A step that leaves the library alone.                                        *)
LEMMA StepBeside ==
  ASSUME LibraryInv, NEW r \in Requests, UNCHANGED library, OthersStay(r),
         request' \in [Requests -> InFlight \cup {None}], request'[r] # None => Knows(r)'
  PROVE  LibraryInv' /\ FilesStay
<1>1. created' = created /\ content' = content /\ tags' = tags /\ Rows' = Rows
  BY DEF library, Rows
<1>2. FilesStay
  BY <1>1, LibraryNow DEF FilesStay
<1>3. OthersKeep(r)
  BY DEF OthersKeep, OthersStay
<1>4. QED
  BY <1>1, <1>2, <1>3, LibraryNow, StepOfOne

-----------------------------------------------------------------------------
(* What a request knows after its step.                                         *)

(* The largest of a set of contents is one of them: the one with the fewest     *)
(* numbers left after it.                                                       *)
LEMMA MaxOfContents ==
  ASSUME NEW n \in Nat, NEW S \in SUBSET (1 .. n), S # {}
  PROVE  Max(S) \in S
<1> DEFINE T == {v + 1 .. n : v \in S}
<1> DEFINE R == StrictSubsetOrdering(1 .. n)
<1>1. T \subseteq FiniteSubsetsOf(1 .. n) /\ T # {}
  <2>1. IsFiniteSet(1 .. n)
    BY FS_Interval
  <2>2. FiniteSubsetsOf(1 .. n) = SUBSET (1 .. n)
    BY <2>1, FS_FiniteSubsetsOfFinite
  <2>3. \A v \in S : (v + 1 .. n) \in SUBSET (1 .. n)
    OBVIOUS
  <2>4. T \subseteq SUBSET (1 .. n)
    BY <2>3
  <2>5. T # {}
    OBVIOUS
  <2>6. QED
    BY <2>2, <2>4, <2>5
<1>2. IsWellFoundedOn(R, FiniteSubsetsOf(1 .. n))
  BY FS_StrictSubsetOrderingWellFounded
<1>3. \E x \in T : \A y \in T : <<y, x>> \notin R
  <2> HIDE DEF T, R
  <2> QED BY <1>1, <1>2, WFMin
<1>4. PICK v \in S : \A u \in S : <<u + 1 .. n, v + 1 .. n>> \notin R
  BY <1>3
<1>5. ASSUME NEW u \in S, u > v PROVE FALSE
  <2>1. u \in v + 1 .. n /\ u \notin u + 1 .. n /\ (u + 1 .. n) \subseteq v + 1 .. n
    BY <1>5
  <2>2. u + 1 .. n \in SUBSET (1 .. n) /\ v + 1 .. n \in SUBSET (1 .. n)
    OBVIOUS
  <2>3. QED
    BY <1>4, <2>1, <2>2 DEF StrictSubsetOrdering
<1>6. \A u \in S : v >= u
  BY <1>5
<1>7. QED
  BY <1>6 DEF Max

LEMMA FindFileKeeps ==
  ASSUME LibraryInv, NEW r \in Requests, FindFile(r)
  PROVE  /\ LibraryInv' /\ FilesStay /\ OthersStay(r) /\ UNCHANGED library
         /\ request'[r] # None /\ request'[r].ask = request[r].ask /\ request'[r].at \in {"drive", "answer"}
         /\ request'[r].at = "drive" => Usable(request[r].ask.file) = {}
<1> DEFINE found == Usable(request[r].ask.file)
<1>1. LibraryTypeOK /\ request[r] # None /\ request[r].ask.op = "create" /\ UNCHANGED library
  BY LibraryNow DEF FindFile, At
<1>2. created' = created /\ content' = content /\ Rows' = Rows
  BY <1>1 DEF library, Rows
<1>3. CASE found = {}
  <2>1. Goto(r, "drive")
    BY <1>3 DEF FindFile
  <2>2. Moved(r, "drive", request[r].row, request[r].seen)
    BY <1>1, <2>1, GotoMoves DEF Steps
  <2>3. Knows(r)'
    BY <1>1, <2>2 DEF Knows, Moved
  <2>4. QED
    BY <1>1, <1>3, <2>2, <2>3, StepBeside DEF Moved
<1>4. CASE found # {}
  <2>1. found \subseteq Rows /\ found \in SUBSET (1 .. created)
    BY LibraryNow DEF Usable
  <2>2. Max(found) \in found
    BY <1>4, <2>1, LibraryNow, MaxOfContents
  <2> DEFINE c == Max(found)
  <2>3. c \in 1 .. created /\ c \in Contents /\ content[c].file = request[r].ask.file
    BY <2>1, <2>2, LibraryNow DEF Usable
  <2>4. request' = [request EXCEPT ![r].at = "answer", ![r].row = c]
    BY <1>4 DEF FindFile, Answer
  <2> HIDE DEF c
  <2>5. Moved(r, "answer", c, request[r].seen)
    BY <1>1, <2>3, <2>4, RowMoves DEF Steps
  <2>6. Knows(r)'
    BY <1>1, <1>2, <2>3, <2>5 DEF Knows, Moved
  <2>7. QED
    BY <1>1, <2>5, <2>6, StepBeside DEF Moved
<1>5. QED
  BY <1>3, <1>4

LEMMA GetFileKeeps ==
  ASSUME LibraryInv, NEW r \in Requests, GetFile(r)
  PROVE  /\ LibraryInv' /\ FilesStay /\ OthersStay(r) /\ UNCHANGED library
         /\ request[r] # None /\ request[r].at = "drive"
         /\ request'[r] # None /\ request'[r].ask = request[r].ask /\ request'[r].at = "store"
<1>1. LibraryTypeOK /\ request[r] # None /\ request[r].at = "drive" /\ UNCHANGED library
  BY LibraryNow DEF GetFile, At
<1>2. Moved(r, "store", request[r].row, request[r].seen)
  BY <1>1, GotoMoves DEF GetFile, Steps
<1>3. request[r].ask.op = "create"
  BY <1>1, LibraryNow DEF Knows
<1>4. Knows(r)'
  BY <1>2, <1>3 DEF Knows, Moved
<1>5. QED
  BY <1>1, <1>2, <1>4, StepBeside DEF Moved

LEMMA FindRowKeeps ==
  ASSUME LibraryInv, NEW r \in Requests, FindRow(r)
  PROVE  /\ LibraryInv' /\ FilesStay /\ OthersStay(r) /\ UNCHANGED library
         /\ request'[r] # None => request'[r].ask.op # "create" /\ request'[r].at = "store"
<1>1. LibraryTypeOK /\ request[r] # None /\ request[r].ask.op # "create" /\ UNCHANGED library
  BY LibraryNow DEF FindRow, At
<1> DEFINE c == request[r].ask.row
<1>2. CASE c \in Rows
  <2>1. c \in 1 .. created /\ c \in Contents
    BY <1>2, LibraryNow
  <2>2. request' = [request EXCEPT ![r].row = c, ![r].at = "store"]
    BY <1>2 DEF FindRow
  <2> HIDE DEF c
  <2>3. Moved(r, "store", c, request[r].seen)
    BY <1>1, <2>1, <2>2, RowMoves DEF Steps
  <2>4. created' = created
    BY <1>1 DEF library
  <2>5. Knows(r)'
    BY <1>1, <2>1, <2>3, <2>4 DEF Knows, Moved
  <2>6. QED
    BY <1>1, <2>3, <2>5, StepBeside DEF Moved
<1>3. CASE c \notin Rows
  <2>1. Finish(r)
    BY <1>3 DEF FindRow
  <2>2. QED
    BY <1>1, <2>1, FinishFacts, StepBeside
<1>4. QED
  BY <1>2, <1>3

LEMMA EndKeeps ==
  ASSUME LibraryInv, NEW r \in Requests, Finish(r), UNCHANGED library
  PROVE  LibraryInv' /\ FilesStay /\ OthersStay(r) /\ request'[r] = None
  BY LibraryNow, FinishFacts, StepBeside

LEMMA ReceiveKeeps ==
  ASSUME LibraryInv, NEW r \in Requests, NEW ask \in Asks, Receive(r, ask)
  PROVE  /\ LibraryInv' /\ FilesStay /\ OthersStay(r) /\ UNCHANGED library
         /\ request'[r] # None /\ request'[r].ask = ask /\ request'[r].at = "find"
<1>1. /\ request' \in [Requests -> InFlight \cup {None}] /\ OthersStay(r)
      /\ request'[r] # None /\ request'[r].ask = ask /\ request'[r].at = "find"
      /\ UNCHANGED library
  BY LibraryNow, ReceiveFacts
<1>2. Knows(r)'
  BY <1>1 DEF Knows
<1>3. QED
  BY <1>1, <1>2, StepBeside

LEMMA DeleteTagsKeeps ==
  ASSUME LibraryInv, NEW r \in Requests, DeleteTags(r)
  PROVE  /\ LibraryInv' /\ FilesStay /\ OthersStay(r) /\ UNCHANGED library
         /\ request'[r] # None /\ request'[r].at = "insert" /\ request'[r].ask = request[r].ask
         /\ request'[r].row = request[r].row /\ request'[r].seen = tags[request[r].row]
<1>1. LibraryTypeOK /\ request[r] # None /\ request[r].at = "delete" /\ request[r].row \in Rows /\ UNCHANGED library
  BY LibraryNow DEF DeleteTags, At
<1> DEFINE found == tags[request[r].row]
<1>2. found \in SUBSET (UNION TagSets)
  BY <1>1 DEF Rows, LibraryTypeOK
<1>3. request' = [request EXCEPT ![r].seen = found, ![r].at = "insert"]
  BY DEF DeleteTags
<1> HIDE DEF found
<1>4. Moved(r, "insert", request[r].row, found)
  BY <1>1, <1>2, <1>3, SeenMoves
<1>5. Knows(r)
  BY <1>1, LibraryNow
<1>6. created' = created /\ content' = content /\ Rows' = Rows
  BY <1>1 DEF library, Rows
<1>7. Knows(r)'
  BY <1>1, <1>4, <1>5, <1>6 DEF Knows, Moved
<1>8. found = tags[request[r].row]
  BY DEF found
<1>9. QED
  BY <1>1, <1>4, <1>7, <1>8, StepBeside DEF Moved

-----------------------------------------------------------------------------
(* The writes: what becomes of the rows, and what the request knows then.        *)

LEMMA AskTyped ==
  ASSUME LibraryTypeOK, NEW r \in Requests, request[r] # None
  PROVE  /\ request[r].ask.op = "create" =>
              request[r].ask \in [op : {"create"}, file : Files, status : Statuses, tags : TagSets \cup {None}]
         /\ request[r].ask.op = "update" =>
              request[r].ask \in
                [op : {"update"}, row : Contents, status : Statuses \cup {None}, tags : TagSets \cup {None}]
  BY RequestTyped DEF Asks

LEMMA CreateRowKeeps ==
  ASSUME LibraryInv, NEW r \in Requests, CreateRow(r)
  PROVE  LibraryInv' /\ FilesStay
<1>1. /\ request[r] # None /\ request[r].ask.op = "create" /\ created' = created + 1 /\ created' \in Contents
      /\ tags' = tags /\ Moved(r, AfterRow(r), created', request[r].seen)
      /\ content' \in [Contents -> ContentRows \cup {None}]
      /\ Rows' = Rows \cup {created'} /\ created' \notin Rows
      /\ content'[created'].file = request[r].ask.file
      /\ \A c \in Rows : content'[c] = content[c]
  BY LibraryNow, CreatedRow
<1>2. created \in Nat /\ created' \in 0 .. MaxContents /\ created' \in 1 .. created' /\ Rows' \subseteq 1 .. created'
  BY <1>1, LibraryNow, ContentsAssumption DEF Contents
<1>3. FilesStay
  <2>1. \A c \in 1 .. created : c # created'
    BY <1>1, LibraryNow
  <2>2. created <= created'
    BY <1>1, <1>2
  <2>3. QED
    BY <1>1, <2>1, <2>2 DEF FilesStay
<1>4. request[r].ask.tags \in TagSets \cup {None}
  BY <1>1, LibraryNow, AskTyped
<1>5. Knows(r)'
  BY <1>1, <1>2, <1>4 DEF Knows, Moved, AfterRow
<1>6. \A c \in Contents \ Rows' : tags'[c] = {}
  BY <1>1, LibraryNow
<1>7. OthersKeep(r)
  BY <1>1 DEF Moved, OthersStay, OthersKeep
<1>8. QED
  BY <1>1, <1>2, <1>3, <1>5, <1>6, <1>7, LibraryNow, StepOfOne DEF Moved

(* A write to a row in the library changes its status at most.                   *)
LEMMA StatusKeeps ==
  ASSUME LibraryInv, NEW r \in Requests, NEW c \in Rows, NEW status \in Statuses,
         content' = [content EXCEPT ![c].status = status], created' = created, tags' = tags,
         request' \in [Requests -> InFlight \cup {None}], OthersStay(r), request'[r] # None => Knows(r)'
  PROVE  LibraryInv' /\ FilesStay
<1>1. /\ content' \in [Contents -> ContentRows \cup {None}] /\ Rows' = Rows
      /\ \A d \in Rows : content'[d].file = content[d].file
  BY LibraryNow, WrittenRow
<1>2. FilesStay
  BY <1>1, LibraryNow DEF FilesStay
<1>3. OthersKeep(r)
  BY DEF OthersKeep, OthersStay
<1>4. QED
  BY <1>1, <1>2, <1>3, LibraryNow, StepOfOne

LEMMA UpdateRowKeeps ==
  ASSUME LibraryInv, NEW r \in Requests, UpdateRow(r)
  PROVE  /\ LibraryInv' /\ FilesStay /\ OthersStay(r) /\ tags' = tags
         /\ request[r] # None /\ request[r].ask.op = "update"
         /\ request'[r] # None /\ request'[r].ask = request[r].ask /\ request'[r].at \in {"delete", "answer"}
<1>1. /\ LibraryTypeOK /\ request[r] # None /\ request[r].at = "store" /\ request[r].ask.op = "update"
      /\ request[r].row \in Rows /\ created' = created /\ tags' = tags
  BY LibraryNow DEF UpdateRow, At
<1> DEFINE c == request[r].row
           status == IF request[r].ask.status = None THEN content[c].status ELSE request[r].ask.status
<1>2. content[c] \in ContentRows
  BY <1>1 DEF Rows, LibraryTypeOK
<1>3. request[r].ask.status \in Statuses \cup {None} /\ request[r].ask.tags \in TagSets \cup {None}
  BY <1>1, AskTyped
<1>4. status \in Statuses
  BY <1>2, <1>3 DEF ContentRows
<1>5. content' = [content EXCEPT ![c].status = status]
  BY DEF UpdateRow
<1>6. Moved(r, AfterRow(r), c, request[r].seen)
  BY <1>1, GotoMoves DEF UpdateRow, AfterRow, Steps
<1>7. c \in 1 .. created'
  BY <1>1, LibraryNow
<1>8. Knows(r)'
  BY <1>1, <1>3, <1>6, <1>7 DEF Knows, Moved, AfterRow
<1>9. AfterRow(r) \in {"delete", "answer"}
  BY DEF AfterRow
<1> HIDE DEF status
<1>10. LibraryInv' /\ FilesStay
  BY <1>1, <1>4, <1>5, <1>6, <1>8, StatusKeeps DEF Moved
<1>11. QED
  BY <1>1, <1>6, <1>9, <1>10 DEF Moved

LEMMA ArchiveRowKeeps ==
  ASSUME LibraryInv, NEW r \in Requests, ArchiveRow(r) \/ RestoreRow(r)
  PROVE  LibraryInv' /\ FilesStay /\ OthersStay(r) /\ tags' = tags /\ request'[r] = None
<1>1. LibraryTypeOK /\ request[r].row \in Rows /\ created' = created /\ tags' = tags /\ Finish(r)
  BY LibraryNow DEF ArchiveRow, RestoreRow
<1>2. PICK status \in Statuses : content' = [content EXCEPT ![request[r].row].status = status]
  BY DEF ArchiveRow, RestoreRow, Statuses
<1>3. request' \in [Requests -> InFlight \cup {None}] /\ request'[r] = None /\ OthersStay(r)
  BY <1>1, FinishFacts
<1>4. QED
  BY <1>1, <1>2, <1>3, StatusKeeps

LEMMA DeleteRowKeeps ==
  ASSUME LibraryInv, NEW r \in Requests, DeleteRow(r)
  PROVE  /\ LibraryInv' /\ FilesStay /\ OthersStay(r) /\ request'[r] = None
         /\ Rows' \subseteq Rows /\ \A d \in Rows' : content'[d] = content[d]
         /\ \A d \in Contents : tags'[d] = {} \/ tags'[d] = tags[d]
<1>1. LibraryTypeOK /\ request[r].row \in Rows /\ created' = created /\ Finish(r)
  BY LibraryNow DEF DeleteRow
<1> DEFINE c == request[r].row
<1>2. /\ content' \in [Contents -> ContentRows \cup {None}] /\ Rows' = Rows \ {c}
      /\ \A d \in Rows' : content'[d] = content[d]
      /\ tags' \in [Contents -> SUBSET (UNION TagSets)]
      /\ tags'[c] = {} /\ \A d \in Contents : (d # c => tags'[d] = tags[d])
  BY <1>1, DeletedRow DEF DeleteRow
<1>3. request' \in [Requests -> InFlight \cup {None}] /\ request'[r] = None /\ OthersStay(r)
  BY <1>1, FinishFacts
<1>4. FilesStay
  BY <1>1, <1>2, LibraryNow DEF FilesStay
<1>5. OthersKeep(r)
  BY <1>3 DEF OthersKeep, OthersStay
<1>6. \A d \in Contents \ Rows' : tags'[d] = {}
  BY <1>2, LibraryNow
<1>7. LibraryInv'
  BY <1>1, <1>2, <1>3, <1>4, <1>5, <1>6, LibraryNow, StepOfOne
<1>8. QED
  BY <1>2, <1>3, <1>4, <1>7

(* Of a request that is about to insert tags for the same row only what it has   *)
(* found to delete changes.                                                      *)
LEMMA InsertedTags ==
  ASSUME LibraryInv, NEW r \in Requests, InsertTags(r)
  PROVE  /\ request' \in [Requests -> InFlight \cup {None}] /\ OthersKeep(r)
         /\ request'[r] # None /\ request'[r].ask = request[r].ask /\ request'[r].at = "answer"
         /\ request'[r].row = request[r].row
         /\ \A q \in Requests \ {r} :
              request'[q] # request[q] => At(q, "insert") /\ request[q].row = request[r].row
<1>1. LibraryTypeOK /\ request[r] # None /\ request[r].at = "insert"
  BY LibraryNow DEF InsertTags, At
<1> DEFINE same(q) == q # r /\ At(q, "insert") /\ request[q].row = request[r].row
           done == [request[r] EXCEPT !.at = "answer"]
           less(q) == [request[q] EXCEPT !.seen = @ \ request[r].seen]
<1>2. request' = [q \in Requests |-> IF q = r THEN done ELSE IF same(q) THEN less(q) ELSE request[q]]
  BY DEF InsertTags
<1>3. done \in InFlight /\ done.ask = request[r].ask /\ done.at = "answer" /\ done.row = request[r].row
  BY <1>1, RequestTyped DEF InFlight
<1>4. ASSUME NEW q \in Requests, same(q)
      PROVE  /\ less(q) \in InFlight /\ less(q).ask = request[q].ask /\ less(q).at = request[q].at
             /\ less(q).row = request[q].row /\ request[q] # None
  <2>1. request[q] # None
    BY <1>4 DEF At
  <2>2. request[q] \in InFlight /\ request[q].seen \in SUBSET (UNION TagSets)
    BY <1>1, <2>1, RequestTyped
  <2>3. (request[q].seen \ request[r].seen) \in SUBSET (UNION TagSets)
    BY <2>2
  <2>4. QED
    BY <2>1, <2>2, <2>3 DEF InFlight
<1>5. \A q \in Requests : request[q] \in InFlight \cup {None}
  BY <1>1 DEF LibraryTypeOK
<1> HIDE DEF done, less
<1>6. request' \in [Requests -> InFlight \cup {None}] /\ request'[r] = done
  BY <1>2, <1>3, <1>4, <1>5
<1>7. ASSUME NEW q \in Requests \ {r}
      PROVE  request'[q] = IF same(q) THEN less(q) ELSE request[q]
  BY <1>2
<1>8. OthersKeep(r)
  BY <1>4, <1>7 DEF OthersKeep
<1>9. \A q \in Requests \ {r} : request'[q] # request[q] => At(q, "insert") /\ request[q].row = request[r].row
  BY <1>7
<1>10. QED
  BY <1>3, <1>6, <1>8, <1>9, NoneAssumption

LEMMA InsertTagsKeeps ==
  ASSUME LibraryInv, NEW r \in Requests, InsertTags(r)
  PROVE  LibraryInv' /\ FilesStay
<1>1. /\ request' \in [Requests -> InFlight \cup {None}] /\ OthersKeep(r)
      /\ request'[r] # None /\ request'[r].ask = request[r].ask /\ request'[r].at = "answer"
      /\ request'[r].row = request[r].row
  BY InsertedTags
<1>2. /\ LibraryTypeOK /\ request[r] # None /\ request[r].at = "insert" /\ request[r].row \in Rows
      /\ created' = created /\ content' = content
  BY LibraryNow DEF InsertTags, At
<1>3. Rows' = Rows /\ FilesStay
  BY <1>2, LibraryNow DEF Rows, FilesStay
<1>4. Knows(r)
  BY <1>2, LibraryNow
<1>5. Knows(r)'
  BY <1>1, <1>2, <1>3, <1>4 DEF Knows
<1> DEFINE c == request[r].row
           given == (tags[c] \ request[r].seen) \cup request[r].ask.tags
<1>6. tags' = [tags EXCEPT ![c] = given]
  BY DEF InsertTags, Kept
<1>7. request[r].ask.tags \in TagSets
  BY <1>2, <1>4 DEF Knows
<1>8. c \in Contents /\ tags[c] \in SUBSET (UNION TagSets)
  BY <1>2 DEF Rows, LibraryTypeOK
<1>9. given \in SUBSET (UNION TagSets)
  BY <1>7, <1>8
<1> HIDE DEF given
<1>10. tags' \in [Contents -> SUBSET (UNION TagSets)] /\ \A d \in Contents \ Rows' : tags'[d] = {}
  BY <1>2, <1>3, <1>6, <1>8, <1>9, LibraryNow
<1>11. QED
  BY <1>1, <1>2, <1>3, <1>5, <1>10, LibraryNow, StepOfOne

-----------------------------------------------------------------------------
(* The library and its form together.                                           *)

LibraryStep(r) == Handle(r) \/ Fail(r) \/ Done(r) \/ \E ask \in Asks : Receive(r, ask)

LEMMA LibraryStepKeeps ==
  ASSUME LibraryInv, NEW r \in Requests, LibraryStep(r)
  PROVE  LibraryInv' /\ FilesStay
<1>1. CASE FindFile(r) \/ GetFile(r) \/ FindRow(r)
  BY <1>1, FindFileKeeps, GetFileKeeps, FindRowKeeps
<1>2. CASE CreateRow(r) \/ UpdateRow(r) \/ ArchiveRow(r) \/ RestoreRow(r) \/ DeleteRow(r)
  BY <1>2, CreateRowKeeps, UpdateRowKeeps, ArchiveRowKeeps, DeleteRowKeeps
<1>3. CASE DeleteTags(r) \/ InsertTags(r)
  BY <1>3, DeleteTagsKeeps, InsertTagsKeeps
<1>4. CASE Fail(r) \/ Done(r)
  BY <1>4, EndKeeps DEF Fail, Done
<1>5. ASSUME NEW ask \in Asks, Receive(r, ask) PROVE LibraryInv' /\ FilesStay
  BY <1>5, ReceiveKeeps
<1>6. QED
  BY <1>1, <1>2, <1>3, <1>4, <1>5 DEF LibraryStep, Handle

(* While it is handled a request asks for the same, and no slot is filled.       *)
LEMMA HandledAsk ==
  ASSUME LibraryInv, NEW r \in Requests, Handle(r) \/ Fail(r)
  PROVE  /\ request[r] # None /\ OthersKeep(r)
         /\ request'[r] # None => request'[r].ask = request[r].ask
<1>1. request[r] # None
  BY DEF Handle, Fail, FindFile, GetFile, CreateRow, FindRow, UpdateRow, ArchiveRow, RestoreRow, DeleteRow,
         DeleteTags, InsertTags, At
<1>2. OthersStay(r) => OthersKeep(r)
  BY DEF OthersStay, OthersKeep
<1>3. CASE FindFile(r) \/ GetFile(r)
  BY <1>1, <1>2, <1>3, FindFileKeeps, GetFileKeeps
<1>4. CASE FindRow(r)
  <2>1. CASE request[r].ask.row \in Rows
    <3>1. request[r].ask.row \in Contents /\ LibraryTypeOK
      BY <2>1, LibraryNow DEF Rows
    <3>2. request' = [request EXCEPT ![r].row = request[r].ask.row, ![r].at = "store"]
      BY <1>4, <2>1 DEF FindRow
    <3>3. Moved(r, "store", request[r].ask.row, request[r].seen)
      BY <1>1, <3>1, <3>2, RowMoves DEF Steps
    <3>4. QED
      BY <1>1, <1>2, <3>3 DEF Moved
  <2>2. CASE request[r].ask.row \notin Rows
    <3>1. Finish(r)
      BY <1>4, <2>2 DEF FindRow
    <3>2. QED
      BY <1>1, <1>2, <3>1, LibraryNow, FinishFacts
  <2>3. QED
    BY <2>1, <2>2
<1>5. CASE CreateRow(r)
  BY <1>1, <1>2, <1>5, LibraryNow, CreatedRow DEF Moved
<1>6. CASE UpdateRow(r)
  BY <1>1, <1>2, <1>6, UpdateRowKeeps
<1>7. CASE ArchiveRow(r) \/ RestoreRow(r) \/ DeleteRow(r)
  BY <1>1, <1>2, <1>7, ArchiveRowKeeps, DeleteRowKeeps
<1>8. CASE DeleteTags(r) \/ InsertTags(r)
  BY <1>1, <1>2, <1>8, DeleteTagsKeeps, InsertedTags
<1>9. CASE Fail(r)
  BY <1>1, <1>2, <1>9, LibraryNow, FinishFacts DEF Fail
<1>10. QED
  BY <1>3, <1>4, <1>5, <1>6, <1>7, <1>8, <1>9 DEF Handle

Listings == Seq([row : 1 .. created, file : Files])
Links == [content : 1 .. created, file : Files, meant : Selections]
Forms ==
  [source : {"drive", "library"}, contentId : Contents \cup {None}, file : Files \cup {None},
   listed : Listings, loading : BOOLEAN, stage : Stages, sending : Contents \cup {None}, meant : Selections]

LEMMA FormTyping == FormTypeOK <=> form \in Forms /\ made \in Links \cup {None}
  BY DEF FormTypeOK, Forms, Links, Listings

(* What the form knows at each of its stages: of the request it has made, and of  *)
(* the content it is about to link.                                              *)
ToLink == [content |-> form.sending, file |-> content[form.sending].file, meant |-> form.meant]
FormKnows ==
  /\ form.stage # "registering" => request[Form] = None
  /\ form.stage = "registering" /\ request[Form] # None =>
       /\ request[Form].ask.op = "create"
       /\ form.meant = [kind |-> "file", file |-> request[Form].ask.file]
  /\ form.contentId # None => form.contentId \in 1 .. created
  /\ form.stage = "linking" => form.sending \in 1 .. created /\ (form.sending \in Rows => IsFor(ToLink))

FormInv == LibraryInv /\ FormTypeOK /\ FormKnows /\ LinkedAsShown

LEMMA FormNow ==
  ASSUME FormInv
  PROVE  LibraryInv /\ form \in Forms /\ made \in Links \cup {None} /\ FormKnows /\ LinkedAsShown
  BY FormTyping DEF FormInv

(* Rows that are added leave the form as well formed as it was.                  *)
LEMMA FormGrows ==
  ASSUME FormInv, LibraryInv', FilesStay, UNCHANGED <<form, made>>
  PROVE  FormTypeOK' /\ LinkedAsShown'
<1>1. created \in Nat /\ created' \in Nat /\ created <= created'
  BY LibraryNow, ContentsAssumption DEF FormInv, FilesStay, LibraryInv, LibraryTypeOK
<1> DEFINE items == [row : 1 .. created, file : Files]
           more == [row : 1 .. created', file : Files]
<1>2. 1 .. created \subseteq 1 .. created'
  BY <1>1
<1>3. items \subseteq more
  BY <1>2
<1>4. Listings = Seq(items) /\ Listings' = Seq(more)
  BY DEF Listings
<1> HIDE DEF items, more
<1>5. Listings \subseteq Listings'
  BY <1>3, <1>4
<1>6. Links \subseteq Links'
  BY <1>2 DEF Links, Selections, Nothing, Contents
<1>7. Forms \subseteq Forms'
  BY <1>5 DEF Forms, Selections, Nothing, Contents, Stages
<1>8. form' \in Forms' /\ made' \in Links' \cup {None}
  BY <1>6, <1>7, FormNow
<1>9. (form \in Forms /\ made \in Links \cup {None})' => FormTypeOK'
  BY DEF FormTypeOK, Forms, Links, Listings
<1>10. FormTypeOK'
  BY <1>8, <1>9
<1>11. LinkedAsShown'
  BY FormNow DEF LinkedAsShown, IsFor
<1>12. QED
  BY <1>10, <1>11

(* Beside the form: a request on its behalf goes on, or fails, and asks for the   *)
(* same until then; the content it is about to link keeps its file.              *)
LEMMA ServeKeepsForm ==
  ASSUME FormInv, Serve
  PROVE  FormInv'
<1>1. PICK r \in Requests :
        \/ Handle(r) \/ Fail(r)
        \/ r # Form /\ (Done(r) \/ \E ask \in Bodies : Receive(r, ask))
  BY DEF Serve
<1>2. LibraryStep(r)
  BY <1>1, BodiesAssumption DEF LibraryStep
<1>3. LibraryInv' /\ FilesStay /\ form' = form /\ made' = made
  BY <1>2, FormNow, LibraryStepKeeps DEF Serve
<1>4. FormTypeOK' /\ LinkedAsShown'
  BY <1>3, FormGrows
<1>5. /\ request'[Form] # None => request[Form] # None /\ request'[Form].ask = request[Form].ask
  <2>1. CASE r = Form
    BY <1>1, <2>1, FormNow, HandledAsk
  <2>2. CASE r # Form
    <3>1. OthersKeep(r)
      <4>1. CASE Handle(r) \/ Fail(r)
        BY <4>1, FormNow, HandledAsk
      <4>2. CASE Done(r)
        BY <4>2, FormNow, LibraryNow, FinishFacts DEF Done, OthersStay, OthersKeep
      <4>3. ASSUME NEW ask \in Asks, Receive(r, ask) PROVE OthersKeep(r)
        BY <4>3, FormNow, ReceiveKeeps DEF OthersStay, OthersKeep
      <4>4. QED
        BY <1>1, <4>1, <4>2, <4>3, BodiesAssumption
    <3>2. QED
      BY <2>2, <3>1, FormAssumption DEF OthersKeep
  <2>3. QED
    BY <2>1, <2>2
<1>6. created \in Nat /\ created' \in Nat /\ created <= created'
  BY <1>3, LibraryNow, ContentsAssumption DEF FormInv, FilesStay, LibraryInv, LibraryTypeOK
<1>7. \A c : c \in 1 .. created => c \in 1 .. created'
  BY <1>6
<1>8. ASSUME form.stage = "linking" PROVE form.sending \in 1 .. created' /\ (form.sending \in Rows' => IsFor(ToLink)')
  <2>1. form.sending \in 1 .. created /\ (form.sending \in Rows => IsFor(ToLink))
    BY <1>8, FormNow DEF FormKnows
  <2>2. form.sending \in Rows' => form.sending \in Rows /\ content'[form.sending].file = content[form.sending].file
    BY <1>3, <2>1 DEF FilesStay
  <2>3. form.sending \in Rows' => ToLink' = ToLink
    BY <1>3, <2>2 DEF ToLink
  <2>4. \A l : IsFor(l)' <=> IsFor(l)
    BY DEF IsFor
  <2>5. form.sending \in Rows' => IsFor(ToLink)'
    BY <2>1, <2>2, <2>3 DEF IsFor
  <2>6. QED
    BY <1>7, <2>1, <2>5
<1>9. FormKnows'
  BY <1>3, <1>5, <1>7, <1>8, FormNow DEF FormKnows
<1>10. QED
  BY <1>3, <1>4, <1>9 DEF FormInv

(* An edit, wherever it happens: what is being linked is not touched by it.      *)
LEMMA EditKeepsForm ==
  ASSUME FormInv, UNCHANGED libraryVars, form' \in Forms, made' = made \/ made' = None,
         form'.contentId # None => form'.contentId \in 1 .. created,
         \/ form'.stage = form.stage /\ form'.meant = form.meant /\ form'.sending = form.sending
         \/ form'.stage \notin {"registering", "linking"} /\ request[Form] = None
  PROVE  FormInv'
<1>1. created' = created /\ content' = content /\ tags' = tags /\ request' = request /\ Rows' = Rows
  BY DEF libraryVars, library, Rows
<1>2. LibraryInv'
  <2>1. LibraryTypeOK'
    BY <1>1, FormNow, LibraryNow DEF LibraryTypeOK
  <2>2. \A q \in Requests : request'[q] # None => Knows(q)'
    BY <1>1, FormNow, LibraryNow DEF Knows
  <2>3. QED
    BY <2>1, <2>2 DEF LibraryInv
<1>3. (form \in Forms /\ made \in Links \cup {None})' => FormTypeOK'
  BY DEF FormTypeOK, Forms, Links, Listings
<1>4. Forms' = Forms /\ Links' = Links
  BY <1>1 DEF Forms, Links, Listings
<1>5. made' \in Links \cup {None}
  BY FormNow
<1>6. FormTypeOK'
  BY <1>3, <1>4, <1>5
<1>7. LinkedAsShown'
  BY FormNow DEF LinkedAsShown, IsFor
<1>8. CASE form'.stage = form.stage /\ form'.meant = form.meant /\ form'.sending = form.sending
  <2>1. ToLink' = ToLink
    BY <1>1, <1>8 DEF ToLink
  <2>2. form'.stage = "linking" => form'.sending \in 1 .. created' /\ (form'.sending \in Rows' => IsFor(ToLink)')
    BY <1>1, <1>8, <2>1, FormNow DEF FormKnows, IsFor
  <2>3. FormKnows'
    BY <1>1, <1>8, <2>2, FormNow DEF FormKnows
  <2>4. QED
    BY <1>2, <1>6, <1>7, <2>3 DEF FormInv
<1>9. CASE form'.stage \notin {"registering", "linking"} /\ request[Form] = None
  BY <1>1, <1>2, <1>6, <1>7, <1>9 DEF FormInv, FormKnows
<1>10. QED
  BY <1>8, <1>9

LEMMA FormFields ==
  ASSUME FormInv
  PROVE  /\ form \in Forms /\ form.listed \in Listings /\ form.file \in Files \cup {None}
         /\ form.contentId \in Contents \cup {None} /\ form.source \in {"drive", "library"}
         /\ form.meant \in Selections /\ form.sending \in Contents \cup {None} /\ form.stage \in Stages
         /\ form.contentId # None => form.contentId \in 1 .. created
         /\ form.stage # "registering" => request[Form] = None
         /\ ListedRows \subseteq 1 .. created
<1>1. form \in Forms /\ FormKnows
  BY FormNow
<1>2. form.listed \in Listings
  BY <1>1 DEF Forms
<1> DEFINE items == [row : 1 .. created, file : Files]
<1>3. Listings = Seq(items)
  BY DEF Listings
<1>4. \A i \in items : i.row \in 1 .. created
  OBVIOUS
<1> HIDE DEF items
<1>5. form.listed \in [1 .. Len(form.listed) -> items]
  BY <1>2, <1>3, LenProperties
<1>6. \A i \in DOMAIN form.listed : form.listed[i].row \in 1 .. created
  BY <1>4, <1>5
<1>7. ListedRows \subseteq 1 .. created
  BY <1>6 DEF ListedRows
<1>8. QED
  BY <1>1, <1>2, <1>7 DEF Forms, FormKnows

LEMMA ListContentsKeeps ==
  ASSUME FormInv, ListContents
  PROVE  FormInv'
<1>1. UNCHANGED libraryVars /\ made' = made
  BY DEF ListContents
<1>2. PICK newest \in NewestFirst(Active) :
        form' = [form EXCEPT !.loading = FALSE, !.listed = [i \in DOMAIN newest |-> Listed(newest[i])]]
  BY DEF ListContents
<1> DEFINE items == [row : 1 .. created, file : Files]
           list == [i \in DOMAIN newest |-> Listed(newest[i])]
<1>3. Active \subseteq 1 .. created /\ IsFiniteSet(Active) /\ Cardinality(Active) \in Nat
  <2>1. Active \subseteq 1 .. created /\ created \in Nat
    BY FormNow, LibraryNow DEF Active
  <2>2. IsFiniteSet(1 .. created)
    BY <2>1, FS_Interval
  <2>3. QED
    BY <2>1, <2>2, FS_Subset, FS_CardinalityType
<1>4. newest \in [1 .. Cardinality(Active) -> Active]
  BY DEF NewestFirst
<1>5. \A c \in Active : Listed(c) \in items
  BY <1>3, FormNow, LibraryNow DEF Active, Rows, Listed, ContentRows
<1> HIDE DEF items
<1>6. list \in [1 .. Cardinality(Active) -> items]
  BY <1>4, <1>5
<1>7. list \in Seq(items)
  BY <1>3, <1>6, IsASeq
<1>8. list \in Listings
  BY <1>7 DEF items, Listings
<1> HIDE DEF list
<1>9. form' = [form EXCEPT !.loading = FALSE, !.listed = list]
  BY <1>2 DEF list
<1>10. /\ form' \in Forms /\ form'.contentId = form.contentId
       /\ form'.stage = form.stage /\ form'.meant = form.meant /\ form'.sending = form.sending
  BY <1>8, <1>9, FormFields DEF Forms
<1>11. QED
  BY <1>1, <1>10, FormFields, EditKeepsForm

LEMMA OpenPageKeeps ==
  ASSUME FormInv, OpenPage
  PROVE  FormInv'
<1>1. UNCHANGED libraryVars /\ made' = None /\ form.stage # "registering"
  BY DEF OpenPage
<1>2. PICK preset \in Rows \cup {None} :
        form' = [EmptyForm EXCEPT !.stage = "editing", !.contentId = preset,
          !.source = IF preset = None THEN "drive" ELSE "library"]
  BY DEF OpenPage
<1>3. preset # None => preset \in 1 .. created /\ preset \in Contents
  BY FormNow, LibraryNow
<1>4. <<>> \in Listings
  BY DEF Listings
<1>5. form' \in Forms /\ form'.contentId = preset /\ form'.stage = "editing"
  BY <1>2, <1>3, <1>4 DEF EmptyForm, Forms, Stages, Selections, Nothing
<1>6. QED
  BY <1>1, <1>3, <1>5, FormFields, EditKeepsForm

LEMMA ChooseKeeps ==
  ASSUME FormInv, ChooseDrive \/ ChooseLibrary
  PROVE  FormInv'
<1>1. UNCHANGED libraryVars /\ made' = made
  BY DEF ChooseDrive, ChooseLibrary
<1>2. /\ form' \in Forms /\ form'.contentId \in {form.contentId, None}
      /\ form'.stage = form.stage /\ form'.meant = form.meant /\ form'.sending = form.sending
  BY FormFields DEF ChooseDrive, ChooseLibrary, Forms
<1>3. QED
  BY <1>1, <1>2, FormFields, EditKeepsForm

LEMMA SelectKeeps ==
  ASSUME FormInv, (\E f \in Files : SelectFile(f)) \/ (\E c \in Contents : SelectContent(c))
  PROVE  FormInv'
<1>1. UNCHANGED libraryVars /\ made' = made
  BY DEF SelectFile, SelectContent
<1>2. ASSUME NEW f \in Files, SelectFile(f) PROVE FormInv'
  <2> DEFINE c == IF Registered(f) = {} THEN None ELSE form.listed[Max(Registered(f))].row
  <2>1. c # None => c \in ListedRows
    <3>1. SUFFICES ASSUME Registered(f) # {} PROVE c \in ListedRows
      OBVIOUS
    <3>2. Len(form.listed) \in Nat /\ DOMAIN form.listed = 1 .. Len(form.listed)
      BY FormFields, LenProperties DEF Listings
    <3>3. Max(Registered(f)) \in Registered(f)
      BY <3>1, <3>2, MaxOfContents DEF Registered
    <3>4. Max(Registered(f)) \in DOMAIN form.listed
      BY <3>3 DEF Registered
    <3>5. QED
      BY <3>1, <3>4 DEF ListedRows
  <2>2. form' = [form EXCEPT !.file = f, !.contentId = c]
    BY <1>2 DEF SelectFile
  <2> HIDE DEF c
  <2>3. c # None => c \in 1 .. created /\ c \in Contents
    BY <2>1, FormFields, FormNow, LibraryNow
  <2>4. /\ form' \in Forms /\ form'.contentId = c
        /\ form'.stage = form.stage /\ form'.meant = form.meant /\ form'.sending = form.sending
    BY <2>2, <2>3, FormFields DEF Forms
  <2>5. QED
    BY <1>1, <2>3, <2>4, EditKeepsForm
<1>3. ASSUME NEW c \in Contents, SelectContent(c) PROVE FormInv'
  <2>1. form' = [form EXCEPT !.contentId = c] /\ c \in ListedRows
    BY <1>3 DEF SelectContent
  <2>2. /\ form' \in Forms /\ form'.contentId = c /\ c \in 1 .. created
        /\ form'.stage = form.stage /\ form'.meant = form.meant /\ form'.sending = form.sending
    BY <2>1, FormFields DEF Forms
  <2>3. QED
    BY <1>1, <2>2, EditKeepsForm
<1>4. QED
  BY <1>2, <1>3

(* What is sent is what was captured when the button was pressed.               *)
LEMMA ShownTyped ==
  ASSUME FormInv
  PROVE  /\ Shown \in Selections
         /\ form.source = "drive" /\ form.file # None =>
              form.file \in Files /\ Shown = [kind |-> "file", file |-> form.file]
         /\ ~(form.source = "drive" /\ form.file # None) =>
              Shown = Nothing \/ Shown = [kind |-> "content", row |-> form.contentId]
<1>1. form.contentId \in ListedRows => form.contentId \in Contents
  BY FormFields, FormNow, LibraryNow
<1>2. form.source \in {"drive", "library"} /\ form.file \in Files \cup {None}
  BY FormFields
<1>3. CASE form.source = "drive"
  BY <1>2, <1>3 DEF Shown, Selections
<1>4. CASE form.source = "library"
  BY <1>1, <1>4 DEF Shown, Selections
<1>5. QED
  BY <1>2, <1>3, <1>4

LEMMA SubmitFileKeeps ==
  ASSUME FormInv, SubmitFile
  PROVE  FormInv'
<1> DEFINE ask == [op |-> "create", file |-> form.file, status |-> "ACTIVE", tags |-> None]
<1>1. /\ form.stage = "editing" /\ form.source = "drive" /\ form.file # None /\ Receive(Form, ask) /\ made' = made
      /\ form' = [form EXCEPT !.stage = "registering", !.meant = Shown]
  BY DEF SubmitFile
<1>2. form.file \in Files /\ Shown = [kind |-> "file", file |-> form.file] /\ Shown \in Selections
  BY <1>1, ShownTyped
<1>3. ask \in Asks /\ ask.op = "create" /\ ask.file = form.file
  BY <1>2 DEF Asks, Statuses
<1> HIDE DEF ask
<1>4. /\ LibraryInv' /\ FilesStay /\ UNCHANGED library
      /\ request'[Form] # None /\ request'[Form].ask = ask
  BY <1>1, <1>3, FormNow, FormAssumption, ReceiveKeeps
<1>5. created' = created
  BY <1>4 DEF library
<1>6. /\ form' \in Forms /\ form'.stage = "registering" /\ form'.meant = Shown /\ form'.contentId = form.contentId
  BY <1>1, <1>2, FormFields DEF Forms, Stages
<1>7. Forms' = Forms /\ Links' = Links
  BY <1>5 DEF Forms, Links, Listings
<1>8. (form \in Forms /\ made \in Links \cup {None})' => FormTypeOK'
  BY DEF FormTypeOK, Forms, Links, Listings
<1>9. FormTypeOK' /\ LinkedAsShown'
  BY <1>1, <1>6, <1>7, <1>8, FormNow DEF LinkedAsShown, IsFor
<1>10. FormKnows'
  BY <1>2, <1>3, <1>4, <1>5, <1>6, FormFields DEF FormKnows
<1>11. QED
  BY <1>4, <1>9, <1>10 DEF FormInv

(* Nothing but the page changes.                                                *)
LEMMA PageKeeps ==
  ASSUME FormInv, UNCHANGED libraryVars, form' \in Forms, made' \in Links \cup {None},
         FormKnows', LinkedAsShown'
  PROVE  FormInv'
<1>1. created' = created /\ content' = content /\ tags' = tags /\ request' = request /\ Rows' = Rows
  BY DEF libraryVars, library, Rows
<1>2. LibraryInv'
  <2>1. LibraryTypeOK'
    BY <1>1, FormNow, LibraryNow DEF LibraryTypeOK
  <2>2. \A q \in Requests : request'[q] # None => Knows(q)'
    BY <1>1, FormNow, LibraryNow DEF Knows
  <2>3. QED
    BY <2>1, <2>2 DEF LibraryInv
<1>3. (form \in Forms /\ made \in Links \cup {None})' => FormTypeOK'
  BY DEF FormTypeOK, Forms, Links, Listings
<1>4. Forms' = Forms /\ Links' = Links
  BY <1>1 DEF Forms, Links, Listings
<1>5. QED
  BY <1>2, <1>3, <1>4 DEF FormInv

LEMMA SubmitContentKeeps ==
  ASSUME FormInv, SubmitContent
  PROVE  FormInv'
<1>1. /\ form.stage = "editing" /\ ~(form.source = "drive" /\ form.file # None) /\ form.contentId # None
      /\ form' = [form EXCEPT !.stage = "linking", !.meant = Shown, !.sending = form.contentId]
      /\ UNCHANGED libraryVars /\ made' = made
  BY DEF SubmitContent, Complete
<1>2. Shown \in Selections /\ (Shown = Nothing \/ Shown = [kind |-> "content", row |-> form.contentId])
  BY <1>1, ShownTyped
<1>3. /\ form' \in Forms /\ form'.stage = "linking" /\ form'.meant = Shown
      /\ form'.sending = form.contentId /\ form'.contentId = form.contentId
  BY <1>1, <1>2, FormFields DEF Forms, Stages
<1>4. form.contentId \in 1 .. created
  BY <1>1, FormFields
<1>5. created' = created /\ content' = content /\ request' = request /\ Rows' = Rows
  BY <1>1 DEF libraryVars, library, Rows
<1>6. ToLink' = [content |-> form.contentId, file |-> content[form.contentId].file, meant |-> Shown]
  BY <1>3, <1>5 DEF ToLink
<1>7. IsFor(ToLink)'
  BY <1>2, <1>6 DEF IsFor, Nothing
<1>8. FormKnows'
  BY <1>1, <1>3, <1>4, <1>5, <1>7, FormFields DEF FormKnows
<1>9. LinkedAsShown'
  BY <1>1, FormNow DEF LinkedAsShown, IsFor
<1>10. QED
  BY <1>1, <1>3, <1>8, <1>9, FormNow, PageKeeps

(* The answer to a registration: the content it names is for the file that was   *)
(* captured, and from then on the form is about to link that content.            *)
LEMMA FileRegisteredKeeps ==
  ASSUME FormInv, FileRegistered
  PROVE  FormInv'
<1> DEFINE c == request[Form].row
           items == [row : 1 .. created, file : Files]
           list == IF c \in ListedRows THEN form.listed ELSE <<Answered(c)>> \o form.listed
<1>1. /\ form.stage = "registering" /\ request[Form] # None /\ request[Form].at = "answer" /\ Finish(Form)
      /\ UNCHANGED library /\ made' = made
      /\ form' = [form EXCEPT !.stage = "linking", !.sending = c, !.contentId = c, !.listed = list]
  BY DEF FileRegistered, At, SendRegistered
<1>2. /\ c \in 1 .. created /\ request[Form].ask.op = "create" /\ c \in Contents
      /\ c \in Rows => content[c].file = request[Form].ask.file
      /\ form.meant = [kind |-> "file", file |-> request[Form].ask.file]
  BY <1>1, FormNow, LibraryNow, FormAssumption DEF Knows, FormKnows
<1>3. request[Form].ask.file \in Files
  BY <1>1, <1>2, FormNow, LibraryNow, FormAssumption, AskTyped
<1>4. list \in Listings
  <2>1. Answered(c) \in items
    BY <1>2, <1>3 DEF Answered
  <2>2. form.listed \in Seq(items)
    BY FormFields DEF Listings
  <2> HIDE DEF items
  <2>3. <<Answered(c)>> \in Seq(items)
    BY <2>1
  <2>4. <<Answered(c)>> \o form.listed \in Seq(items)
    BY <2>2, <2>3, ConcatProperties
  <2>5. QED
    BY <2>2, <2>4 DEF Listings, items
<1> HIDE DEF list, items
<1>5. /\ form' \in Forms /\ form'.stage = "linking" /\ form'.meant = form.meant
      /\ form'.sending = c /\ form'.contentId = c
  BY <1>1, <1>2, <1>4, FormFields DEF Forms, Stages
<1>6. LibraryInv' /\ FilesStay /\ request'[Form] = None
  BY <1>1, FormNow, FormAssumption, EndKeeps
<1>7. created' = created /\ content' = content /\ Rows' = Rows
  BY <1>1 DEF library, Rows
<1>8. ToLink' = [content |-> c, file |-> content[c].file, meant |-> form.meant]
  BY <1>5, <1>7 DEF ToLink
<1>9. form'.sending \in Rows' => IsFor(ToLink)'
  BY <1>2, <1>5, <1>7, <1>8 DEF IsFor
<1>10. FormKnows'
  <2> HIDE DEF c
  <2>1. form'.sending \in 1 .. created' /\ form'.contentId \in 1 .. created'
    BY <1>2, <1>5, <1>7
  <2>2. QED
    BY <1>5, <1>6, <1>9, <2>1 DEF FormKnows
<1>11. (form \in Forms /\ made \in Links \cup {None})' => FormTypeOK'
  BY DEF FormTypeOK, Forms, Links, Listings
<1>12. Forms' = Forms /\ Links' = Links
  BY <1>7 DEF Forms, Links, Listings
<1>13. FormTypeOK' /\ LinkedAsShown'
  BY <1>1, <1>5, <1>11, <1>12, FormNow DEF LinkedAsShown, IsFor
<1>14. QED
  BY <1>6, <1>10, <1>13 DEF FormInv

LEMMA LinkCreatedKeeps ==
  ASSUME FormInv, LinkCreated
  PROVE  FormInv'
<1>1. /\ form.stage = "linking" /\ form.sending \in Rows /\ made' = ToLink
      /\ form' = [form EXCEPT !.stage = "created", !.sending = None, !.meant = Nothing]
      /\ UNCHANGED libraryVars
  BY DEF LinkCreated, ToLink
<1>2. form.sending \in 1 .. created /\ IsFor(ToLink)
  BY <1>1, FormNow DEF FormKnows
<1>3. form' \in Forms /\ form'.stage = "created" /\ form'.contentId = form.contentId
  BY <1>1, FormFields DEF Forms, Stages, Selections
<1>4. made' \in Links
  <2>1. content[form.sending].file \in Files
    BY <1>1, FormNow, LibraryNow DEF Rows, ContentRows
  <2>2. QED
    BY <1>1, <1>2, <2>1, FormFields DEF ToLink, Links
<1>5. created' = created /\ request' = request
  BY <1>1 DEF libraryVars, library
<1>6. FormKnows'
  BY <1>1, <1>3, <1>5, FormFields DEF FormKnows
<1>7. LinkedAsShown'
  BY <1>1, <1>2 DEF LinkedAsShown, IsFor
<1>8. QED
  BY <1>1, <1>3, <1>4, <1>6, <1>7, PageKeeps

LEMMA StartOverKeeps ==
  ASSUME FormInv, SubmitFails \/ CreateAnother
  PROVE  FormInv'
<1>1. UNCHANGED libraryVars /\ (made' = made \/ made' = None) /\ request[Form] = None
  BY FormFields DEF SubmitFails, CreateAnother
<1>2. form' \in Forms /\ form'.contentId = form.contentId /\ form'.stage = "editing"
  BY FormFields DEF SubmitFails, CreateAnother, Forms, Stages, Selections
<1>3. QED
  BY <1>1, <1>2, FormFields, EditKeepsForm

-----------------------------------------------------------------------------
LEMMA FormInit == Init => FormInv
<1> SUFFICES ASSUME Init PROVE FormInv
  OBVIOUS
<1>1. LibraryInit /\ form = EmptyForm /\ made = None
  BY DEF Init
<1>2. LibraryInv
  <2>1. Rows = {} /\ created = 0 /\ 0 \in 0 .. MaxContents
    BY <1>1, ContentsAssumption DEF LibraryInit, Rows
  <2>2. LibraryTypeOK
    BY <1>1, <2>1 DEF LibraryInit, LibraryTypeOK
  <2>3. \A r \in Requests : request[r] = None
    BY <1>1 DEF LibraryInit
  <2>4. QED
    BY <2>2, <2>3 DEF LibraryInv
<1>3. request[Form] = None
  BY <1>1, FormAssumption DEF LibraryInit
<1>4. <<>> \in Listings
  BY DEF Listings
<1>5. form \in Forms
  BY <1>1, <1>4 DEF EmptyForm, Forms, Stages, Selections
<1>6. FormTypeOK /\ LinkedAsShown
  BY <1>1, <1>5, FormTyping DEF LinkedAsShown
<1>7. FormKnows
  BY <1>1, <1>3 DEF FormKnows, EmptyForm
<1>8. QED
  BY <1>2, <1>6, <1>7 DEF FormInv

LEMMA FormNext == FormInv /\ [Next]_vars => FormInv'
<1> SUFFICES ASSUME FormInv, [Next]_vars PROVE FormInv'
  OBVIOUS
<1>1. CASE Edit
  BY <1>1, ListContentsKeeps, OpenPageKeeps, ChooseKeeps, SelectKeeps DEF Edit
<1>2. CASE Submit
  BY <1>2, SubmitFileKeeps, SubmitContentKeeps, FileRegisteredKeeps, LinkCreatedKeeps, StartOverKeeps DEF Submit
<1>3. CASE Serve
  BY <1>3, ServeKeepsForm
<1>4. CASE UNCHANGED vars
  BY <1>4, FormFields, EditKeepsForm DEF vars
<1>5. QED
  BY <1>1, <1>2, <1>3, <1>4 DEF Next

(* content.service.ts, content.repository.ts, links/create/page.tsx: every row   *)
(* of the library and its tags, every request on its way and every state of the  *)
(* form and of the link it made is one the code knows, and what a request takes   *)
(* for granted between its calls and what the form remembers of a submission is  *)
(* so.                                                                          *)
THEOREM FormCorrect == Spec => []FormInv
<1>1. QED
  BY FormInit, FormNext, PTL DEF Spec

(* The types of the library and of its form.                                    *)
THEOREM FormTyped == Spec => []TypeOK
<1>1. FormInv => TypeOK
  BY DEF FormInv, LibraryInv, TypeOK
<1>2. QED
  BY <1>1, FormCorrect, PTL

(* links/create/page.tsx:70-123: a link is for what the form showed when its     *)
(* button was pressed, however it is edited meanwhile, whatever becomes of the   *)
(* library and however many others work on it.                                  *)
THEOREM LinksAreAsShown == Spec => []LinkedAsShown
<1>1. FormInv => LinkedAsShown
  BY DEF FormInv
<1>2. QED
  BY <1>1, FormCorrect, PTL

-----------------------------------------------------------------------------
(* A file once, a content with the tags of one request.                         *)

LEMMA NextIsAStep ==
  ASSUME FormInv, [Next]_vars
  PROVE  (\E r \in Requests : LibraryStep(r)) \/ UNCHANGED libraryVars
<1>1. CASE Edit
  BY <1>1 DEF Edit, ListContents, OpenPage, ChooseDrive, ChooseLibrary, SelectFile, SelectContent
<1>2. CASE SubmitFile
  <2> DEFINE ask == [op |-> "create", file |-> form.file, status |-> "ACTIVE", tags |-> None]
  <2>1. Receive(Form, ask) /\ form.file \in Files
    BY <1>2, FormFields DEF SubmitFile
  <2>2. ask \in Asks
    BY <2>1 DEF Asks, Statuses
  <2> HIDE DEF ask
  <2>3. LibraryStep(Form)
    BY <2>1, <2>2 DEF LibraryStep
  <2>4. QED
    BY <2>3, FormAssumption
<1>3. CASE FileRegistered
  <2>1. Done(Form)
    BY <1>3 DEF FileRegistered, Done
  <2>2. QED
    BY <2>1, FormAssumption DEF LibraryStep
<1>4. CASE SubmitContent \/ LinkCreated \/ SubmitFails \/ CreateAnother
  BY <1>4 DEF SubmitContent, LinkCreated, SubmitFails, CreateAnother
<1>5. CASE Serve
  <2>1. PICK r \in Requests : Handle(r) \/ Fail(r) \/ Done(r) \/ \E ask \in Bodies : Receive(r, ask)
    BY <1>5 DEF Serve
  <2>2. LibraryStep(r)
    BY <2>1, BodiesAssumption DEF LibraryStep
  <2>3. QED
    BY <2>2
<1>6. CASE UNCHANGED vars
  BY <1>6 DEF vars
<1>7. QED
  BY <1>1, <1>2, <1>3, <1>4, <1>5, <1>6 DEF Next, Submit

(* No step but a creation adds a row, and whoever starts a creation has found     *)
(* no row for its file.                                                         *)
LEMMA CreatingSteps ==
  ASSUME LibraryInv, NEW r \in Requests, LibraryStep(r)
  PROVE  /\ OthersKeep(r)
         /\ created' = created \/ CreateRow(r)
         /\ \A f \in Files : Creating(r, f)' => ~CreateRow(r) /\ (Creating(r, f) \/ Usable(f) = {})
<1>1. OthersStay(r) => OthersKeep(r)
  BY DEF OthersStay, OthersKeep
<1>2. CASE FindFile(r)
  <2>1. /\ OthersStay(r) /\ UNCHANGED library /\ request'[r] # None
        /\ request'[r].ask = request[r].ask /\ request'[r].at \in {"drive", "answer"}
        /\ request'[r].at = "drive" => Usable(request[r].ask.file) = {}
    BY <1>2, FindFileKeeps
  <2>2. created' = created /\ ~CreateRow(r)
    BY <1>2, <2>1 DEF library, FindFile, CreateRow, At
  <2>3. QED
    BY <1>1, <2>1, <2>2 DEF Creating, At
<1>3. CASE GetFile(r)
  <2>1. /\ OthersStay(r) /\ UNCHANGED library /\ request[r] # None /\ request[r].at = "drive"
        /\ request'[r].ask = request[r].ask
    BY <1>3, GetFileKeeps
  <2>2. created' = created /\ ~CreateRow(r)
    BY <2>1 DEF library, CreateRow, At
  <2>3. QED
    BY <1>1, <2>1, <2>2 DEF Creating, At
<1>4. CASE FindRow(r)
  <2>1. /\ OthersStay(r) /\ UNCHANGED library
        /\ request'[r] # None => request'[r].ask.op # "create"
    BY <1>4, FindRowKeeps
  <2>2. QED
    BY <1>1, <2>1 DEF library, Creating, At
<1>5. CASE CreateRow(r)
  <2>1. Moved(r, AfterRow(r), created', request[r].seen)
    BY <1>5, LibraryNow, CreatedRow
  <2>2. request'[r].at \in {"answer", "delete"}
    BY <2>1 DEF Moved, AfterRow
  <2>3. QED
    BY <1>1, <1>5, <2>1, <2>2 DEF Moved, Creating, At
<1>6. CASE UpdateRow(r)
  <2>1. OthersStay(r) /\ created' = created /\ request'[r].at \in {"delete", "answer"}
    BY <1>6, UpdateRowKeeps DEF UpdateRow
  <2>2. QED
    BY <1>1, <2>1 DEF Creating, At
<1>7. CASE ArchiveRow(r) \/ RestoreRow(r) \/ DeleteRow(r)
  <2>1. OthersStay(r) /\ created' = created /\ request'[r] = None
    BY <1>7, ArchiveRowKeeps, DeleteRowKeeps DEF ArchiveRow, RestoreRow, DeleteRow
  <2>2. QED
    BY <1>1, <2>1 DEF Creating, At
<1>8. CASE DeleteTags(r)
  <2>1. OthersStay(r) /\ UNCHANGED library /\ request'[r].at = "insert"
    BY <1>8, DeleteTagsKeeps
  <2>2. QED
    BY <1>1, <2>1 DEF library, Creating, At
<1>9. CASE InsertTags(r)
  <2>1. OthersKeep(r) /\ created' = created /\ request'[r].at = "answer"
    BY <1>9, InsertedTags DEF InsertTags
  <2>2. QED
    BY <2>1 DEF Creating, At
<1>10. CASE Fail(r) \/ Done(r)
  <2>1. OthersStay(r) /\ UNCHANGED library /\ request'[r] = None
    BY <1>10, EndKeeps DEF Fail, Done
  <2>2. QED
    BY <1>1, <2>1 DEF library, Creating, At
<1>11. ASSUME NEW ask \in Asks, Receive(r, ask)
       PROVE  /\ OthersKeep(r) /\ created' = created
              /\ \A f \in Files : ~Creating(r, f)'
  <2>1. OthersStay(r) /\ UNCHANGED library /\ request'[r].at = "find"
    BY <1>11, ReceiveKeeps
  <2>2. QED
    BY <1>1, <2>1 DEF library, Creating, At
<1>12. QED
  BY <1>2, <1>3, <1>4, <1>5, <1>6, <1>7, <1>8, <1>9, <1>10, <1>11 DEF LibraryStep, Handle

(* A file has at most one row that is not archived, and none while it is created. *)
EachOnce ==
  /\ \A f \in Files : \A c, d \in Usable(f) : c = d
  /\ \A r \in Requests, f \in Files : Creating(r, f) => Usable(f) = {}
  /\ ~Races

LEMMA OnceKept ==
  ASSUME LibraryInv, LibraryInv', FilesStay, EachOnce, NEW r \in Requests, LibraryStep(r),
         ~Races', ~Revives
  PROVE  EachOnce'
<1>1. /\ OthersKeep(r) /\ (created' = created \/ CreateRow(r))
      /\ \A f \in Files : Creating(r, f)' => ~CreateRow(r) /\ (Creating(r, f) \/ Usable(f) = {})
  BY CreatingSteps
<1>2. ASSUME NEW q \in Requests \ {r}, NEW f \in Files, Creating(q, f)' PROVE Creating(q, f)
  BY <1>1, <1>2 DEF OthersKeep, Creating, At
<1>3. ASSUME NEW f \in Files, NEW c \in Usable(f)', c \in 1 .. created PROVE c \in Usable(f)
  <2>1. c \in Rows' /\ content'[c].file = f /\ content'[c].status # "ARCHIVED" /\ content'[c] # None
    BY DEF Usable, Rows
  <2>2. c \in Rows /\ content[c].file = f
    BY <1>3, <2>1 DEF FilesStay
  <2>3. content[c].status # "ARCHIVED"
    BY <2>1, <2>2 DEF Revives
  <2>4. QED
    BY <2>2, <2>3 DEF Usable
<1>4. CASE CreateRow(r)
  <2> DEFINE g == request[r].ask.file
  <2>1. /\ request[r] # None /\ request[r].ask.op = "create" /\ created' = created + 1
        /\ Rows' = Rows \cup {created'} /\ content'[created'].file = g /\ g \in Files
    BY <1>4, LibraryNow, CreatedRow, AskTyped
  <2>2. Creating(r, g)
    BY <1>4, <2>1 DEF Creating, CreateRow, At
  <2>3. Usable(g) = {}
    BY <2>1, <2>2 DEF EachOnce
  <2>4. \A f \in Files : Usable(f)' \subseteq Rows'
    BY DEF Usable
  <2>5. Rows \subseteq 1 .. created
    BY LibraryNow
  <2>6. \A f \in Files : \A c \in Usable(f)' : c = created' \/ c \in Usable(f)
    BY <1>3, <2>1, <2>4, <2>5
  <2>7. \A f \in Files : created' \in Usable(f)' => f = g
    BY <2>1 DEF Usable
  <2>8. ASSUME NEW f \in Files, NEW c \in Usable(f)', NEW d \in Usable(f)' PROVE c = d
    BY <2>3, <2>6, <2>7 DEF EachOnce
  <2>9. ASSUME NEW q \in Requests, NEW f \in Files, Creating(q, f)' PROVE Usable(f)' = {}
    <3>1. q # r
      BY <1>1, <1>4, <2>9
    <3>2. Creating(q, f) /\ Usable(f) = {}
      BY <1>2, <2>9, <3>1 DEF EachOnce
    <3>3. f # g
      BY <2>2, <3>1, <3>2 DEF EachOnce, Races
    <3>4. QED
      BY <2>6, <2>7, <3>2, <3>3
  <2>10. QED
    BY <2>8, <2>9 DEF EachOnce
<1>5. CASE created' = created
  <2>1. ASSUME NEW f \in Files PROVE Usable(f)' \subseteq Usable(f)
    <3>1. Usable(f)' \subseteq 1 .. created
      BY <1>5 DEF Usable, LibraryInv, LibraryTypeOK
    <3>2. QED
      BY <1>3, <3>1
  <2>2. ASSUME NEW f \in Files, NEW c \in Usable(f)', NEW d \in Usable(f)' PROVE c = d
    BY <2>1 DEF EachOnce
  <2>3. ASSUME NEW q \in Requests, NEW f \in Files, Creating(q, f)' PROVE Usable(f)' = {}
    <3>1. Usable(f) = {}
      BY <1>1, <1>2, <2>3 DEF EachOnce
    <3>2. QED
      BY <2>1, <3>1
  <2>4. QED
    BY <2>2, <2>3 DEF EachOnce
<1>6. QED
  BY <1>1, <1>4, <1>5

(* A transaction that is about to insert has found all the tags there are.       *)
EachWhole ==
  /\ \A c \in Contents : TagsOfOneRequest(c)
  /\ \A r \in Requests : At(r, "insert") => tags[request[r].row] \subseteq request[r].seen
  /\ ~Crosses

LEMMA TaggingSteps ==
  ASSUME LibraryInv, NEW r \in Requests, LibraryStep(r), ~InsertTags(r)
  PROVE  /\ OthersStay(r)
         /\ \A c \in Contents : tags'[c] = {} \/ tags'[c] = tags[c]
         /\ At(r, "insert")' => tags' = tags /\ request'[r].seen = tags[request'[r].row]
<1>1. CASE FindFile(r) \/ GetFile(r) \/ FindRow(r)
  <2>1. OthersStay(r) /\ UNCHANGED library
    BY <1>1, FindFileKeeps, GetFileKeeps, FindRowKeeps
  <2>2. ~At(r, "insert")'
    BY <1>1, FindFileKeeps, GetFileKeeps, FindRowKeeps DEF At
  <2>3. QED
    BY <2>1, <2>2 DEF library
<1>2. CASE CreateRow(r)
  <2>1. tags' = tags /\ Moved(r, AfterRow(r), created', request[r].seen)
    BY <1>2, LibraryNow, CreatedRow
  <2>2. ~At(r, "insert")'
    BY <2>1 DEF Moved, At, AfterRow
  <2>3. QED
    BY <2>1, <2>2 DEF Moved
<1>3. CASE UpdateRow(r)
  BY <1>3, UpdateRowKeeps DEF At
<1>4. CASE ArchiveRow(r) \/ RestoreRow(r) \/ DeleteRow(r)
  BY <1>4, ArchiveRowKeeps, DeleteRowKeeps DEF At
<1>5. CASE DeleteTags(r)
  BY <1>5, DeleteTagsKeeps DEF library
<1>6. CASE Fail(r) \/ Done(r)
  BY <1>6, EndKeeps DEF Fail, Done, library, At
<1>7. ASSUME NEW ask \in Asks, Receive(r, ask)
      PROVE  OthersStay(r) /\ tags' = tags /\ ~At(r, "insert")'
  BY <1>7, ReceiveKeeps DEF library, At
<1>8. QED
  BY <1>1, <1>2, <1>3, <1>4, <1>5, <1>6, <1>7 DEF LibraryStep, Handle

LEMMA WholeKept ==
  ASSUME LibraryInv, EachWhole, NEW r \in Requests, LibraryStep(r), ~Crosses'
  PROVE  EachWhole'
<1>1. \A q \in Requests : At(q, "insert") => request[q].row \in Contents
  BY LibraryNow DEF At, Knows
<1>2. CASE InsertTags(r)
  <2> DEFINE c == request[r].row
  <2>1. /\ OthersKeep(r) /\ request'[r].at = "answer"
        /\ \A q \in Requests \ {r} : request'[q] # request[q] => At(q, "insert") /\ request[q].row = c
    BY <1>2, InsertedTags
  <2>2. /\ At(r, "insert") /\ c \in Contents /\ tags \in [Contents -> SUBSET (UNION TagSets)]
        /\ tags' = [tags EXCEPT ![c] = (tags[c] \ request[r].seen) \cup request[r].ask.tags]
    BY <1>2, LibraryNow DEF InsertTags, Kept, Rows
  <2>3. tags[c] \subseteq request[r].seen /\ request[r].ask.tags \in TagSets
    BY <2>2, LibraryNow DEF EachWhole, At, Knows
  <2>4. (tags[c] \ request[r].seen) \cup request[r].ask.tags = request[r].ask.tags
    BY <2>3
  <2>5. tags'[c] = request[r].ask.tags /\ \A d \in Contents : d # c => tags'[d] = tags[d]
    BY <2>2, <2>4
  <2>6. ASSUME NEW d \in Contents PROVE TagsOfOneRequest(d)'
    BY <2>3, <2>5 DEF EachWhole, TagsOfOneRequest
  <2>7. ASSUME NEW q \in Requests, At(q, "insert")' PROVE tags'[request'[q].row] \subseteq request'[q].seen
    <3>1. q # r
      BY <2>1, <2>7 DEF At
    <3>2. At(q, "insert") /\ request'[q].row = request[q].row
      BY <2>1, <2>7, <3>1 DEF OthersKeep, At
    <3>3. request[q].row # c
      BY <2>2, <3>1, <3>2 DEF EachWhole, Crosses
    <3>4. request'[q] = request[q] /\ tags'[request[q].row] = tags[request[q].row]
      BY <1>1, <2>1, <2>5, <3>1, <3>2, <3>3
    <3>5. QED
      BY <3>2, <3>4 DEF EachWhole
  <2>8. QED
    BY <2>6, <2>7 DEF EachWhole
<1>3. CASE ~InsertTags(r)
  <2>1. /\ OthersStay(r) /\ \A c \in Contents : tags'[c] = {} \/ tags'[c] = tags[c]
        /\ At(r, "insert")' => tags' = tags /\ request'[r].seen = tags[request'[r].row]
    BY <1>3, TaggingSteps
  <2>2. ASSUME NEW d \in Contents PROVE TagsOfOneRequest(d)'
    BY <2>1 DEF EachWhole, TagsOfOneRequest
  <2>3. ASSUME NEW q \in Requests, At(q, "insert")' PROVE tags'[request'[q].row] \subseteq request'[q].seen
    <3>1. CASE q = r
      BY <2>1, <2>3, <3>1
    <3>2. CASE q # r
      <4>1. request'[q] = request[q] /\ At(q, "insert")
        BY <2>1, <2>3, <3>2 DEF OthersStay, At
      <4>2. QED
        BY <1>1, <2>1, <4>1 DEF EachWhole
    <3>3. QED
      BY <3>1, <3>2
  <2>4. QED
    BY <2>2, <2>3 DEF EachWhole
<1>4. QED
  BY <1>2, <1>3

(* MCContentLibrary notes what overlapped and came back, and bounds what goes on  *)
(* at the same time; the bound is not needed.                                   *)
Notes ==
  /\ raced' = (raced \/ Races')
  /\ crossed' = (crossed \/ Crosses')
  /\ revived' = (revived \/ Revives)
NotedSpec == HistoryInit /\ [][Next /\ Notes]_<<vars, raced, crossed, revived>>

LEMMA HistoryIsNoted == HistorySpec => NotedSpec
<1>1. HistoryNext => Next /\ Notes
  BY DEF HistoryNext, Notes
<1>2. QED
  BY <1>1, PTL DEF HistorySpec, NotedSpec

HistoryInv ==
  /\ FormInv
  /\ raced \in BOOLEAN /\ crossed \in BOOLEAN /\ revived \in BOOLEAN
  /\ ~raced /\ ~revived => EachOnce
  /\ ~crossed => EachWhole

LEMMA HistoryStart == HistoryInit => HistoryInv
<1> SUFFICES ASSUME HistoryInit PROVE HistoryInv
  OBVIOUS
<1>1. FormInv /\ raced = FALSE /\ crossed = FALSE /\ revived = FALSE
  BY FormInit DEF HistoryInit
<1>2. LibraryInit
  BY DEF HistoryInit, Init
<1>3. \A r \in Requests : request[r] = None
  BY <1>2 DEF LibraryInit
<1>4. \A f \in Files : Usable(f) = {}
  BY <1>2 DEF LibraryInit, Usable, Rows
<1>5. EachOnce
  BY <1>3, <1>4 DEF EachOnce, Races, Creating, At
<1>6. EachWhole
  BY <1>2, <1>3 DEF EachWhole, Crosses, At, TagsOfOneRequest, LibraryInit
<1>7. QED
  BY <1>1, <1>5, <1>6 DEF HistoryInv

LEMMA HistoryStep == HistoryInv /\ [Next /\ Notes]_<<vars, raced, crossed, revived>> => HistoryInv'
<1> SUFFICES ASSUME HistoryInv, [Next /\ Notes]_<<vars, raced, crossed, revived>> PROVE HistoryInv'
  OBVIOUS
<1>1. FormInv /\ [Next]_vars
  BY DEF HistoryInv
<1>2. FormInv'
  BY <1>1, FormNext
<1>3. LibraryInv /\ LibraryInv'
  BY <1>1, <1>2 DEF FormInv
<1>4. CASE Next /\ Notes
  <2>1. /\ raced' = (raced \/ Races') /\ crossed' = (crossed \/ Crosses')
        /\ revived' = (revived \/ Revives)
    BY <1>4 DEF Notes
  <2>2. raced' \in BOOLEAN /\ crossed' \in BOOLEAN /\ revived' \in BOOLEAN
    BY <2>1
  <2>3. CASE UNCHANGED libraryVars
    <3>1. content' = content /\ tags' = tags /\ request' = request
      BY <2>3 DEF libraryVars, library
    <3>2. EachOnce => EachOnce'
      BY <3>1 DEF EachOnce, Races, Creating, At, Usable, Rows
    <3>3. EachWhole => EachWhole'
      BY <3>1 DEF EachWhole, Crosses, At, TagsOfOneRequest
    <3>4. QED
      BY <1>2, <2>1, <2>2, <3>2, <3>3 DEF HistoryInv
  <2>4. ASSUME NEW r \in Requests, LibraryStep(r) PROVE HistoryInv'
    <3>1. FilesStay
      BY <1>3, <2>4, LibraryStepKeeps
    <3>2. ~raced' /\ ~revived' => EachOnce'
      BY <1>3, <2>1, <2>4, <3>1, OnceKept DEF HistoryInv
    <3>3. ~crossed' => EachWhole'
      BY <1>3, <2>1, <2>4, WholeKept DEF HistoryInv
    <3>4. QED
      BY <1>2, <2>2, <3>2, <3>3 DEF HistoryInv
  <2>5. QED
    BY <1>1, <2>3, <2>4, NextIsAStep
<1>5. CASE UNCHANGED <<vars, raced, crossed, revived>>
  <2>1. content' = content /\ tags' = tags /\ request' = request
        /\ raced' = raced /\ crossed' = crossed /\ revived' = revived
    BY <1>5 DEF vars, libraryVars, library
  <2>2. EachOnce => EachOnce'
    BY <2>1 DEF EachOnce, Races, Creating, At, Usable, Rows
  <2>3. EachWhole => EachWhole'
    BY <2>1 DEF EachWhole, Crosses, At, TagsOfOneRequest
  <2>4. QED
    BY <1>2, <2>1, <2>2, <2>3 DEF HistoryInv
<1>6. QED
  BY <1>4, <1>5

(* content.service.ts:61-140, 215-243, content.repository.ts:77-85: the two       *)
(* invariants hold as long as the history has not seen what breaks them.         *)
THEOREM HistoryCorrect == NotedSpec => []HistoryInv
<1>1. QED
  BY HistoryStart, HistoryStep, PTL DEF NotedSpec

(* content.service.ts:68-71: a file is in the library once, archived rows apart, *)
(* unless two creations looked it up before either had created it, or a row came *)
(* back from the archive.                                                       *)
THEOREM FilesOnce == NotedSpec \/ HistorySpec => []OncePerFile
<1>1. HistoryInv => OncePerFile
  <2> SUFFICES ASSUME HistoryInv, ~raced, ~revived, NEW f \in Files PROVE ~Twice(f)
    BY DEF OncePerFile
  <2>1. \A c, d \in Usable(f) : c = d
    BY DEF HistoryInv, EachOnce
  <2>2. CASE Usable(f) = {}
    <3>1. Cardinality(Usable(f)) = 0
      BY <2>2, FS_EmptySet
    <3>2. QED
      BY <3>1 DEF Twice
  <2>3. CASE Usable(f) # {}
    <3>1. PICK c \in Usable(f) : TRUE
      BY <2>3
    <3>2. Usable(f) = {c}
      BY <2>1
    <3>3. Cardinality(Usable(f)) = 1
      BY <3>2, FS_Singleton
    <3>4. QED
      BY <3>3 DEF Twice
  <2>4. QED
    BY <2>2, <2>3
<1>2. QED
  BY <1>1, HistoryCorrect, HistoryIsNoted, PTL

(* content.repository.ts:77-85: a content has the tags that one request gave, or *)
(* none, unless two transactions for it were open at the same time.             *)
THEOREM TagsStayWhole == NotedSpec \/ HistorySpec => []TagsWhole
<1>1. HistoryInv => TagsWhole
  BY DEF HistoryInv, EachWhole, TagsWhole
<1>2. QED
  BY <1>1, HistoryCorrect, HistoryIsNoted, PTL
=============================================================================
