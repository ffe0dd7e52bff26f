--------------------------- MODULE ContentLibrary ---------------------------
(***************************************************************************)
(* The content library (backend/src/services/content.service.ts and its    *)
(* repository): rows that stand for files in Google Drive, and their tags. *)
(* Every operation looks a row up, writes in later calls what it then      *)
(* takes for granted, and may fail between any two of them.                *)
(*                                                                         *)
(* A transaction runs at the database's default level, READ COMMITTED:     *)
(* each of its statements sees what was committed when the statement began.*)
(***************************************************************************)
EXTENDS Integers, FiniteSets, FiniteSetsExt

CONSTANTS
  Files,       \* files in Google Drive
  MaxContents, \* bound: the rows that are ever created
  TagSets,     \* bound: the sets of tags that requests give
  Bodies,      \* bound: the requests that are made
  Requests,    \* slots for requests in flight
  None         \* no row, no request, nothing asked for

ASSUME ContentsAssumption == MaxContents \in Nat \ {0}

VARIABLES
  created,  \* the rows created so far; a row is named by its number
  content,  \* the rows: None before they are created and after they are deleted
  tags,     \* the rows' tags
  request   \* per slot: the request being handled, or None

library == <<created, content, tags>>
libraryVars == <<library, request>>

Contents == 1 .. MaxContents
Rows == {c \in Contents : content[c] # None}

Statuses == {"ACTIVE", "ARCHIVED", "DRAFT"}
Asks ==
  [op : {"create"}, file : Files, status : Statuses, tags : TagSets \cup {None}]
    \cup [op : {"update"}, row : Contents, status : Statuses \cup {None}, tags : TagSets \cup {None}]
    \cup [op : {"archive", "restore", "remove"}, row : Contents]

ASSUME BodiesAssumption == Bodies \subseteq Asks

(* row is the row that is written, seen what a transaction's delete has found.   *)
InFlight ==
  [ask : Asks, row : Contents \cup {None}, seen : SUBSET (UNION TagSets),
   at : {"find", "drive", "store", "delete", "insert", "answer"}]

ContentRows == [file : Files, status : Statuses]

ASSUME NoneAssumption ==
  /\ None \notin Contents /\ None \notin Files /\ None \notin Statuses /\ None \notin TagSets
  /\ None \notin ContentRows /\ None \notin InFlight

LibraryTypeOK ==
  /\ created \in 0 .. MaxContents
  /\ content \in [Contents -> ContentRows \cup {None}]
  /\ Rows \subseteq 1 .. created
  /\ tags \in [Contents -> SUBSET (UNION TagSets)]
  /\ \A c \in Contents \ Rows : tags[c] = {}
  /\ request \in [Requests -> InFlight \cup {None}]

LibraryInit ==
  /\ created = 0
  /\ content = [c \in Contents |-> None]
  /\ tags = [c \in Contents |-> {}]
  /\ request = [r \in Requests |-> None]

-----------------------------------------------------------------------------
At(r, step) == request[r] # None /\ request[r].at = step
Goto(r, step) == request' = [request EXCEPT ![r].at = step]
Answer(r, c) == request' = [request EXCEPT ![r].at = "answer", ![r].row = c]
Finish(r) == request' = [request EXCEPT ![r] = None]

Receive(r, ask) ==
  /\ request[r] = None
  /\ request' = [request EXCEPT ![r] =
       [ask |-> ask, row |-> None, seen |-> {}, at |-> "find"]]
  /\ UNCHANGED library

(* findByGoogleDriveFileId: the newest row for the file that is not archived.    *)
UsableIfActive(file) == {c \in Rows : content[c].file = file /\ content[c].status = "ACTIVE"}
Usable(file) == {c \in Rows : content[c].file = file /\ content[c].status # "ARCHIVED"}

FindFile(r) ==
  /\ At(r, "find") /\ request[r].ask.op = "create"
  /\ LET found == Usable(request[r].ask.file) IN
       IF found # {} THEN Answer(r, Max(found)) ELSE Goto(r, "drive")
  /\ UNCHANGED library

(* syncFromDrive: Drive completes what the request leaves out, or the file is   *)
(* not found; only the failure concerns us (Fail).                              *)
GetFile(r) ==
  /\ At(r, "drive")
  /\ Goto(r, "store")
  /\ UNCHANGED library

AfterRow(r) == IF request[r].ask.tags = None THEN "answer" ELSE "delete"

CreateRow(r) ==
  /\ At(r, "store") /\ request[r].ask.op = "create" /\ created < MaxContents
  /\ created' = created + 1
  /\ content' = [content EXCEPT ![created'] =
       [file |-> request[r].ask.file, status |-> request[r].ask.status]]
  /\ request' = [request EXCEPT ![r].row = created', ![r].at = AfterRow(r)]
  /\ UNCHANGED tags

(* getById: without the row the request ends in 404. *)
FindRow(r) ==
  /\ At(r, "find") /\ request[r].ask.op # "create"
  /\ LET c == request[r].ask.row IN
       IF c \in Rows
         THEN request' = [request EXCEPT ![r].row = c, ![r].at = "store"]
         ELSE Finish(r)
  /\ UNCHANGED library

(* The writes are by id: a row that was deleted meanwhile is an error (Fail).    *)
UpdateRow(r) ==
  /\ At(r, "store") /\ request[r].ask.op = "update" /\ request[r].row \in Rows
  /\ content' = [content EXCEPT ![request[r].row].status =
       IF request[r].ask.status = None THEN @ ELSE request[r].ask.status]
  /\ Goto(r, AfterRow(r))
  /\ UNCHANGED <<created, tags>>

ArchiveRow(r) ==
  /\ At(r, "store") /\ request[r].ask.op = "archive" /\ request[r].row \in Rows
  /\ content' = [content EXCEPT ![request[r].row].status = "ARCHIVED"]
  /\ Finish(r)
  /\ UNCHANGED <<created, tags>>

RestoreRow(r) ==
  /\ At(r, "store") /\ request[r].ask.op = "restore" /\ request[r].row \in Rows
  /\ content' = [content EXCEPT ![request[r].row].status = "ACTIVE"]
  /\ Finish(r)
  /\ UNCHANGED <<created, tags>>

(* The row's tags go with it; so do its links and all that was recorded of them. *)
KeptTags(c) == tags
CascadedTags(c) == [tags EXCEPT ![c] = {}]

DeleteRow(r) ==
  /\ At(r, "store") /\ request[r].ask.op = "remove" /\ request[r].row \in Rows
  /\ content' = [content EXCEPT ![request[r].row] = None]
  /\ tags' = CascadedTags(request[r].row)
  /\ Finish(r)
  /\ UNCHANGED created

(* setTags, the first statement: deleteMany finds the tags that are committed.   *)
(* (The tags themselves were upserted before, one by one; nothing deletes one.)  *)
DeleteTags(r) ==
  /\ At(r, "delete") /\ request[r].row \in Rows
  /\ request' = [request EXCEPT ![r].seen = tags[request[r].row], ![r].at = "insert"]
  /\ UNCHANGED library

(* The second, and the commit.  What another transaction found and this one has  *)
(* deleted is no longer there for it to delete, even if it was created again.    *)
KeptAll(r) == tags[request[r].row]
Kept(r) == tags[request[r].row] \ request[r].seen

InsertTags(r) ==
  /\ At(r, "insert") /\ request[r].row \in Rows
  /\ LET c == request[r].row
         same(q) == q # r /\ At(q, "insert") /\ request[q].row = c
     IN  /\ tags' = [tags EXCEPT ![c] = Kept(r) \cup request[r].ask.tags]
         /\ request' = [q \in Requests |->
              IF q = r THEN [request[r] EXCEPT !.at = "answer"]
              ELSE IF same(q) THEN [request[q] EXCEPT !.seen = @ \ request[r].seen]
              ELSE request[q]]
  /\ UNCHANGED <<created, content>>

Done(r) == At(r, "answer") /\ Finish(r) /\ UNCHANGED library

(* A query fails, Drive does, or the process stops: an open transaction leaves   *)
(* no trace, what was written before it stays.                                  *)
Fail(r) == request[r] # None /\ ~At(r, "answer") /\ Finish(r) /\ UNCHANGED library

-----------------------------------------------------------------------------
Handle(r) ==
  \/ FindFile(r) \/ GetFile(r) \/ CreateRow(r)
  \/ FindRow(r) \/ UpdateRow(r) \/ ArchiveRow(r) \/ RestoreRow(r) \/ DeleteRow(r)
  \/ DeleteTags(r) \/ InsertTags(r)

(* What may not be, unless a race or a restoration made it so (MCContentLibrary). *)
Twice(f) == Cardinality(Usable(f)) > 1

TagsOfOneRequest(c) == tags[c] \in TagSets \cup {{}}
=============================================================================
