-------------------------- MODULE MCContentLibrary --------------------------
(* Instances of LinkComposer over ContentLibrary for TLC, with a history of what *)
(* overlapped and what came back from the archive.                              *)
EXTENDS LinkComposer, TLC

MCContents == 1 .. 2

MCFiles == {CHOOSE f \in Files : TRUE}
LibraryBodies ==
  [op : {"create"}, file : MCFiles, status : {"ACTIVE"}, tags : {None}]
    \cup [op : {"update"}, row : {1}, status : {None}, tags : TagSets]
    \cup [op : {"update"}, row : {1}, status : {"DRAFT"}, tags : {None}]
    \cup [op : {"archive", "restore"}, row : {1}]
    \cup [op : {"remove"}, row : MCContents]

Interchangeable == Permutations(Requests \ {Form})

VARIABLES raced, crossed, revived

HistoryInit == Init /\ raced = FALSE /\ crossed = FALSE /\ revived = FALSE

Creating(r, f) == \E step \in {"drive", "store"} :
  At(r, step) /\ request[r].ask.op = "create" /\ request[r].ask.file = f

Races == \E f \in Files, r, q \in Requests : r # q /\ Creating(r, f) /\ Creating(q, f)

Crosses == \E r, q \in Requests :
  r # q /\ At(r, "insert") /\ At(q, "insert") /\ request[r].row = request[q].row

Revives == \E c \in Rows : content[c].status = "ARCHIVED" /\ content'[c] # None /\ content'[c].status # "ARCHIVED"

(* Bound: while the form is open nothing is tagged, and one request at a time    *)
(* arrives beside its own.                                                      *)
Beside == {r \in Requests \ {Form} : request[r] # None}
Bounded ==
  form.stage # "closed" =>
    /\ Cardinality(Beside) <= 1
    /\ \A r \in Beside : request[r].ask.op \notin {"update", "restore"}
    /\ \A c \in Rows : tags[c] = {}

HistoryNext ==
  /\ Next
  /\ Bounded'
  /\ raced' = (raced \/ Races')
  /\ crossed' = (crossed \/ Crosses')
  /\ revived' = (revived \/ Revives)

HistorySpec == HistoryInit /\ [][HistoryNext]_<<vars, raced, crossed, revived>>

(* content.service.ts:68-71: a file is in the library once, archived rows apart, *)
(* unless two creations looked it up before either had created it, or a row came *)
(* back from the archive.                                                       *)
OncePerFile == ~raced /\ ~revived => \A f \in Files : ~Twice(f)

(* content.repository.ts:77-85: a content has the tags that one request gave, or *)
(* none, unless two transactions for it were open at the same time.             *)
TagsWhole == ~crossed => \A c \in Contents : TagsOfOneRequest(c)
=============================================================================
