---------------------------- MODULE LinkComposer ----------------------------
(***************************************************************************)
(* The form that creates a link (frontend links/create/page.tsx), over the *)
(* library: a file is chosen in the Drive browser or a content in the      *)
(* library, the file is registered as a content, and a link is created for *)
(* that content.  The form stays editable while it is submitted: only its  *)
(* button is disabled.                                                     *)
(***************************************************************************)
EXTENDS ContentLibrary, Sequences

CONSTANT Form   \* the slot of the form's own requests

ASSUME FormAssumption == Form \in Requests

VARIABLES
  form,   \* the state of the page
  made    \* the link just made, with what the form showed as selected for it

vars == <<libraryVars, form, made>>

Nothing == [kind |-> "nothing"]
Selections ==
  {Nothing} \cup [kind : {"file"}, file : Files] \cup [kind : {"content"}, row : Contents]

Stages == {"closed", "editing", "registering", "linking", "created"}

FormTypeOK ==
  /\ form \in
       [source : {"drive", "library"}, contentId : Contents \cup {None}, file : Files \cup {None},
        listed : Seq([row : 1 .. created, file : Files]), loading : BOOLEAN,
        stage : Stages, sending : Contents \cup {None},
        meant : Selections]
  /\ made \in [content : 1 .. created, file : Files, meant : Selections] \cup {None}

EmptyForm ==
  [source |-> "drive", contentId |-> None, file |-> None, listed |-> <<>>, loading |-> TRUE, stage |-> "closed",
   sending |-> None, meant |-> Nothing]

Init == LibraryInit /\ form = EmptyForm /\ made = None

-----------------------------------------------------------------------------
(* What the form shows as selected: the line under the Drive browser, or the     *)
(* option of the list.  An id that the list does not have shows nothing.         *)
ListedRows == {form.listed[i].row : i \in DOMAIN form.listed}

Shown ==
  IF form.source = "drive"
    THEN IF form.file = None THEN Nothing ELSE [kind |-> "file", file |-> form.file]
    ELSE IF form.contentId \in ListedRows
           THEN [kind |-> "content", row |-> form.contentId] ELSE Nothing

Editable == form.stage \notin {"closed", "created"}

(* The list of active contents, the newest first, loaded once when the page opens. *)
Listed(c) == [row |-> c, file |-> content[c].file]
Active == {c \in Rows : content[c].status = "ACTIVE"}
NewestFirst(S) ==
  {order \in [1 .. Cardinality(S) -> S] : \A i, j \in DOMAIN order : i < j => order[i] > order[j]}

ListContents ==
  /\ form.loading /\ Editable
  /\ \E newest \in NewestFirst(Active) :
       form' = [form EXCEPT !.loading = FALSE, !.listed = [i \in DOMAIN newest |-> Listed(newest[i])]]
  /\ UNCHANGED <<libraryVars, made>>

(* The page is opened again, perhaps with ?contentId= from the library page.     *)
OpenPage ==
  /\ \E preset \in Rows \cup {None} :
       form' = [EmptyForm EXCEPT !.stage = "editing", !.contentId = preset,
         !.source = IF preset = None THEN "drive" ELSE "library"]
  /\ form.stage \in {"closed", "editing", "created"}
  /\ made' = None
  /\ UNCHANGED libraryVars

ChooseDrive ==
  /\ Editable
  /\ form' = [form EXCEPT !.source = "drive", !.contentId = None]
  /\ UNCHANGED <<libraryVars, made>>

ChooseLibrary ==
  /\ Editable
  /\ form' = [form EXCEPT !.source = "library", !.file = None]
  /\ UNCHANGED <<libraryVars, made>>

(* registeredByDriveId: of several rows of a file the last listed. *)
Registered(f) == {i \in DOMAIN form.listed : form.listed[i].file = f}

SelectFile(f) ==
  /\ Editable /\ form.source = "drive"
  /\ form' = [form EXCEPT !.file = f,
       !.contentId = IF Registered(f) = {} THEN None ELSE form.listed[Max(Registered(f))].row]
  /\ UNCHANGED <<libraryVars, made>>

SelectContent(c) ==
  /\ Editable /\ form.source = "library" /\ c \in ListedRows
  /\ form' = [form EXCEPT !.contentId = c]
  /\ UNCHANGED <<libraryVars, made>>

-----------------------------------------------------------------------------
(* submit: what it sends is what it captured when the button was pressed.        *)

Complete == form.contentId # None \/ (form.source = "drive" /\ form.file # None)

SubmitFile ==
  /\ form.stage = "editing" /\ form.source = "drive" /\ form.file # None
  /\ request[Form] = None
  /\ Receive(Form, [op |-> "create", file |-> form.file, status |-> "ACTIVE", tags |-> None])
  /\ form' = [form EXCEPT !.stage = "registering", !.meant = Shown]
  /\ UNCHANGED made

SubmitContent ==
  /\ form.stage = "editing" /\ Complete
  /\ ~(form.source = "drive" /\ form.file # None)
  /\ form' = [form EXCEPT !.stage = "linking", !.meant = Shown, !.sending = form.contentId]
  /\ UNCHANGED <<libraryVars, made>>

(* The registered content becomes the selected one, whatever was selected since. *)
SendSelected(c) == form.contentId
SendRegistered(c) == c

Answered(c) == [row |-> c, file |-> request[Form].ask.file]
FileRegistered ==
  /\ form.stage = "registering" /\ At(Form, "answer")
  /\ LET c == request[Form].row IN
       form' = [form EXCEPT !.stage = "linking", !.sending = SendRegistered(c),
                            !.contentId = c,
                            !.listed = IF c \in ListedRows THEN @ ELSE <<Answered(c)>> \o @]
  /\ Finish(Form)
  /\ UNCHANGED <<library, made>>

(* LinkService.create: the content must still be there, in whatever status.      *)
LinkCreated ==
  /\ form.stage = "linking" /\ form.sending \in Rows
  /\ made' = [content |-> form.sending, file |-> content[form.sending].file, meant |-> form.meant]
  /\ form' = [form EXCEPT !.stage = "created", !.sending = None, !.meant = Nothing]
  /\ UNCHANGED libraryVars

(* Either call fails: the form shows the error and stays as it was.              *)
SubmitFails ==
  /\ \/ form.stage = "registering" /\ request[Form] = None
     \/ form.stage = "linking"
  /\ form' = [form EXCEPT !.stage = "editing", !.sending = None, !.meant = Nothing]
  /\ UNCHANGED <<libraryVars, made>>

(* "Create another" empties the label, the password and the file, nothing else.  *)
CreateAnother ==
  /\ form.stage = "created"
  /\ form' = [form EXCEPT !.stage = "editing", !.file = None]
  /\ made' = None
  /\ UNCHANGED libraryVars

-----------------------------------------------------------------------------
Edit ==
  \/ ListContents \/ OpenPage \/ ChooseDrive \/ ChooseLibrary
  \/ \E f \in Files : SelectFile(f)
  \/ \E c \in Contents : SelectContent(c)

Submit == SubmitFile \/ SubmitContent \/ FileRegistered \/ LinkCreated \/ SubmitFails \/ CreateAnother

Serve ==
  /\ \E r \in Requests :
       \/ Handle(r) \/ Fail(r)
       \/ r # Form /\ (Done(r) \/ \E ask \in Bodies : Receive(r, ask))
  /\ UNCHANGED <<form, made>>

Next == Edit \/ Submit \/ Serve

Spec == Init /\ [][Next]_vars

TypeOK == LibraryTypeOK /\ FormTypeOK

-----------------------------------------------------------------------------
(* links/create/page.tsx:70-123: a link is for what the form showed when its     *)
(* button was pressed, however it is edited and its list goes stale while it is  *)
(* submitted.  When it showed nothing, the link is for a content that the form   *)
(* was opened for or had linked before.                                         *)
IsFor(l) ==
  CASE l.meant.kind = "file" -> l.file = l.meant.file
    [] l.meant.kind = "content" -> l.content = l.meant.row
    [] OTHER -> TRUE

LinkedAsShown == made # None => IsFor(made)
=============================================================================
