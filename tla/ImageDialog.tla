---------------------------- MODULE ImageDialog ----------------------------
(***************************************************************************)
(* The picture dialog of the rich text editor of a problem                 *)
(* (web/ckeditor/plugins/image/dialogs/image.js on the dialog and          *)
(* filebrowser plugins of ckeditor.js), and the upload of pictures behind  *)
(* its tab "Upload" (FileUploadAction, fileUploaded.jsp).                  *)
(*                                                                         *)
(* An address names a file in the directory upload.  The text has one      *)
(* picture, or none.  Of the fields of the dialog only the address and the *)
(* sizes are kept; a size is a number of pixels.  Left out: borders,       *)
(* margins, alignment, the link around a picture.                          *)
(*                                                                         *)
(* Assumed: a timer of 0 ms is over before the user's next act.            *)
(***************************************************************************)
EXTENDS Integers, FiniteSets

CONSTANTS
    Names,      \* the names of files
    Pictures,   \* the pictures there are
    Before,     \* Before[n]: the picture that is there at first, or None
    Given,      \* the picture in the text at first
    Natural,    \* Natural[p]: width and height of a picture
    None,       \* no name, no picture
    Torn,       \* the beginning of a picture
    Typed,      \* the sizes a user types
    Uploads,    \* the uploads, for the bound
    MaxActs     \* bound on what the user does in the dialog

VARIABLES
    picture,    \* the picture in the text
    dialog,     \* the dialog
    files,      \* files[n]: the content of upload/n
    uploads,    \* uploads[u]: the request of u
    fileUploadForm, \* fileUploadForm[s]: the form bean of session s
    userActs    \* counts what the user does, for the bound

vars == <<picture, dialog, files, uploads, fileUploadForm, userActs>>

Empty == -1
Sessions == {"mine", "other"}

NoPicture == [src |-> None, width |-> Empty, height |-> Empty]

Closed ==
    [stage |-> "closed", edit |-> FALSE, url |-> None, width |-> Empty,
     height |-> Empty, init |-> NoPicture, loading |-> None, ready |-> FALSE,
     natural |-> <<1, 1>>, dontResetSize |-> FALSE, firstLoad |-> FALSE,
     lockRatio |-> FALSE, userlockRatio |-> FALSE, button |-> TRUE,
     touched |-> FALSE, typed |-> FALSE, hurried |-> FALSE]

NoUpload == [phase |-> "none", session |-> "mine", name |-> None, pic |-> None,
             took |-> None, told |-> None, live |-> FALSE,
             alone |-> FALSE, existed |-> FALSE]

Init ==
    /\ picture = Given /\ dialog = Closed
    /\ files = Before
    /\ uploads = [u \in Uploads |-> NoUpload]
    /\ fileUploadForm = [s \in Sessions |-> None]
    /\ userActs = 0

Values(d) == [src |-> d.url, width |-> d.width, height |-> d.height]

-----------------------------------------------------------------------------
(* Opening and closing *)

Server == <<files, uploads, fileUploadForm>>

Act == userActs < MaxActs /\ userActs' = userActs + 1

\* show(): the fields get their first values and the file input is drawn anew,
\* which may cut off the answer to an upload; the rest waits for a timer.
OpenDialog(edit) ==
    /\ dialog.stage = "closed" /\ (edit => picture # NoPicture) /\ Act
    /\ dialog' = [Closed EXCEPT !.stage = "opening", !.edit = edit]
    /\ \E cut \in SUBSET {u \in Uploads : uploads[u].live} :
         uploads' = [u \in Uploads |-> IF u \in cut THEN [uploads[u] EXCEPT !.live = FALSE]
                                       ELSE uploads[u]]
    /\ UNCHANGED <<picture, files, fileUploadForm>>

\* onChange of the address.
WithUrl(d, n) ==
    IF n = None THEN [d EXCEPT !.url = n]
    ELSE [d EXCEPT !.url = n, !.ready = FALSE, !.loading = n]

\* onShow; the address set up from the picture keeps its sizes.
Show ==
    /\ dialog.stage = "opening"
    /\ LET new == [dialog EXCEPT !.stage = "open", !.firstLoad = TRUE,
                                 !.lockRatio = TRUE]
           d == IF dialog.edit
                THEN [WithUrl(new, picture.src) EXCEPT
                        !.dontResetSize = TRUE,
                        !.width = picture.width, !.height = picture.height]
                ELSE new
       IN  dialog' = [d EXCEPT !.init = Values(d)]
    /\ UNCHANGED <<picture, Server, userActs>>

Hidden == [Closed EXCEPT !.button = dialog.button]

\* The validators, then onOk.
Ok ==
    /\ dialog.stage = "open" /\ Act
    /\ IF dialog.url # None /\ dialog.width # 0 /\ dialog.height # 0
       THEN picture' = Values(dialog) /\ dialog' = Hidden
       ELSE UNCHANGED <<picture, dialog>>
    /\ UNCHANGED Server

\* Changed fields are given up only when the user confirms it.
Cancel(confirmed) ==
    /\ dialog.stage = "open" /\ Act
    /\ dialog' = IF Values(dialog) # dialog.init /\ ~confirmed THEN dialog ELSE Hidden
    /\ UNCHANGED <<picture, Server>>

-----------------------------------------------------------------------------
(* The picture that is shown *)

\* 'l(this, "check")': the ratio is locked if the sizes have that of the
\* picture.
Checked(d) ==
    IF d.userlockRatio THEN d
    ELSE [d EXCEPT !.lockRatio =
            \/ d.width = Empty /\ d.height = Empty
            \/ d.width # Empty /\ d.height > 0
               /\ d.natural[1] * d.height = d.width * d.natural[2]]

Reset(d) == [d EXCEPT !.width = d.natural[1], !.height = d.natural[2]]

PictureLoads ==
    /\ dialog.loading # None /\ files[dialog.loading] \in Pictures
    /\ LET d == [dialog EXCEPT !.ready = TRUE, !.loading = None,
                               !.natural = Natural[files[dialog.loading]]]
           sized == IF d.dontResetSize THEN d ELSE [Reset(d) EXCEPT !.typed = FALSE]
           locked == IF d.firstLoad THEN Checked(sized) ELSE sized
       IN  dialog' = [locked EXCEPT !.dontResetSize = FALSE, !.firstLoad = FALSE]
    /\ UNCHANGED <<picture, Server, userActs>>

PictureFails ==
    /\ dialog.loading # None /\ files[dialog.loading] \notin Pictures
    /\ dialog' = [dialog EXCEPT !.loading = None, !.lockRatio = FALSE]
    /\ UNCHANGED <<picture, Server, userActs>>

-----------------------------------------------------------------------------
(* The fields *)

User == dialog.stage = "open" /\ Act /\ UNCHANGED <<picture, Server>>

TypeUrl(n) ==
    /\ User
    /\ dialog' = [WithUrl(dialog, n) EXCEPT
         !.touched = TRUE,
         !.hurried = @ \/ (dialog.edit /\ dialog.firstLoad)]

\* Rounded; setValue() of the number 0 leaves the field empty.
Scaled(v, to, from) ==
    IF v \in {Empty, 0} THEN v
    ELSE LET r == (2 * to * v + from) \div (2 * from) IN IF r = 0 THEN Empty ELSE r

Coupled(d) == d.lockRatio /\ d.ready

TypeWidth(v) ==
    /\ User
    /\ dialog' = [dialog EXCEPT
         !.touched = TRUE, !.typed = TRUE, !.width = v,
         !.height = IF Coupled(dialog)
                    THEN Scaled(v, dialog.natural[2], dialog.natural[1]) ELSE @]

TypeHeight(v) ==
    /\ User
    /\ dialog' = [dialog EXCEPT
         !.touched = TRUE, !.typed = TRUE, !.height = v,
         !.width = IF Coupled(dialog)
                   THEN Scaled(v, dialog.natural[1], dialog.natural[2]) ELSE @]

\* Both buttons follow the picture, the lock also when it is opened.
btnLockSizes ==
    /\ User
    /\ dialog' = [dialog EXCEPT
         !.touched = TRUE, !.typed = TRUE,
         !.lockRatio = ~@, !.userlockRatio = TRUE,
         !.height = IF dialog.ready /\ dialog.width # Empty
                    THEN Scaled(dialog.width, dialog.natural[2], dialog.natural[1]) ELSE @]

btnResetSize ==
    /\ User
    /\ dialog' = [(IF dialog.ready THEN Reset(dialog) ELSE dialog) EXCEPT !.touched = TRUE]

-----------------------------------------------------------------------------
(* Uploads *)

UnderWay(u) == uploads[u].phase \in {"sent", "received", "checked", "created", "done"}

\* Two uploads meet if they have the session or the name in common.
Meets(u, s, n) == UnderWay(u) /\ (uploads[u].session = s \/ uploads[u].name = n)

Unused == {u \in Uploads : uploads[u].phase = "none"}

Sent(s, n, p) ==
    LET u == CHOOSE v \in Unused : TRUE
    IN  /\ Unused # {}
        /\ uploads' = [v \in Uploads |->
             IF v = u THEN [NoUpload EXCEPT !.phase = "sent", !.session = s, !.name = n,
                                            !.pic = p, !.live = (s = "mine"),
                                            !.alone = \A w \in Uploads : ~Meets(w, s, n)]
             ELSE [uploads[v] EXCEPT !.alone = @ /\ ~Meets(v, s, n)]]

\* The button is disabled until the file input is reset.
Upload(n, p) ==
    /\ dialog.stage = "open" /\ dialog.button /\ Act
    /\ dialog' = [dialog EXCEPT !.button = FALSE, !.touched = TRUE]
    /\ Sent("mine", n, p) /\ UNCHANGED <<picture, files, fileUploadForm>>

OtherUploads(n, p) ==
    Sent("other", n, p) /\ UNCHANGED <<picture, dialog, files, fileUploadForm, userActs>>

\* The form bean of the session is filled.
Receive(u) ==
    /\ uploads[u].phase = "sent"
    /\ fileUploadForm' = [fileUploadForm EXCEPT ![uploads[u].session] = u]
    /\ uploads' = [uploads EXCEPT ![u].phase = "received"]
    /\ UNCHANGED <<picture, dialog, files, userActs>>

\* The action takes what the bean holds; a file that exists is kept.
Check(u) ==
    /\ uploads[u].phase = "received"
    /\ LET t == fileUploadForm[uploads[u].session]
           exists == files[uploads[t].name] # None
       IN  /\ uploads' = [uploads EXCEPT ![u].took = t, ![u].existed = exists,
                             ![u].phase = IF exists THEN "done" ELSE "checked"]
           /\ UNCHANGED <<picture, dialog, files, fileUploadForm, userActs>>

\* FileOutputStream creates the file or empties it.
Create(u) ==
    /\ uploads[u].phase = "checked"
    /\ files' = [files EXCEPT ![uploads[uploads[u].took].name] = Torn]
    /\ uploads' = [uploads EXCEPT ![u].phase = "created"]
    /\ UNCHANGED <<picture, dialog, fileUploadForm, userActs>>

Write(u) ==
    /\ uploads[u].phase = "created"
    /\ LET t == uploads[uploads[u].took]
       IN  files' = [files EXCEPT ![t.name] = t.pic]
    /\ uploads' = [uploads EXCEPT ![u].phase = "done"]
    /\ UNCHANGED <<picture, dialog, fileUploadForm, userActs>>

\* fileUploaded.jsp takes the name from the bean; in the browser it becomes the
\* address in the dialog, whatever this shows by now.
Answer(u) ==
    /\ uploads[u].phase = "done"
    /\ LET n == uploads[fileUploadForm[uploads[u].session]].name
       IN  /\ uploads' = [uploads EXCEPT ![u].phase = "answered", ![u].told = n,
                                         ![u].live = FALSE]
           /\ dialog' =
                IF ~uploads[u].live THEN dialog
                ELSE CASE dialog.stage = "open" ->
                            [WithUrl(dialog, n) EXCEPT
                               !.button = TRUE, !.touched = TRUE,
                               !.hurried = @ \/ (dialog.edit /\ dialog.firstLoad)]
                       [] dialog.stage = "opening" ->
                            [dialog EXCEPT !.url = n, !.button = TRUE]
                       [] OTHER -> [dialog EXCEPT !.button = TRUE]
    /\ UNCHANGED <<picture, files, fileUploadForm, userActs>>

\* Nobody is logged in any more, or the file was empty: another page comes.
Refuse(u) ==
    /\ uploads[u].phase = "received"
    /\ uploads' = [uploads EXCEPT ![u].phase = "refused", ![u].live = FALSE]
    /\ UNCHANGED <<picture, dialog, files, fileUploadForm, userActs>>

Next ==
    \/ \E edit \in BOOLEAN : OpenDialog(edit)
    \/ Show \/ Ok \/ PictureLoads \/ PictureFails \/ btnLockSizes \/ btnResetSize
    \/ \E confirmed \in BOOLEAN : Cancel(confirmed)
    \/ \E n \in Names \cup {None} : TypeUrl(n)
    \/ \E v \in Typed : TypeWidth(v) \/ TypeHeight(v)
    \/ \E n \in Names, p \in Pictures : Upload(n, p) \/ OtherUploads(n, p)
    \/ \E u \in Uploads :
         Receive(u) \/ Check(u) \/ Create(u) \/ Write(u) \/ Answer(u) \/ Refuse(u)

Spec == Init /\ [][Next]_vars

-----------------------------------------------------------------------------

\* Types.
TypeOK ==
    /\ picture.src \in Names \cup {None}
    /\ \A d \in {picture, dialog} : d.width >= Empty /\ d.height >= Empty
    /\ dialog.stage \in {"closed", "opening", "open"}
    /\ dialog.loading # None => dialog.stage = "open"
    /\ files \in [Names -> Pictures \cup {None, Torn}]
    /\ fileUploadForm \in [Sessions -> Uploads \cup {None}]

\* Once another picture than the one the dialog came with has loaded, its sizes
\* are those of that picture until the user types others; unless the address
\* was changed before the first picture had loaded (image.js:10).
SizesOfPicture ==
    LET d == dialog IN
    d.stage = "open" /\ d.ready /\ d.url \notin {d.init.src, None}
      /\ ~d.typed /\ ~d.hurried
        => <<d.width, d.height>> = d.natural

\* In every step: to open the dialog on a picture, wait or not, and press OK
\* changes nothing, and what is inserted has an address and no size of 0
\* (image.js:14, 17, 25).
LookingChangesNothing ==
    picture' # picture => /\ dialog.touched \/ ~dialog.edit
                          /\ picture'.src # None
                          /\ 0 \notin {picture'.width, picture'.height}

\* An upload that met no other one, of a name not there before, is answered
\* with its own name, and its picture stays under it (FileUploadAction.java:52).
UploadedIsShown ==
    \A u \in Uploads :
        LET r == uploads[u] IN
        r.phase = "answered" /\ r.alone /\ ~r.existed
          => r.told = r.name /\ files[r.name] = r.pic

\* In every step: a file that is whole is never written again, unless two
\* uploads of one name, or of one session, met (FileUploadAction.java:55).
FilesStay ==
    \A n \in Names : files[n] \in Pictures /\ files'[n] # files[n]
      => \E u \in Uploads : UnderWay(u) /\ ~uploads[u].alone
=============================================================================
