-------------------------------- MODULE Links --------------------------------
(***************************************************************************)
(* The dialogs of links and anchors (plugins/link of the text editor) over *)
(* one place of the text: what is read from the link into the fields, what *)
(* the fields make of it, and what the commands to unlink and to remove an *)
(* anchor leave.                                                           *)
(*                                                                         *)
(* config.js:37 removes the tab "advanced", so the dialog knows nothing of *)
(* the attributes of that tab, and takes them off every link it confirms.  *)
(* An address is the sequence of its parts, <<"http://", "x">> or          *)
(* <<"#", "t">>; the text of the link is told apart as far as the code     *)
(* compares it with the address.                                           *)
(***************************************************************************)
EXTENDS Naturals, Sequences

CONSTANTS
    Rests,      \* what follows the scheme in a typed address
    Rooted,     \* those of them that begin with "/"
    Names,      \* names of anchors and frames
    Addresses,  \* mail addresses
    MaxEdits    \* bound on the changes of a field

VARIABLES
    place,    \* what is selected: a record of the link's attributes, or
              \* NoLink with the text there
    anchors,  \* the names of the anchors elsewhere in the text
    dialog,   \* the dialog "link" is open
    fields,   \* its fields
    edits,    \* counts the changes
    session   \* history: what the dialog was opened on, and what it did

vars == <<place, anchors, dialog, fields, edits, session>>

Nothing == "none"
Protocols == {"http://", "https://", ""}

\* The addresses a user types or a stored link has.
Typed ==
    {<<x>> : x \in Rests}
      \cup ((Protocols \ {""}) \X (Rests \ Rooted))
      \cup ({"#"} \X Names)
      \cup ({"mailto:"} \X Addresses)

\* Its own words, some with an @ among them, or those a link was given.
Texts == {[is |-> "words"], [is |-> "mention"], [is |-> "caret"]}

Feature == [resizable : BOOLEAN, width : {"", "1"}]
NoFeatures == [resizable |-> FALSE, width |-> ""]
NoPopup == [name |-> Nothing, features |-> NoFeatures]

\* href, subject of a mail, target, onclick, name and id; without an href it
\* is no link.
NoLink(text) ==
    [href |-> <<>>, subject |-> "", target |-> "", popup |-> NoPopup,
     name |-> "", id |-> "", text |-> text]

IsLink(p) == p.href # <<>>

Special == {"_self", "_blank"}

Defaults ==
    [type |-> "url", protocol |-> "http://",
     url |-> <<>>,
     anchorName |-> "", anchorId |-> "", address |-> "", subject |-> "",
     targetType |-> "notSet", targetName |-> "", features |-> NoFeatures]

NoSession == [kind |-> Nothing]

Init ==
    /\ \/ \E t \in Texts : place = NoLink(t)
       \/ \E h \in Typed, t \in {[is |-> "words"], [is |-> "mention"]} :
             place = [NoLink(t) EXCEPT !.href = h]
    /\ anchors \in SUBSET Names
    /\ dialog = FALSE /\ fields = Defaults /\ edits = 0 /\ session = NoSession

-----------------------------------------------------------------------------
(* From the link to the fields *)

\* getEditorAnchors: the anchors of the text, this place included.
getEditorAnchors == anchors \cup ({place.name} \ {""})

\* An option that is not in the list leaves the list without a choice.
Option(name, options) == IF name \in options THEN name ELSE ""

targetOf(p) ==
    IF p.target # ""
    THEN [type |-> IF p.target \in Special THEN p.target ELSE "frame",
          name |-> p.target, features |-> NoFeatures]
    ELSE IF p.popup # NoPopup
    THEN [type |-> "popup", name |-> p.popup.name,
          features |-> p.popup.features]
    ELSE [type |-> "notSet", name |-> "", features |-> NoFeatures]

AnchorOf(h) == IF Len(h) > 1 THEN h[2] ELSE ""

\* parseLinkAttributes, and the setup of each field from what it returns.
setupContent(p, known) ==
    LET t == targetOf(p)
        base == [Defaults EXCEPT !.targetType = t.type, !.targetName = t.name,
                                 !.features = t.features]
    IN  CASE ~IsLink(p) -> Defaults
          [] Head(p.href) = "#" ->
               [base EXCEPT !.type = "anchor",
                            !.anchorName = Option(AnchorOf(p.href), known),
                            !.anchorId = Option(AnchorOf(p.href), known)]
          [] Head(p.href) = "mailto:" ->
               [base EXCEPT !.type = "email", !.address = p.href[2],
                            !.subject = p.subject]
          [] Head(p.href) \in Protocols ->
               [base EXCEPT !.protocol = Head(p.href), !.url = Tail(p.href)]
          [] OTHER -> [base EXCEPT !.protocol = "", !.url = p.href]

-----------------------------------------------------------------------------
(* From the fields to the link *)

\* The address field looks for a protocol in what it holds, and takes the
\* protocol away before an address that stands by itself.
Begins(a, parts) == a # <<>> /\ Head(a) \in parts
StandsAlone(a) == Begins(a, {"#"} \cup Rooted)

onKeyUp(f) ==
    IF Begins(f.url, Protocols)
    THEN [f EXCEPT !.protocol = Head(f.url), !.url = Tail(f.url)]
    ELSE IF StandsAlone(f.url) THEN [f EXCEPT !.protocol = ""]
    ELSE f

\* The protocol is committed before the address field looks again.
Committed(f) == [onKeyUp(f) EXCEPT !.protocol = f.protocol]

UrlOf(f) ==
    IF f.protocol = "" \/ Begins(f.url, Rooted) THEN f.url
    ELSE <<f.protocol>> \o f.url

ChosenAnchor(f) ==
    SelectSeq(IF f.anchorName # "" THEN <<f.anchorName>> ELSE <<f.anchorId>>,
              LAMBDA n : n # "")

hrefOf(f) ==
    CASE f.type = "url" -> UrlOf(f)
      [] f.type = "anchor" -> <<"#">> \o ChosenAnchor(f)
      [] f.type = "email" -> <<"mailto:", f.address>>

\* What is not set is removed, with all attributes of the tab that is not
\* there: the name and the id of an anchor on the link.
getLinkAttributes(f, text) ==
    [href |-> hrefOf(f), subject |-> IF f.type = "email" THEN f.subject ELSE "",
     target |-> IF f.targetType \in {"notSet", "popup"} THEN ""
                ELSE f.targetName,
     popup |-> IF f.targetType = "popup"
               THEN [name |-> f.targetName, features |-> f.features]
               ELSE NoPopup,
     name |-> "", id |-> "", text |-> text]

Shown(f) ==
    IF f.type = "email" THEN [is |-> "address", of |-> <<f.address>>]
    ELSE [is |-> "href", of |-> hrefOf(f)]

\* A link whose text is its address gets the new one for its text, and so
\* does one with an @ in its text when it becomes or stays one to a mail
\* address; a new link at the caret is given its address, words keep theirs.
TextAfter(p, f) ==
    LET same == p.text = [is |-> "href", of |-> p.href]
        at == p.text.is \in {"mention", "address"}
    IN  IF IF IsLink(p) THEN same \/ (f.type = "email" /\ at)
                        ELSE p.text.is = "caret"
        THEN Shown(f) ELSE p.text

\* validate of the address fields.
Valid(f) ==
    /\ f.type = "url" => f.url # <<>>
    /\ f.type = "email" => f.address # ""

-----------------------------------------------------------------------------
(* The dialog *)

onShow ==
    /\ ~dialog /\ dialog' = TRUE
    /\ fields' = setupContent(place, getEditorAnchors)
    /\ session' = [kind |-> "open", before |-> place,
                   read |-> setupContent(place, getEditorAnchors)]
    /\ UNCHANGED <<place, anchors, edits>>

Change(f) ==
    /\ dialog /\ edits < MaxEdits
    /\ f # fields /\ fields' = f
    /\ edits' = edits + 1
    /\ UNCHANGED <<place, anchors, dialog, session>>

\* The choice of a target clears the name, or is the name itself.
ChooseTarget(t) ==
    Change([fields EXCEPT !.targetType = t,
                          !.targetName = IF t \in {"frame", "popup"} THEN ""
                                         ELSE t])

\* Typing passes through onKeyUp; a protocol can be chosen afterwards.
ChangeField ==
    \/ \E t \in {"url", "anchor", "email"} : Change([fields EXCEPT !.type = t])
    \/ fields.type = "url" /\
         (\/ \E p \in Protocols : Change([fields EXCEPT !.protocol = p])
          \/ \E a \in Typed : Change(onKeyUp([fields EXCEPT !.url = a]))
          \/ \E t \in {"notSet", "frame", "popup"} \cup Special : ChooseTarget(t)
          \/ /\ fields.targetType \in {"frame", "popup"}
             /\ \E n \in Names : Change([fields EXCEPT !.targetName = n])
          \/ /\ fields.targetType = "popup"
             /\ \E f \in Feature : Change([fields EXCEPT !.features = f]))
    \/ fields.type = "anchor" /\ \E n \in getEditorAnchors \cup {""} :
         \/ Change([fields EXCEPT !.anchorName = n])
         \/ Change([fields EXCEPT !.anchorId = n])
    \/ fields.type = "email" /\
         (\/ \E a \in Addresses : Change([fields EXCEPT !.address = a])
          \/ \E s \in {"", "s"} : Change([fields EXCEPT !.subject = s]))

onOk ==
    /\ dialog /\ dialog' = FALSE
    /\ Valid(Committed(fields))
    /\ place' = getLinkAttributes(Committed(fields),
                                  TextAfter(place, Committed(fields)))
    /\ session' = [kind |-> "done", before |-> session.before,
                   read |-> session.read, confirmed |-> fields,
                   known |-> getEditorAnchors]
    /\ fields' = Defaults
    /\ UNCHANGED <<anchors, edits>>

Cancel ==
    /\ dialog /\ dialog' = FALSE
    /\ fields' = Defaults /\ session' = NoSession
    /\ UNCHANGED <<place, anchors, edits>>

-----------------------------------------------------------------------------
(* The other commands; the dialog "anchor" has one field and is one step *)

Command == ~dialog /\ edits < MaxEdits /\ edits' = edits + 1

onOkAnchor(n) ==
    /\ Command /\ IsLink(place)
    /\ place' = [place EXCEPT !.name = n, !.id = n]
    /\ session' = NoSession
    /\ UNCHANGED <<anchors, dialog, fields>>

removeAnchor ==
    /\ Command /\ IsLink(place) /\ place.name # ""
    /\ place' = [place EXCEPT !.name = ""]
    /\ session' = NoSession
    /\ UNCHANGED <<anchors, dialog, fields>>

\* Anchors elsewhere come and go.
Elsewhere(s) ==
    /\ Command /\ s # anchors
    /\ anchors' = s /\ session' = NoSession
    /\ UNCHANGED <<place, dialog, fields>>

\* The style removes the whole element, an anchor on it included.
unlink ==
    /\ Command /\ IsLink(place)
    /\ place' = NoLink(place.text)
    /\ session' = NoSession
    /\ UNCHANGED <<anchors, dialog, fields>>

Next ==
    \/ onShow \/ ChangeField \/ onOk \/ Cancel
    \/ \E n \in Names : onOkAnchor(n)
    \/ removeAnchor \/ unlink
    \/ \E s \in SUBSET Names : Elsewhere(s)

Spec == Init /\ [][Next]_vars

-----------------------------------------------------------------------------

\* Types.
TypeOK ==
    /\ \A i \in 1..Len(place.href) :
         place.href[i] \in Protocols \cup {"#", "mailto:"} \cup Rests
                             \cup Names \cup Addresses
    /\ place.name \in Names \cup {""} /\ place.id \in Names \cup {""}
    /\ anchors \subseteq Names /\ dialog \in BOOLEAN
    /\ fields.type \in {"url", "anchor", "email"}
    /\ fields.protocol \in Protocols
    /\ edits \in 0..MaxEdits
    /\ session.kind \in {Nothing, "open", "done"} /\ (dialog <=> session.kind = "open")

\* A link the dialog was opened on and confirmed untouched is the link it was,
\* but that an anchor on it is gone, that one to an anchor which is not in the
\* text leads nowhere, and that the words of a mail link with an @ among them
\* give way to the address (link.js:22-24, ckeditor.js:764-770).
UntouchedKept ==
    (/\ session.kind = "done" /\ IsLink(session.before)
     /\ session.confirmed = session.read) =>
        LET b == session.before
            lost == Head(b.href) = "#" /\ AnchorOf(b.href) \notin session.known
        IN  /\ place.target = b.target /\ place.popup = b.popup
            /\ place.subject = b.subject /\ place.name = ""
            /\ place.href = IF lost THEN <<"#">> ELSE b.href
            /\ \/ place.text = b.text
               \/ b.text = [is |-> "href", of |-> b.href]
               \/ Head(b.href) = "mailto:" /\ b.text.is = "mention"

\* What was confirmed is what the dialog shows when it is opened again on the
\* link: a target without a name is none, an anchor chosen by its id counts
\* only if none is chosen by its name, and a typed address may be that of an
\* anchor or of a mail (link.js:11-17, ckeditor.js:764-770).
ConfirmedIsRead ==
    session.kind = "done" =>
        LET c == session.confirmed
            again == setupContent(place, session.known)
            named == IF c.anchorName # "" THEN c.anchorName ELSE c.anchorId
            alone == c.protocol = "" /\ Begins(c.url, {"#", "mailto:"})
        IN  /\ c.type = "url" /\ ~alone =>
                  /\ again.type = "url" /\ again.url = c.url
                  /\ again.protocol = IF Begins(c.url, Rooted) THEN ""
                                     ELSE c.protocol
            /\ c.type = "anchor" =>
                  again.type = "anchor" /\ again.anchorName = named
            /\ c.type = "email" =>
                  /\ again.type = "email" /\ again.address = c.address
                  /\ again.subject = c.subject
            /\ c.targetType # "frame" =>
                  /\ again.targetType = c.targetType
                  /\ c.targetType # "notSet" => again.targetName = c.targetName
                  /\ c.targetType = "popup" => again.features = c.features
            /\ c.targetType = "frame" =>
                  IF c.targetName = "" THEN again.targetType = "notSet"
                  ELSE again.targetName = c.targetName
=============================================================================
