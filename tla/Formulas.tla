------------------------------ MODULE Formulas ------------------------------
(***************************************************************************)
(* The formulas of a description: the widget and mathjax plugins of the    *)
(* rich text editor (web/ckeditor/ckeditor.js, plugins/mathjax/dialogs).   *)
(*                                                                         *)
(* A formula stands in the document as a wrapper element, which carries    *)
(* its text in an attribute; the repository keeps an object for each       *)
(* wrapper ("instances"), and it is this object that writes the formula    *)
(* when the description is saved.  The document is the sequence of its     *)
(* wrappers; each is shown by a frame that MathJax typesets in its own     *)
(* time.  A formula is its text and whether this is between \( and \).     *)
(*                                                                         *)
(* Left out: nested editables and style classes (mathjax has none), the    *)
(* preview inside the dialog.  Undo has an image for each change that is   *)
(* not locked out; when images are made is in RichText.                    *)
(*                                                                         *)
(* Assumed: within the 100 ms of a copy the user only undoes, redoes or    *)
(* opens a formula.                                                        *)
(***************************************************************************)
EXTENDS Naturals, Sequences, FiniteSets, SequencesExt

CONSTANTS
    Signs,        \* the texts of formulas
    Torn,         \* what trim() leaves of a text without \( and \)
    FirstSource,  \* the formulas of the description at first
    NoWidget,     \* no instance, no formula
    MaxFormulas,  \* bound on the formulas in the document
    MaxSteps      \* bound on what the user does

VARIABLES
    editing,   \* "wysiwyg" or "source"
    source,    \* the formulas of the source, while it is shown
    doc,       \* the wrappers in the document
    instances, \* instances[id]: the text of the formula of that object
    nextId,    \* the next id
    frames,    \* frames[id]: its frameWrapper
    focused,   \* the id of the focused formula, or NoWidget
    equation,  \* the dialog
    images, imageIndex, \* undo images and the current one
    locked,    \* the undo manager is locked
    copybin,   \* the formula whose hidden copy waits for its timer
    deaf,      \* selectionChange and checkSelection are cancelled
    clip,      \* the clipboard
    steps,     \* counts the user's acts, for the bound
    restored   \* history: an image was restored while a copy waited

widgets == <<doc, instances, nextId, frames, focused>>
undo == <<images, imageIndex>>
vars == <<editing, source, widgets, equation, undo, locked, copybin, deaf, clip,
          steps, restored>>

Formula == [text : Signs \cup {Torn}, fenced : BOOLEAN]
Fenced(x) == [text |-> x, fenced |-> TRUE]
trim(f) == IF f.fenced THEN f.text ELSE Torn

\* "meant" is what the user has entered for it.
Wrapper(id, f, meant) == [id |-> id, data |-> f, meant |-> meant]

Frame == [loaded : BOOLEAN, busy : BOOLEAN, wanted : Formula,
          typeset : Formula \cup {NoWidget}, preview : Formula \cup {NoWidget}]

NewFrame(f) == [loaded |-> FALSE, busy |-> FALSE, wanted |-> f,
                typeset |-> NoWidget, preview |-> NoWidget]

NoDialog == [of |-> NoWidget, text |-> Torn, typed |-> FALSE, creating |-> FALSE]

-----------------------------------------------------------------------------
(* The repository *)

InDocument(d, id) == \E i \in DOMAIN d : d[i].id = id

\* initOnAll: an object for each new wrapper of d, from its attribute.
New(d) == {i \in DOMAIN d : d[i].id = NoWidget}
IdFor(d, i) == nextId + Cardinality({j \in New(d) : j < i})

initOnAll(d, kept) ==
    LET ids == {IdFor(d, i) : i \in New(d)}
        At(id) == CHOOSE i \in New(d) : IdFor(d, i) = id
    IN  /\ doc' = [i \in DOMAIN d |->
                     IF i \in New(d) THEN [d[i] EXCEPT !.id = IdFor(d, i)] ELSE d[i]]
        /\ instances' = [id \in kept \cup ids |->
                           IF id \in ids THEN d[At(id)].data ELSE instances[id]]
        /\ frames' = [id \in kept \cup ids |->
                        IF id \in ids THEN NewFrame(d[At(id)].data) ELSE frames[id]]
        /\ nextId' = nextId + Cardinality(New(d))

\* The objects whose wrapper left the document are destroyed first.
checkWidgets(d) == initOnAll(d, {id \in DOMAIN instances : InDocument(d, id)})

Unnamed(d) == [i \in DOMAIN d |-> [d[i] EXCEPT !.id = NoWidget]]

\* upcast: the elements of the source become new wrappers.
upcast(s) == [i \in DOMAIN s |-> Wrapper(NoWidget, s[i], s[i])]

\* downcast: a wrapper without its object loses the formula.
downcast == [i \in DOMAIN doc |->
               IF doc[i].id \in DOMAIN instances THEN instances[doc[i].id]
               ELSE NoWidget]

Init ==
    /\ editing = "source" /\ source = FirstSource
    /\ doc = <<>> /\ instances = <<>> /\ nextId = 1 /\ frames = <<>>
    /\ focused = NoWidget /\ equation = NoDialog
    /\ images = <<>> /\ imageIndex = 0 /\ locked = FALSE
    /\ copybin = NoWidget /\ deaf = FALSE /\ clip = NoWidget
    /\ steps = 0 /\ restored = FALSE

-----------------------------------------------------------------------------
(* Undo *)

\* The contents of an image have the attributes, not the objects.
Image(d) == Unnamed(d)

saveSnapshot ==
    IF locked \/ (imageIndex > 0 /\ images[imageIndex] = Image(doc'))
    THEN UNCHANGED undo
    ELSE /\ images' = Append(SubSeq(images, 1, imageIndex), Image(doc'))
         /\ imageIndex' = imageIndex + 1

Acts == steps < MaxSteps /\ steps' = steps + 1
Edits == Acts /\ editing = "wysiwyg" /\ equation = NoDialog
Rest == UNCHANGED <<editing, source, equation, locked, copybin, deaf, restored>>

\* loadSnapshot: all objects are destroyed, the formulas wrapped anew.
restoreImage(i) ==
    /\ Edits /\ i \in DOMAIN images
    /\ initOnAll(images[i], {}) /\ focused' = NoWidget
    /\ imageIndex' = i /\ locked' = FALSE
    /\ restored' = (restored \/ copybin # NoWidget)
    /\ UNCHANGED <<editing, source, equation, images, copybin, deaf, clip>>

Undo == restoreImage(imageIndex - 1)
Redo == restoreImage(imageIndex + 1)

-----------------------------------------------------------------------------
(* Modes *)

\* The document goes with its objects.
ToSource ==
    /\ Edits /\ copybin = NoWidget
    /\ editing' = "source" /\ source' = downcast
    /\ doc' = <<>> /\ instances' = <<>> /\ frames' = <<>> /\ focused' = NoWidget
    /\ UNCHANGED <<nextId, equation, undo, locked, copybin, deaf, clip, restored>>

TypeSource(s) ==
    /\ Acts /\ editing = "source" /\ source' = s
    /\ UNCHANGED <<editing, widgets, equation, undo, locked, copybin, deaf, clip, restored>>

ToWysiwyg ==
    /\ editing = "source"
    /\ editing' = "wysiwyg" /\ source' = <<>>
    /\ initOnAll(upcast(source), {}) /\ UNCHANGED focused
    /\ saveSnapshot
    /\ UNCHANGED <<equation, locked, copybin, deaf, clip, steps, restored>>

-----------------------------------------------------------------------------
(* The dialog *)

\* The button: the focused formula is edited, or an object is made whose
\* wrapper is not in the document yet.
Create(default) ==
    /\ Edits /\ focused = NoWidget /\ Len(doc) < MaxFormulas
    /\ instances' = [id \in DOMAIN instances \cup {nextId} |->
                       IF id = nextId THEN default ELSE instances[id]]
    /\ nextId' = nextId + 1
    /\ equation' = [of |-> nextId, text |-> trim(default), typed |-> FALSE,
                    creating |-> TRUE]
    /\ UNCHANGED <<editing, source, doc, frames, focused, undo, locked, copybin,
                   deaf, clip, restored>>

\* While the selection is not heard, the focus stays where it was.
focus(id) ==
    focused' = IF deaf \/ copybin # NoWidget THEN focused ELSE id

\* Also by a double click or by Enter.
edit(id) ==
    /\ Edits /\ id \in DOMAIN frames /\ InDocument(doc, id)
    /\ equation' = [of |-> id, text |-> trim(instances[id]), typed |-> FALSE,
                    creating |-> FALSE]
    /\ focus(id)
    /\ UNCHANGED <<editing, source, doc, instances, nextId, frames, undo, locked,
                   copybin, deaf, clip, restored>>

TypeEquation(x) ==
    /\ Acts /\ equation # NoDialog
    /\ equation' = [equation EXCEPT !.text = x, !.typed = TRUE]
    /\ UNCHANGED <<editing, source, widgets, undo, locked, copybin, deaf, clip, restored>>

\* frameWrapper.setValue
setValue(fr, f) ==
    IF fr.loaded /\ ~fr.busy
    THEN [fr EXCEPT !.wanted = f, !.busy = TRUE, !.typeset = f]
    ELSE [fr EXCEPT !.wanted = f]

\* The object and the attribute get the text, and the frame if it changes.
setData(id, f) ==
    /\ instances' = [instances EXCEPT ![id] = f]
    /\ frames' = IF f = instances[id] THEN frames
                 ELSE [frames EXCEPT ![id] = setValue(@, f)]
    /\ doc' = [i \in DOMAIN doc |->
                 IF doc[i].id # id THEN doc[i]
                 ELSE [doc[i] EXCEPT !.data = f,
                                     !.meant = IF equation.typed THEN f ELSE @]]

OkEdit ==
    /\ equation # NoDialog /\ ~equation.creating /\ equation' = NoDialog
    /\ IF equation.of \in DOMAIN instances
       THEN setData(equation.of, Fenced(equation.text)) /\ saveSnapshot
       ELSE UNCHANGED <<doc, instances, frames, undo>>
    /\ UNCHANGED <<editing, source, nextId, focused, locked, copybin, deaf, clip,
                   steps, restored>>

\* finalizeCreation puts the wrapper into the document and focuses it.
OkCreate(i) ==
    /\ equation.creating /\ equation' = NoDialog
    /\ LET f == Fenced(equation.text)
       IN  /\ doc' = InsertAt(doc, i, Wrapper(equation.of, f, f))
           /\ instances' = [instances EXCEPT ![equation.of] = f]
           /\ frames' = [id \in DOMAIN frames \cup {equation.of} |->
                           IF id = equation.of THEN NewFrame(f) ELSE frames[id]]
    /\ focus(equation.of)
    /\ saveSnapshot
    /\ UNCHANGED <<editing, source, nextId, locked, copybin, deaf, clip, steps, restored>>

CancelDialog ==
    /\ equation # NoDialog /\ equation' = NoDialog
    /\ instances' = [id \in DOMAIN instances
                       \ {x \in {equation.of} : equation.creating} |-> instances[id]]
    /\ UNCHANGED <<editing, source, doc, nextId, frames, focused, undo, locked,
                   copybin, deaf, clip, steps, restored>>

-----------------------------------------------------------------------------
(* Selecting, deleting, moving, copying *)

Focus(id) ==
    /\ Edits /\ ~deaf /\ copybin = NoWidget
    /\ id \in DOMAIN frames \cup {NoWidget} /\ id # focused
    /\ focused' = id
    /\ Rest /\ UNCHANGED <<doc, instances, nextId, frames, undo, clip>>

\* The browser removes the wrapper; its object stays until the next check.
DeleteKey ==
    /\ Edits /\ InDocument(doc, focused) /\ copybin = NoWidget
    /\ doc' = SelectSeq(doc, LAMBDA w : w.id # focused)
    /\ focused' = NoWidget
    /\ saveSnapshot
    /\ Rest /\ UNCHANGED <<instances, nextId, frames, clip>>

\* insertHtml of a copy, whose wrapper is made anew and then focused.
Paste(i) ==
    /\ Edits /\ clip # NoWidget /\ Len(doc) < MaxFormulas /\ copybin = NoWidget
    /\ checkWidgets(InsertAt(doc, i, clip)) /\ focus(nextId)
    /\ saveSnapshot
    /\ Rest /\ UNCHANGED clip

\* A drop: the formula is removed and destroyed, and its copy pasted.
Move(id, i) ==
    /\ Edits /\ id \in DOMAIN frames /\ InDocument(doc, id) /\ copybin = NoWidget
    /\ LET w == doc[CHOOSE j \in DOMAIN doc : doc[j].id = id]
           rest == SelectSeq(doc, LAMBDA v : v.id # id)
       IN  /\ i \in 1..(Len(rest) + 1)
           /\ checkWidgets(InsertAt(rest, i, Wrapper(NoWidget, w.data, w.meant)))
    /\ focus(nextId) /\ saveSnapshot
    /\ Rest /\ UNCHANGED clip

\* A hidden copy is selected for the browser to copy; a timer of 100 ms takes
\* it away.  Nothing happens while there is one.
Copy(cut) ==
    /\ Edits /\ InDocument(doc, focused) /\ focused \in DOMAIN frames
    /\ copybin = NoWidget
    /\ clip' = Unnamed(SelectSeq(doc, LAMBDA w : w.id = focused))[1]
    /\ copybin' = [of |-> focused, cut |-> cut]
    /\ UNCHANGED <<editing, source, widgets, equation, deaf, restored>>
    /\ saveSnapshot /\ locked' = TRUE

\* A formula that was destroyed meanwhile has no wrapper: to focus it throws,
\* and so does its deletion, but that comes last.
CopyEnds ==
    /\ copybin # NoWidget /\ copybin' = NoWidget
    /\ LET id == copybin.of  alive == id \in DOMAIN instances
       IN  /\ IF copybin.cut /\ alive
              THEN /\ doc' = SelectSeq(doc, LAMBDA w : w.id # id)
                   /\ instances' = [x \in DOMAIN instances \ {id} |-> instances[x]]
                   /\ frames' = [x \in DOMAIN frames \ {id} |-> frames[x]]
                   /\ focused' = NoWidget /\ UNCHANGED nextId
              ELSE UNCHANGED widgets
           /\ deaf' = (deaf \/ (~copybin.cut /\ ~alive))
           /\ locked' = (locked /\ ~copybin.cut /\ ~alive)
           /\ LET now == IF locked THEN [images EXCEPT ![imageIndex] = Image(doc)]
                         ELSE images
              IN  IF copybin.cut /\ alive
                  THEN /\ images' = Append(SubSeq(now, 1, imageIndex), Image(doc'))
                       /\ imageIndex' = imageIndex + 1
                  ELSE images' = now /\ UNCHANGED imageIndex
    /\ UNCHANGED <<editing, source, equation, clip, steps, restored>>

-----------------------------------------------------------------------------
(* MathJax, which runs in the frames *)

MathJaxLoads(id) ==
    /\ id \in DOMAIN frames /\ ~frames[id].loaded
    /\ frames' = [frames EXCEPT ![id].loaded = TRUE, ![id].busy = TRUE,
                                ![id].typeset = frames[id].wanted]
    /\ UNCHANGED <<editing, source, doc, instances, nextId, focused, equation, undo,
                   locked, copybin, deaf, clip, steps, restored>>

\* What was asked for meanwhile comes next.
UpdateDone(id) ==
    /\ id \in DOMAIN frames /\ frames[id].busy
    /\ LET again == frames[id].typeset # frames[id].wanted
       IN  frames' = [frames EXCEPT ![id].preview = frames[id].typeset,
                                    ![id].busy = again,
                                    ![id].typeset = frames[id].wanted]
    /\ UNCHANGED <<editing, source, doc, instances, nextId, focused, equation, undo,
                   locked, copybin, deaf, clip, steps, restored>>

Ids == 1..(nextId - 1)

Next ==
    \/ Undo \/ Redo \/ ToSource \/ ToWysiwyg \/ OkEdit \/ CancelDialog
    \/ DeleteKey \/ CopyEnds
    \/ \E x \in Signs : TypeEquation(x) \/ Create(Fenced(x))
    \/ \E x \in Signs, fenced \in BOOLEAN : TypeSource(<<[text |-> x, fenced |-> fenced]>>)
    \/ \E i \in 1..(Len(doc) + 1) : OkCreate(i) \/ Paste(i) \/ \E id \in Ids : Move(id, i)
    \/ \E cut \in BOOLEAN : Copy(cut)
    \/ \E id \in Ids : edit(id) \/ Focus(id) \/ MathJaxLoads(id) \/ UpdateDone(id)
    \/ Focus(NoWidget)

MaxIds == (MaxFormulas + 1) * (MaxSteps + 2)

\* Timers run, and MathJax, once it has been loaded, typesets.
Fairness ==
    /\ WF_vars(CopyEnds)
    /\ \A id \in 1..MaxIds : WF_vars(UpdateDone(id))

Spec == Init /\ [][Next]_vars /\ Fairness

-----------------------------------------------------------------------------

\* Types; the ids are never given twice.
TypeOK ==
    /\ editing \in {"wysiwyg", "source"}
    /\ \A i \in DOMAIN doc : /\ doc[i].id \in Ids
                             /\ doc[i].data \in Formula /\ doc[i].meant \in Formula
    /\ DOMAIN instances \subseteq Ids /\ DOMAIN frames \subseteq Ids
    /\ \A id \in DOMAIN frames : frames[id] \in Frame
    /\ nextId <= MaxIds
    /\ imageIndex \in 0..Len(images)

\* Every formula is saved as the user has entered it, whatever was undone,
\* moved, copied or edited before, and whatever dialog or timer is under way:
\* each wrapper has an object of its own, which agrees with its attribute.
\* Only a formula that was not written between \( and \) is torn by a dialog
\* that is confirmed on it (ckeditor.js:971-974, 1009, 1011).
FormulasKept ==
    \A i \in DOMAIN doc :
        /\ downcast[i] = doc[i].data
        /\ \/ doc[i].data = doc[i].meant
           \/ ~doc[i].meant.fenced /\ doc[i].data = Fenced(Torn)
        /\ \A j \in DOMAIN doc : doc[i].id = doc[j].id => i = j

\* A frame that is at rest shows the formula of its object.
PreviewTrue ==
    \A id \in DOMAIN frames :
        frames[id].loaded /\ ~frames[id].busy => frames[id].preview = instances[id]

\* An object without a wrapper in the document is being created, or its
\* formula was deleted and no check came yet: a dialog that is cancelled leaves
\* none behind.
NoStrayFormula ==
    \A id \in DOMAIN instances :
        InDocument(doc, id) \/ id \in DOMAIN frames \/ (equation.creating /\ equation.of = id)

\* Each hidden copy goes, and the selection is heard again, unless an image was
\* restored within its 100 ms; and MathJax catches up with every formula.
AtRest ==
    /\ restored \/ (copybin = NoWidget /\ ~deaf)
    /\ \A id \in DOMAIN frames :
         frames[id].loaded => frames[id].preview = instances[id]
CatchesUp == []<>AtRest
=============================================================================
