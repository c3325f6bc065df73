----------------------------- MODULE Fragments -----------------------------
(***************************************************************************)
(* How the text editor makes a tree of a description (ckeditor.js,         *)
(* CKEDITOR.htmlParser.fragment.fromHtml), each time it is opened, pasted  *)
(* and saved.  The tags come as the browser has written them out of a      *)
(* document of its own, well nested; what CKEDITOR.dtd does not allow the  *)
(* parser puts right by closing and opening elements.                      *)
(*                                                                         *)
(* A few elements stand for all: "p" and "ul" for blocks, "b" and "i" for  *)
(* the inline elements that go when they are empty, "link" and "anchor"    *)
(* for the element a with and without an address, "img" for those without  *)
(* content.  A text is one word.  Left out: tables, definition lists, pre, *)
(* textarea, comments, attributes.                                         *)
(***************************************************************************)
EXTENDS Naturals, Sequences, SequencesExt

CONSTANTS
    Tags,       \* the elements that are used
    MaxTokens   \* bound on the tags and texts given

VARIABLES
    parser,  \* what has been made of the tags so far
    stack,   \* the elements that are open in the text given
    given,   \* history: the words, pictures and line breaks, with what is around them
    loose,   \* history: something stood in a list and in no item of it
    tokens,  \* counts the tags and texts
    ended    \* the text has ended

vars == <<parser, stack, given, loose, tokens, ended>>

-----------------------------------------------------------------------------
(* CKEDITOR.dtd *)

Blocks == {"p", "ul"}
RemoveEmpty == {"b", "i", "link"}
Inline == RemoveEmpty \cup {"anchor", "img", "br"}
Leaves == {"text", "img", "br"}

Name(e) == IF e \in {"link", "anchor"} THEN "a" ELSE e
BlockLike(e) == e \in {"body", "p", "ul", "li", "br"}

Allowed(outer, inner) ==
    CASE outer = "ul" -> inner = "li"
      [] outer \in {"body", "li"} -> inner \in Blocks \cup Inline \cup {"text"}
      [] outer \in {"p", "b", "i"} -> inner \in Inline \cup {"text"}
      [] outer \in {"link", "anchor"} ->
           inner \in Inline \cup {"text"} /\ Name(inner) # "a"
      [] OTHER -> FALSE

-----------------------------------------------------------------------------
(* The parser.  Elements are numbered as they are made, 1 is the body.  An *)
(* element is put among the children of its parent when it is closed; the  *)
(* returnPoint of one that had to go elsewhere is where the parser returns *)
(* to then.  "knotted" is history: line breaks that were held back in the  *)
(* body got a paragraph, and what came next was put in it unlooked.        *)

Root == 1

Node(name, parent, optional) ==
    [name |-> name, children |-> <<>>, parent |-> parent,
     returnPoint |-> 0, added |-> FALSE, optional |-> optional]

Start ==
    [nodes |-> <<Node("body", 0, FALSE)>>, currentNode |-> Root,
     pendingInline |-> <<>>, pendingBRs |-> <<>>,
     knotted |-> FALSE]

Parsers ==
    LET Nodes == [name : Blocks \cup Inline \cup {"body", "li", "text"},
                  children : Seq(Nat), parent : Nat, returnPoint : Nat,
                  added : BOOLEAN, optional : BOOLEAN]
    IN  [nodes : Seq(Nodes), currentNode : Nat, pendingInline : Seq(Inline),
         pendingBRs : Seq(Nat), knotted : BOOLEAN]

CurrentName(s) == s.nodes[s.currentNode].name
At(s, id) == [s EXCEPT !.currentNode = id]
Made(s, name, parent, optional) ==
    [s EXCEPT !.nodes = Append(@, Node(name, parent, optional))]
Fresh(s) == Len(s.nodes) + 1

\* Text and inline elements directly in the body get a paragraph.
NeedsParagraph(id, name) == id = Root /\ name \in Inline \cup {"text"}

Child(s, id, parent) ==
    [s EXCEPT !.nodes[parent].children = Append(@, id),
              !.nodes[id].added = TRUE, !.nodes[id].parent = parent]

\* The element is put into "parent", unless it is there or empty, and the
\* parser returns.
Put(s, id, parent, move) ==
    LET e == s.nodes[id]
        put == IF e.added \/ (e.name \in RemoveEmpty /\ e.children = <<>>)
               THEN s ELSE Child(s, id, parent)
    IN  [put EXCEPT !.nodes[id].returnPoint = 0,
                    !.currentNode = IF e.returnPoint # 0 THEN e.returnPoint
                                    ELSE IF move THEN parent ELSE @]

PutHere(s, id) ==
    Put([s EXCEPT !.nodes[id].returnPoint = s.currentNode], id, s.currentNode, FALSE)

\* The parser goes into an element; "before" is where it was before the line
\* breaks.
Into(s, before, id) ==
    LET knot == \/ s.currentNode # before /\ s.nodes[id].returnPoint # 0
                \/ ~Allowed(CurrentName(s), s.nodes[id].name)
    IN  [s EXCEPT !.nodes[id].parent = s.currentNode, !.knotted = @ \/ knot,
                  !.currentNode = id]

\* onTagOpen of a paragraph in the body, where nothing must be closed for it;
\* "flush" puts the line breaks that were held back.
ParagraphBy(flush, s, optional) ==
    Into(flush[Made(s, "p", 0, optional)], s.currentNode, Fresh(s))

\* The element is closed and put into a parent, where the parser goes on if
\* "move".
AddBy(flush, s, id, parent, move) ==
    IF ~s.nodes[id].added /\ NeedsParagraph(parent, s.nodes[id].name)
    THEN PutHere(ParagraphBy(flush, At(s, parent), FALSE), id)
    ELSE Put(s, id, parent, move)

\* The line breaks that were held back.
flushed[s \in Parsers] ==
    IF s.pendingBRs = <<>> THEN s
    ELSE flushed[AddBy(flushed, [s EXCEPT !.pendingBRs = Tail(@)],
                       Head(s.pendingBRs), s.currentNode, FALSE)]

Flush(s) == flushed[s]
Paragraph(s, optional) == ParagraphBy(flushed, s, optional)
Add(s, id, parent, move) == AddBy(flushed, s, id, parent, move)

Added(s, id, move) == Add(s, id, s.nodes[id].parent, move)

\* The inline elements that were held back are opened where they may stand and
\* hold what comes.
Reopened(s, n) ==
    At(Made([s EXCEPT !.pendingInline = RemoveAt(@, n)], s.pendingInline[n],
            s.currentNode, FALSE),
       Fresh(s))

Reopen(s, coming) ==
    LET from[t \in Parsers, n \in Nat] ==
            IF n > Len(t.pendingInline) THEN t
            ELSE LET e == t.pendingInline[n]
                 IN  IF Allowed(CurrentName(t), e) /\ Allowed(e, coming)
                     THEN from[Reopened(Flush(t), n), n]
                     ELSE IF Name(e) = Name(CurrentName(t))
                     THEN from[Added(t, t.currentNode, TRUE), n]
                     ELSE from[t, n + 1]
    IN  from[s, 1]

\* The elements on the way from the current one to one of that name.
Way(s, name) ==
    LET from[id \in DOMAIN s.nodes] ==
            LET e == s.nodes[id]
            IN  IF id = Root THEN <<Root>>
                ELSE IF Name(e.name) = Name(name) THEN <<id>>
                ELSE <<id>> \o from[IF e.returnPoint # 0 THEN e.returnPoint
                                                         ELSE e.parent]
    IN  from[s.currentNode]

CloseAll(s, ids) == FoldLeft(LAMBDA t, id : Added(t, id, FALSE), s, ids)

CloseOne(s, id) ==
    Added(IF BlockLike(s.nodes[id].name) THEN Flush(s) ELSE s, id, FALSE)

\* The way is closed; its inline elements are held back.
CloseWay(s, way) ==
    LET names == [n \in DOMAIN Front(way) |-> s.nodes[way[n]].name]
        still == SelectSeq(names, LAMBDA e : ~BlockLike(e))
        Up(t) == IF t.currentNode = Last(way) THEN At(t, t.nodes[Last(way)].parent)
                 ELSE t
        Held(t) == [t EXCEPT !.pendingInline = @ \o Reverse(still)]
    IN  Held(Up(CloseOne(At(CloseAll(s, Front(way)), Last(way)), Last(way))))

\* onTagClose: an inline element that was held back is forgotten.
Close(s, name) ==
    LET held == SelectLastInSeq(s.pendingInline, LAMBDA e : Name(e) = Name(name))
        way == Way(s, name)
    IN  IF held # 0 THEN [s EXCEPT !.pendingInline = RemoveAt(@, held)]
        ELSE IF Last(way) = Root THEN s
        ELSE CloseWay(s, way)

\* The last item of a list, or a new one.
InItem(s) ==
    LET list == s.currentNode
        children == s.nodes[list].children
    IN  IF children # <<>> /\ s.nodes[Last(children)].name = "li"
        THEN At(s, Last(children))
        ELSE At(Child(Made(s, "li", list, FALSE), Fresh(s), list), Fresh(s))

\* onTagOpen; "fit" finds the place of an element.
OpenBy(fit, s, name, optional) ==
    LET Enter(t) == Into(Flush(t), t.currentNode, Fresh(s))
        Empty(t) == Put(t, Fresh(s), t.nodes[Fresh(s)].parent, TRUE)
        There(t) == IF name = "img" THEN Empty(t) ELSE t
        made == Made(s, name, 0, optional)
    IN  IF name \in RemoveEmpty THEN [s EXCEPT !.pendingInline = Append(@, name)]
        ELSE IF name = "br" THEN [made EXCEPT !.pendingBRs = Append(@, Fresh(s))]
        ELSE There(Enter(Reopen(fit[made, Fresh(s)], name)))

\* The place for an element is found: what does not allow it is closed, a list
\* in a list goes into an item, an item gets a list, and what may not be in a
\* list goes before it.
fitted[s \in Parsers, id \in Nat] ==
    LET here == s.currentNode
        outer == CurrentName(s)
        name == s.nodes[id].name
        returning == [s EXCEPT !.nodes[id].returnPoint = IF @ = 0 THEN here ELSE @]
        held == IF outer \in Inline
                THEN [s EXCEPT !.pendingInline = <<outer>> \o @] ELSE s
    IN  IF Allowed(outer, name) THEN s
        ELSE IF s.nodes[here].optional THEN fitted[Close(s, outer), id]
        ELSE IF name = "ul" /\ outer = "ul" THEN fitted[InItem(returning), id]
        ELSE IF name = "li" /\ outer # "li" THEN fitted[OpenBy(fitted, s, "ul", TRUE), id]
        ELSE IF outer = "ul" THEN fitted[At(returning, s.nodes[here].parent), id]
        ELSE fitted[Added(held, here, TRUE), id]

Fit(s, id) == fitted[s, id]
Open(s, name, optional) == OpenBy(fitted, s, name, optional)

\* onText
Text(s) ==
    LET Item(t) == IF CurrentName(t) = "ul" THEN Open(t, "li", FALSE) ELSE t
        Placed(t) == IF NeedsParagraph(t.currentNode, "text")
                     THEN Paragraph(t, TRUE) ELSE t
        Written(t) == Child(Made(t, "text", t.currentNode, FALSE), Fresh(t), t.currentNode)
    IN  Written(Placed(Reopen(Flush(Item(s)), "text")))

\* The end of the text: all that is open is closed.
Finish(s) ==
    LET finished[t \in Parsers] ==
            IF t.pendingBRs # <<>> THEN finished[Flush(t)]
            ELSE IF t.currentNode = Root THEN t
            ELSE finished[Added(t, t.currentNode, TRUE)]
    IN  finished[s]

-----------------------------------------------------------------------------
(* The text that is given. *)

Init ==
    /\ parser = Start /\ stack = <<>> /\ given = <<>>
    /\ loose = FALSE /\ tokens = 0 /\ ended = FALSE

\* What a browser leaves in each other when it reads a text: no block in a
\* paragraph, no item in an item of the same list, no link in a link.
Nests(tag) ==
    LET lists == SelectLastInSeq(stack, LAMBDA e : e = "ul")
    IN  CASE tag \in Blocks -> ~Contains(stack, "p")
          [] tag = "li" -> /\ ~Contains(stack, "p")
                           /\ ~Contains(SubSeq(stack, lists + 1, Len(stack)), "li")
          [] Name(tag) = "a" -> ~Contains(stack, "link") /\ ~Contains(stack, "anchor")
          [] OTHER -> TRUE

Around == {Name(stack[n]) : n \in DOMAIN stack} \ {"p", "ul", "li"}

InListOnly == stack # <<>> /\ LET outer == SelectSeq(stack, LAMBDA e : e \notin RemoveEmpty)
                              IN  outer # <<>> /\ Last(outer) = "ul"

Token == ~ended /\ tokens < MaxTokens /\ tokens' = tokens + 1 /\ UNCHANGED ended

onTagOpen(tag) ==
    /\ Token /\ Nests(tag)
    /\ parser' = Open(parser, tag, FALSE)
    /\ stack' = IF tag \in Leaves THEN stack ELSE Append(stack, tag)
    /\ given' = IF tag \in Leaves THEN Append(given, [leaf |-> tag, around |-> Around])
                ELSE given
    /\ loose' = (loose \/ (InListOnly /\ tag \notin RemoveEmpty \cup {"ul", "li"}))

onTagClose ==
    /\ ~ended /\ stack # <<>>
    /\ parser' = Close(parser, Last(stack))
    /\ stack' = Front(stack)
    /\ UNCHANGED <<given, loose, tokens, ended>>

\* The browser writes two texts beside each other as one.
onText ==
    /\ Token
    /\ parser' = Text(parser)
    /\ given' = Append(given, [leaf |-> "text", around |-> Around])
    /\ UNCHANGED <<stack, loose>>

fromHtml ==
    /\ ~ended /\ stack = <<>> /\ ended' = TRUE
    /\ parser' = Finish(parser)
    /\ UNCHANGED <<stack, given, loose, tokens>>

Next == (\E tag \in Tags : onTagOpen(tag)) \/ onTagClose \/ onText \/ fromHtml

Spec == Init /\ [][Next]_vars

-----------------------------------------------------------------------------
(* What has been made. *)

\* The leaves of the tree, in their order, with the inline elements around.
LeavesIn(s) ==
    LET below[id \in DOMAIN s.nodes, around \in SUBSET {Name(e) : e \in Inline}] ==
            LET e == s.nodes[id]
                inner == IF BlockLike(e.name) THEN around ELSE around \cup {Name(e.name)}
            IN  IF e.name \in Leaves THEN <<[leaf |-> e.name, around |-> around]>>
                ELSE FlattenSeq([n \in DOMAIN e.children |-> below[e.children[n], inner]])
    IN  below[Root, {}]

\* The tags with which the tree is written.
Written(s) ==
    LET below[id \in DOMAIN s.nodes] ==
            LET e == s.nodes[id]
                inner == FlattenSeq([n \in DOMAIN e.children |-> below[e.children[n]]])
            IN  IF e.name \in Leaves THEN <<<<e.name>>>>
                ELSE IF id = Root THEN inner
                ELSE <<<<"open", e.name>>>> \o inner \o <<<<"close", e.name>>>>
    IN  below[Root]

Read(s, token) ==
    CASE token[1] = "open" -> Open(s, token[2], FALSE)
      [] token[1] = "close" -> Close(s, token[2])
      [] token[1] = "text" -> Text(s)
      [] OTHER -> Open(s, token[1], FALSE)

WithoutForms(leaves) == [n \in DOMAIN leaves |-> leaves[n].leaf]
Words(leaves) == SelectSeq(leaves, LAMBDA l : l.leaf # "br")
Result == LeavesIn(parser)

\* The parser's own books: what was added is among its parent's children.
TypeOK ==
    /\ tokens \in 0..MaxTokens /\ ended \in BOOLEAN /\ loose \in BOOLEAN
    /\ parser.currentNode \in DOMAIN parser.nodes
    /\ \A id \in DOMAIN parser.nodes :
         parser.nodes[id].added <=>
           \E e \in DOMAIN parser.nodes : Contains(parser.nodes[e].children, id)
    /\ ended => parser.currentNode = Root

\* No word, picture or line break is lost or comes twice, and they stay in
\* their order.  Not so when something else than an item stands directly in a
\* list, which goes before the list or is lost, nor here and below after line
\* breaks that got a paragraph of their own (ckeditor.js:262-269).
WordsKept ==
    ended /\ ~loose /\ ~parser.knotted => WithoutForms(Result) = WithoutForms(given)

\* What was bold or a link is so still, and nothing else, however blocks and
\* inline elements were nested.
FormsKept == ended /\ ~loose /\ ~parser.knotted => Words(Result) = Words(given)

\* The tree is one that the rules of CKEDITOR.dtd allow, but for a line break
\* directly in a list.
TreeAllowed ==
    ended /\ ~parser.knotted => \A id \in DOMAIN parser.nodes : parser.nodes[id].added =>
        LET e == parser.nodes[id] IN
        \/ Allowed(parser.nodes[e.parent].name, e.name)
        \/ e.name = "br" /\ parser.nodes[e.parent].name = "ul"

\* Read again, the tree stays as it is: a description that is opened and saved
\* is not changed again.
ParsingSettles ==
    ended /\ ~parser.knotted => LET written == Written(parser)
             IN  Written(Finish(FoldLeft(Read, Start, written))) = written
=============================================================================
