--------------------------- MODULE ContentFilter ---------------------------
(***************************************************************************)
(* What the rich text editors keep of a description: the content filter    *)
(* (web/ckeditor/ckeditor.js, CKEDITOR.filter), whose rules come from the  *)
(* buttons and lists of the toolbar, and the styles these apply            *)
(* (CKEDITOR.style, web/ckeditor/styles.js).                               *)
(*                                                                         *)
(* The content is one block of text, the inline elements around the text   *)
(* the user has selected, and one object (a table or a picture) beside it. *)
(* A property of an element is <<kind, name, value>>; each class is one of *)
(* its own, and a size is written alike with and without its unit.  Left   *)
(* out: identifiers, data-cke attributes, spaces in pre.                   *)
(***************************************************************************)
EXTENDS Naturals, FiniteSets

CONSTANTS
    Foreign,   \* elements that a paste or the source may bring
    Skipped,   \* bound: the names of inline styles the user does not apply
    MaxActs    \* bound on what the user does

VARIABLES
    block,     \* the element of the paragraph
    inline,    \* the elements around the text in it
    object,    \* the element of the table or picture
    acts,      \* counts the user's acts, for the bound
    restyled   \* history: something of one style is left under another

vars == <<block, inline, object, acts, restyled>>

Element(name, props) == [name |-> name, props |-> props]
css(name, value) == <<"style", name, value>>
attribute(name, value) == <<"attribute", name, value>>
class(name) == <<"class", name, name>>

OfKind(props, kind) == {p \in props : p[1] = kind}
Names(props) == {<<p[1], p[2]>> : p \in props}

-----------------------------------------------------------------------------
(* The styles *)

BlockStyles ==
    {Element("h2", {css("font-style", "italic")}),
     Element("h3", {css("color", "#aaa"), css("font-style", "italic")}),
     Element("div", {css("padding", "5px 10px"), css("background", "#eee"),
                     css("border", "1px solid #ccc")})}

InlineStyles ==
    {Element("span", {class("marker")}),
     Element("span", {attribute("dir", "rtl")}),
     Element("span", {attribute("dir", "ltr")})}
    \cup {Element(n, {}) : n \in {"big", "small", "tt", "code", "kbd", "samp",
                                  "var", "del", "ins", "cite", "q"}}

ObjectStyles ==
    {Element("img", {class("left")}), Element("img", {class("right")}),
     Element("table", {attribute("cellpadding", "5"), attribute("cellspacing", "0"),
                       attribute("border", "1"), attribute("bordercolor", "#ccc"),
                       css("border-collapse", "collapse")}),
     Element("table", {css("border-style", "hidden"),
                       css("background-color", "#E6E6FA")}),
     Element("ul", {css("list-style-type", "square")})}

FormatTags == {"p", "h1", "h2", "h3", "pre"}
Formats == {Element(n, {}) : n \in FormatTags}

Buttons == {Element(n, {}) : n \in {"strong", "em", "u", "s", "sub", "sup"}}

Styles == BlockStyles \cup InlineStyles \cup ObjectStyles \cup Formats \cup Buttons

Blocks == FormatTags \cup {"div", "h4", "address"}
Objects == {"table", "img", "ul"}

Chosen == {s \in Styles : s.name \notin Skipped}

\* checkElementMatch, with "full" for the style that is active.
Matches(e, style) == e.name = style.name /\ style.props \subseteq e.props

\* r(): attributes are set one by one, "class" and "style" as a whole.
Setting(old, style) ==
    {p \in old : /\ <<p[1], p[2]>> \notin Names(style.props)
                 /\ p[1] \in {"class", "style"} => OfKind(style.props, p[1]) = {}}
    \cup style.props

\* t(): a class goes if it is the style's, everything else whatever its value.
Stripped(e, style) == Element(e.name, {p \in e.props :
                                         <<p[1], p[2]>> \notin Names(style.props)})

-----------------------------------------------------------------------------
(* The filter *)

\* allow(style): all that the style has is allowed and required.
Rule(names, allowed, required) ==
    [names |-> names, allowed |-> allowed, required |-> required]
StyleRules == {Rule({s.name}, Names(s.props), Names(s.props)) : s \in Styles}

Attributes(names) == {<<"attribute", n>> : n \in names}
Csses(names) == {<<"style", n>> : n \in names}

ImageRule ==
    Rule({"img"},
         Attributes({"alt", "src"}) \cup
         Csses({"border-style", "border-width", "float", "height", "margin",
                "margin-bottom", "margin-left", "margin-right", "margin-top", "width"}),
         Attributes({"src"}))

TableRule ==
    Rule({"table"},
         Csses({"width", "height"}) \cup
         Attributes({"align", "border", "cellpadding", "cellspacing", "summary"}), {})

ListRule == Rule({"ul", "ol", "li"}, {}, {})
EnterRule == Rule({"p", "br"}, {}, {})

Rules == StyleRules \cup {ImageRule, TableRule, ListRule, EnterRule}

\* The rules of e's name that find in it all they require.
Applying(e) == {r \in Rules : e.name \in r.names /\ r.required \subseteq Names(e.props)}

Valid(e) ==
    /\ Applying(e) # {}
    /\ e.name = "img" => Attributes({"src"}) \subseteq Names(e.props)

Allowed(e) ==
    Element(e.name, {p \in e.props : \E r \in Applying(e) : <<p[1], p[2]>> \in r.allowed})

\* The forms of a button's element, checked in this order; the style is left to
\* be filtered.
FormsOf(name) ==
    CASE name = "b" -> "strong" [] name = "i" -> "em" [] name = "strike" -> "s"
      [] OTHER -> name

FormsOfSpan(props) ==
    LET form == <<css("font-weight", "bold"), css("font-style", "italic"),
                  css("text-decoration", "underline"),
                  css("text-decoration", "line-through")>>
        found == {i \in DOMAIN form : form[i] \in props}
    IN  IF found = {} THEN "span"
        ELSE <<"strong", "em", "u", "s">>[CHOOSE i \in found : \A j \in found : j <= i]

contentForms(e) ==
    Element(IF e.name = "span" THEN FormsOfSpan(e.props) ELSE FormsOf(e.name), e.props)

\* Sizes and the alignment of a picture, and the width of a table, move to its
\* styles unless it has them there.
ToStyle == {<<"img", "width", "width">>, <<"img", "height", "height">>,
            <<"img", "align", "float">>,
            <<"table", "width", "width">>, <<"table", "height", "height">>}

contentTransformations(e) ==
    LET moves == {m \in ToStyle : m[1] = e.name}
        moved == {p \in e.props : p[1] = "attribute" /\ \E m \in moves : m[2] = p[2]}
        styles == {css(m[3], p[3]) : m \in moves, p \in moved}
    IN  Element(e.name,
          (e.props \ moved) \cup
          {s \in styles : /\ <<"style", s[2]>> \notin Names(e.props)
                          /\ \E p \in moved, m \in moves :
                               m[2] = p[2] /\ s = css(m[3], p[3])
                          /\ s[2] = "float" => s[3] \in {"left", "right"}})

transformed(e) == contentTransformations(contentForms(e))

\* A block that is not allowed becomes a plain paragraph; other elements that
\* are not allowed leave their text.
FilterBlock(e) ==
    IF Valid(transformed(e)) THEN Allowed(transformed(e)) ELSE Element("p", {})

FilterInline(es) == {Allowed(e) : e \in {d \in {transformed(c) : c \in es} : Valid(d)}}

NoObject == Element("", {})

FilterObject(e) ==
    IF Valid(transformed(e)) THEN Allowed(transformed(e)) ELSE NoObject

-----------------------------------------------------------------------------
(* The editor *)

Init ==
    /\ block = Element("p", {}) /\ inline = {} /\ object = NoObject
    /\ acts = 0 /\ restyled = FALSE

Act == acts < MaxActs /\ acts' = acts + 1

\* A block style replaces the element by one of its own name that copies the
\* attributes; taken off, it leaves a paragraph with what is not the style's.
BlockStyle(style) ==
    /\ Act /\ style.name \in Blocks
    /\ block' =
         IF Matches(block, style)
         THEN Element("p", IF block.name = "pre" THEN block.props
                           ELSE Stripped(block, style).props)
         ELSE Element(style.name, Setting(block.props, style))
    /\ restyled' = (restyled \/ block'.props \ style.props # {})
    /\ UNCHANGED <<inline, object>>

\* An inline style goes around the selection and is taken off what is inside;
\* an element without attributes goes with it.
InlineStyle(style) ==
    /\ Act /\ style \in InlineStyles \cup Buttons
    /\ LET active == \E e \in inline : Matches(e, style)
           touched == {e \in inline : /\ e.name = style.name
                                      /\ active => \/ e.props = {} \/ style.props = {}
                                                   \/ e.props \cap style.props # {}}
           left == {e \in {Stripped(t, style) : t \in touched} : e.props # {}}
       IN  inline' = (inline \ touched) \cup left
                       \cup IF active THEN {} ELSE {style}
    /\ UNCHANGED <<block, object, restyled>>

\* An object style sets the attributes of the object and removes them by name.
ObjectStyle(style) ==
    /\ Act /\ style \in ObjectStyles /\ object.name = style.name
    /\ object' =
         IF Matches(object, style)
         THEN Element(object.name,
                {p \in Stripped(object, style).props :
                   p[1] = "class" => OfKind(style.props, "class") = {}})
         ELSE Element(object.name, Setting(object.props, style))
    /\ restyled' = (restyled \/ \E other \in ObjectStyles \ {style} : Matches(object, other))
    /\ UNCHANGED <<block, inline>>

\* What comes from outside goes through the filter.
PasteInline(e) ==
    /\ Act /\ e \in Foreign /\ e.name \notin Blocks \cup Objects
    /\ inline' = inline \cup FilterInline({e})
    /\ UNCHANGED <<block, object, restyled>>

PasteBlock(e) ==
    /\ Act /\ e \in Foreign /\ e.name \in Blocks
    /\ block' = FilterBlock(e)
    /\ UNCHANGED <<inline, object, restyled>>

PasteObject(e) ==
    /\ Act /\ e \in Foreign /\ e.name \in Objects
    /\ object' = FilterObject(e)
    /\ UNCHANGED <<block, inline, restyled>>

\* The source and back, or saving and opening the form again.
Reload ==
    /\ Act
    /\ block' = FilterBlock(block) /\ inline' = FilterInline(inline)
    /\ object' = FilterObject(object) /\ restyled' = FALSE

Next ==
    \/ \E s \in Chosen : BlockStyle(s) \/ InlineStyle(s) \/ ObjectStyle(s)
    \/ \E e \in Foreign : PasteInline(e) \/ PasteBlock(e) \/ PasteObject(e)
    \/ Reload

Spec == Init /\ [][Next]_vars

-----------------------------------------------------------------------------

\* Types; no element has two values of one attribute or style.
TypeOK ==
    /\ acts \in 0..MaxActs /\ restyled \in BOOLEAN
    /\ \A e \in {block, object} \cup inline :
         \A p, q \in e.props : p[1] = q[1] /\ p[2] = q[2] => p = q

\* The filter takes nothing away that the editor's own lists and buttons have
\* put there, unless a style was put over another one (ckeditor.js:202, 416,
\* 423).
OwnStylesKept ==
    /\ FilterInline(inline) = inline
    /\ ~restyled => FilterBlock(block) = block /\ FilterObject(object) = object

\* What the filter has let through once it lets through again, whatever was
\* given to it: opening and saving a form changes its text at most once
\* (ckeditor.js:187-191).
FilterSettles ==
    /\ FilterBlock(FilterBlock(block)) = FilterBlock(block)
    /\ FilterObject(FilterObject(object)) = FilterObject(object)
    /\ \A e \in Foreign :
         IF e.name \in Blocks THEN FilterBlock(FilterBlock(e)) = FilterBlock(e)
         ELSE FilterInline(FilterInline({e})) = FilterInline({e})

\* A pasted element in one of the forms of a button makes that button active,
\* and no other one (ckeditor.js:571).
FormsRecognised ==
    \A e \in Foreign : FormsOf(e.name) # e.name =>
        {b \in Buttons : \E k \in FilterInline({e}) : Matches(k, b)}
          = {Element(FormsOf(e.name), {})}
=============================================================================
