------------------------------- MODULE Lists -------------------------------
(***************************************************************************)
(* The commands of the text editor on lists: numbered and bulleted list    *)
(* (the plugin list), indent and outdent (the plugin indentlist).          *)
(*                                                                         *)
(* A document is the sequence of its lines, paragraphs (depth 0) and list  *)
(* items, each with the depth and the type of its list; the item that      *)
(* begins a list is marked, so that lists beside each other are told       *)
(* apart.  A list stands below the text of the item that it belongs to.    *)
(* The selection is a run of lines and begins and ends in their texts.     *)
(***************************************************************************)
EXTENDS Integers, Sequences, FiniteSets, SequencesExt, FiniteSetsExt

CONSTANTS
    Texts,       \* the lines' texts, in the order of the first document
    MaxDepth,    \* bound on the depth of the first document's lists
    MaxCommands  \* bound on the commands

VARIABLES
    doc,      \* the document
    last,     \* history: the last command and its selection
    commands  \* counts the commands, for the bound

vars == <<doc, last, commands>>

Types == {"ul", "ol"}
NoList == "none"

Line(text, depth, type, first) ==
    [text |-> text, depth |-> depth, type |-> type, first |-> first]

\* The line before n in the same list, or 0.
Elder(d, n) ==
    LET before == {k \in 1..(n - 1) : d[k].depth <= d[n].depth}
    IN  IF before # {} /\ d[Max(before)].depth = d[n].depth THEN Max(before) ELSE 0

Legal(d) == \A n \in DOMAIN d :
    IF d[n].depth = 0 THEN d[n].type = NoList /\ ~d[n].first
    ELSE /\ d[n].depth <= (IF n = 1 THEN 0 ELSE d[n - 1].depth) + 1
         /\ d[n].first \/ (Elder(d, n) # 0 /\ d[Elder(d, n)].type = d[n].type)

Documents ==
    LET shapes == {s \in [DOMAIN Texts -> 0..MaxDepth] :
                     \A n \in DOMAIN s : s[n] <= (IF n = 1 THEN 0 ELSE s[n - 1]) + 1}
        Kinds(depth) == IF depth = 0 THEN {<<NoList, FALSE>>} ELSE Types \X BOOLEAN
        Docs(s) == {[n \in DOMAIN s |-> Line(Texts[n], s[n], k[n][1], k[n][2])] :
                      k \in {k \in [DOMAIN s -> UNION {Kinds(s[n]) : n \in DOMAIN s}] :
                               \A n \in DOMAIN s : k[n] \in Kinds(s[n])}}
    IN  {d \in UNION {Docs(s) : s \in shapes} : Legal(d)}

Init == doc \in Documents /\ last = [command |-> "none", i |-> 1, j |-> 1] /\ commands = 0

-----------------------------------------------------------------------------
(* Lists as arrays *)

\* Where the list of this depth begins that holds line n, and where it ends.
Begins(n, depth) == Max({k \in 1..n : doc[k].depth = depth /\ doc[k].first})
Ends(n, depth) ==
    LET beyond == {k \in (n + 1)..Len(doc) :
                     doc[k].depth < depth \/ (doc[k].depth = depth /\ doc[k].first)}
    IN  IF beyond = {} THEN Len(doc) ELSE Min(beyond) - 1

listToArray(from, to) ==
    [k \in 1..(to - from + 1) |->
       [text |-> doc[from + k - 1].text, parent |-> doc[from + k - 1].type,
        indent |-> doc[from + k - 1].depth - doc[from].depth]]

\* The lists of an array, the outermost at this depth. Items of indent -1 come
\* out of it. An item above the first one's level ends the work: it and what
\* follows are not in the lists.
arrayToList(array, depth) ==
    LET level(k) == Max({array[k].indent, 0})
        above == {k \in DOMAIN array : level(k) < level(1)}
        size == IF above = {} THEN Len(array) ELSE Min(above) - 1
        Outside(k) == array[k].indent = -1
        \* The last item that is no deeper.
        before(k) == LET s == {q \in 1..(k - 1) : array[q].indent <= array[k].indent}
                     IN  IF s = {} THEN 0 ELSE Max(s)
        Joins(k) == /\ before(k) # 0
                    /\ array[before(k)].indent = array[k].indent
                    /\ array[before(k)].parent = array[k].parent
    IN  [k \in 1..size |->
           IF Outside(k) THEN Line(array[k].text, depth - 1, NoList, FALSE)
           ELSE Line(array[k].text, depth + array[k].indent - level(1),
                     array[k].parent, ~Joins(k))]

\* Lines from..to are replaced.
Replaced(from, to, lines) ==
    SubSeq(doc, 1, from - 1) \o lines \o SubSeq(doc, to + 1, Len(doc))

Command(name, i, j) ==
    /\ i <= j /\ commands < MaxCommands /\ commands' = commands + 1
    /\ last' = [command |-> name, i |-> i, j |-> j]

-----------------------------------------------------------------------------
(* Numbered and bulleted list *)

\* The selected items come out, and those below the last rise with it.
Risen(array, out) ==
    LET marked == [k \in DOMAIN array |->
                     IF k \in out THEN [array[k] EXCEPT !.indent = -1] ELSE array[k]]
        \* by: how far the items of at least this indent rise.
        Step(acc, item) ==
            LET jump == item.indent - Last(acc.done).indent - 1
                by == IF item.indent >= acc.from THEN acc.by ELSE Max({jump, 0})
            IN  [done |-> Append(acc.done, [item EXCEPT !.indent = @ - by]),
                 by |-> by,
                 from |-> IF by = 0 THEN Len(array) + 1
                          ELSE IF item.indent >= acc.from THEN acc.from ELSE item.indent]
    IN  FoldLeft(Step, [done |-> SubSeq(marked, 1, Max(out)), by |-> 0,
                        from |-> Len(array) + 1],
                 SubSeq(marked, Max(out) + 1, Len(array))).done

\* The selected lines, in the runs that one list or no list holds.
Groups(i, j) ==
    LET Run(a, b) ==
            /\ a <= b /\ b >= i /\ a <= j
            /\ \/ /\ doc[a].depth = 1 /\ doc[a].first /\ b = Ends(a, 1)
               \/ /\ a >= i /\ b <= j
                  /\ \A k \in a..b : doc[k].depth = 0
                  /\ a = i \/ doc[a - 1].depth > 0
                  /\ b = j \/ doc[b + 1].depth > 0
    IN  {run \in (1..Len(doc)) \X (1..Len(doc)) : Run(run[1], run[2])}

\* B: a list takes in the one that follows and the one before, if of its type.
\* lost: the list was put into the one before, with the one that followed.
Merged(d, head) ==
    LET top == {k \in DOMAIN d : d[k].depth = 1 /\ d[k].first}
        start == Max({k \in top : k <= head})
        Follow(a, b) == /\ \A k \in a..b : d[k].depth > 0
                        /\ d[a].type = d[b].type
        next == {k \in top : k > start /\ top \cap ((start + 1)..(k - 1)) = {}
                              /\ Follow(start, k)}
        prev == {k \in top : k < start /\ top \cap ((k + 1)..(start - 1)) = {}
                              /\ Follow(k, start)}
        joined == next \cup {k \in {start} : prev # {}}
    IN  [doc |-> [k \in DOMAIN d |->
                    IF k \in joined THEN [d[k] EXCEPT !.first = FALSE] ELSE d[k]],
         lost |-> IF prev = {} THEN {} ELSE next]

MergedAll(d, heads) ==
    FoldLeft(LAMBDA acc, h : IF h \in acc.lost THEN acc ELSE Merged(acc.doc, h),
             [doc |-> d, lost |-> {}], SetToSortSeq(heads, <)).doc

\* The button is down if the selection begins in a list of its type.
exec(type, i, j) ==
    LET on == doc[i].type = type
        Done(a, b) ==
            LET array == listToArray(a, b)
                chosen == {k \in DOMAIN array : a + k - 1 \in i..j}
            IN  IF doc[a].depth = 0
                THEN IF on THEN SubSeq(doc, a, b)
                     ELSE [k \in DOMAIN array |-> Line(array[k].text, 1, type, k = 1)]
                ELSE arrayToList(
                       IF on THEN Risen(array, chosen)
                       ELSE [k \in DOMAIN array |->
                               IF k \in chosen THEN [array[k] EXCEPT !.parent = type]
                               ELSE array[k]], 1)
        GroupOf(k) == {g \in Groups(i, j) : k \in g[1]..g[2]}
        changed == [k \in DOMAIN doc |->
                      IF GroupOf(k) = {} THEN doc[k]
                      ELSE LET g == CHOOSE g \in GroupOf(k) : TRUE
                           IN  Done(g[1], g[2])[k - g[1] + 1]]
        new == {k \in DOMAIN doc : /\ ~on /\ GroupOf(k) # {}
                                   /\ changed[k].depth = 1 /\ changed[k].first
                                   /\ changed[k].type = type}
    IN  doc' = MergedAll(changed, new)

NumberedList == \E i, j \in DOMAIN doc :
    Command("numberedlist", i, j) /\ exec("ol", i, j)
BulletedList == \E i, j \in DOMAIN doc :
    Command("bulletedlist", i, j) /\ exec("ul", i, j)

-----------------------------------------------------------------------------
(* Indent and outdent *)

\* The depth of the innermost list that holds the selection, or of the list it
\* begins in, to whose end it is cut.
Context(i, j) ==
    LET common == {d \in 1..doc[i].depth : j <= Ends(i, d)}
    IN  IF common = {} THEN <<doc[i].depth, Ends(i, doc[i].depth)>>
        ELSE <<Max(common), j>>

\* The list's own items from..to, which hold the selection.
Span(i, j) ==
    LET depth == Context(i, j)[1]
        own == {k \in DOMAIN doc : doc[k].depth = depth}
    IN  [depth |-> depth, begin |-> Begins(i, depth), end |-> Ends(i, depth),
         from |-> Max({k \in own : k <= i}),
         to |-> Max({k \in own : k <= Context(i, j)[2]})]

Shifted(s, by) ==
    LET array == listToArray(s.begin, s.end)
        below(k) == \A q \in (s.to - s.begin + 2)..k : array[q].indent > 0
    IN  [k \in DOMAIN array |->
           IF k >= s.from - s.begin + 1 /\ below(k)
           THEN [array[k] EXCEPT !.indent = @ + by] ELSE array[k]]

Indent(i, j) ==
    LET s == Span(i, j)
    IN  /\ doc[i].depth > 0 /\ ~doc[i].first
        /\ Command("indent", i, j)
        /\ doc' = Replaced(s.begin, s.end, arrayToList(Shifted(s, 1), s.depth))

\* The items that come out of a list within an item follow that item in its
\* own list, and take with them the list after them, one of them. The others
\* stay in the item.
Freed(s, lines) ==
    LET parent == Max({k \in 1..(s.begin - 1) : doc[k].depth = s.depth - 1})
        itemEnd == Max({k \in s.end..Len(doc) :
                          \A q \in (s.end + 1)..k : doc[q].depth >= s.depth})
        Free(k) == lines[k].depth = s.depth - 1
        heads == {k \in DOMAIN lines : Free(k) \/ (lines[k].depth = s.depth /\ lines[k].first)}
        headOf(k) == Max({h \in heads : h <= k})
        before(h) == LET b == {g \in heads : g < h} IN IF b = {} THEN 0 ELSE Max(b)
        Moves(k) == Free(headOf(k)) \/ (before(headOf(k)) # 0 /\ Free(before(headOf(k))))
        Part(Test(_)) ==
            LET ks == SetToSortSeq({k \in DOMAIN lines : Test(k)}, <)
            IN  [n \in DOMAIN ks |->
                   IF Free(ks[n]) THEN [lines[ks[n]] EXCEPT !.type = doc[parent].type]
                   ELSE lines[ks[n]]]
    IN  SubSeq(doc, 1, s.begin - 1) \o Part(LAMBDA k : ~Moves(k))
        \o SubSeq(doc, s.end + 1, itemEnd) \o Part(Moves)
        \o SubSeq(doc, itemEnd + 1, Len(doc))

Outdent(i, j) ==
    LET s == Span(i, j)
        lines == arrayToList(Shifted(s, -1), s.depth)
    IN  /\ doc[i].depth > 0
        /\ Command("outdent", i, j)
        /\ doc' = IF s.depth = 1 THEN Replaced(s.begin, s.end, lines)
                  ELSE Freed(s, lines)

Next ==
    \/ NumberedList \/ BulletedList
    \/ \E i, j \in DOMAIN doc : Indent(i, j)
    \/ \E i, j \in DOMAIN doc : Outdent(i, j)

Spec == Init /\ [][Next]_vars

-----------------------------------------------------------------------------

\* A command leaves lists that are well formed: an item that jumped over a
\* level, at which arrayToList fails, or an item without its list, is not.
TypeOK ==
    /\ commands \in 0..MaxCommands
    /\ Legal(doc)

Order(d) == [n \in DOMAIN d |-> d[n].text]

\* In every step: no line is lost and the lines keep their order.  Not so when
\* an indent that begins below a list's first item covers this item too, but
\* not the list's end: what follows is dropped (ckeditor.js:784).  Nor when
\* items come out of a list that another one follows in the same item, or with
\* lists of another type below them: one list goes along, the others stay
\* before (745).
LinesKept ==
    \/ Order(doc') = Order(doc)
    \/ LET s == Span(last'.i, last'.j)
       IN  \/ /\ last'.command = "indent" /\ s.from = s.begin
              /\ IsStrictPrefix(SubSeq(Order(doc'), s.begin, Len(doc')),
                                SubSeq(Order(doc), s.begin, Len(doc)))
           \/ /\ last'.command = "outdent" /\ s.depth > 1
              /\ ToSet(Order(doc')) = ToSet(Order(doc))
              /\ \/ s.end < Len(doc) /\ doc[s.end + 1].depth = s.depth
                 \/ \E k \in s.from..s.end : /\ doc[k].depth = s.depth + 1
                                            /\ doc[k].type # doc[s.begin].type

Button(command) == IF command = "numberedlist" THEN "ol" ELSE "ul"

\* In every step: a button of the toolbar makes the selected lines items of its
\* type or, if the selection begins in one, paragraphs of those that are in
\* lists.  Of the other lines it changes no type, and lifts some of those below
\* the paragraphs.
ChosenLinesChange ==
    last'.command \in {"numberedlist", "bulletedlist"} =>
      LET type == Button(last'.command)
      IN  \A k \in DOMAIN doc :
            IF k \notin last'.i..last'.j
            THEN doc'[k].type = doc[k].type /\ doc'[k].depth <= doc[k].depth
            ELSE IF doc[last'.i].type = type THEN doc'[k].depth = 0
            ELSE /\ doc'[k].type = type
                 /\ doc'[k].depth = Max({doc[k].depth, 1})
=============================================================================
