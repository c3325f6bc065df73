---------------------------- MODULE Highlighter ----------------------------
(***************************************************************************)
(* The highlighting of a solution's source (prettify), with numbered       *)
(* lines: the source is cut into the items of a list, its text is read     *)
(* from them again and divided into tokens, and the text nodes are cut     *)
(* into spans with the tokens' styles.                                     *)
(*                                                                         *)
(* A character is its place in the source; which characters make a token   *)
(* of which style is left open.  Places in the text read are counted from  *)
(* 0, as in the program.                                                   *)
(***************************************************************************)
EXTENDS Integers, Sequences, SequencesExt, FiniteSetsExt

CONSTANTS
    MaxLength,  \* bound on the length of the source
    Styles,     \* the styles of tokens
    Nbsp        \* the space that stands in an empty line

VARIABLES
    source,  \* its characters, "newline" for those that end a line
    items,   \* the list's items, each the sequence of its spans, or NotYet
    chosen   \* history: the decorations of the text

vars == <<source, items, chosen>>

NotYet == <<>>
Newline == "newline"

Init ==
    /\ \E n \in 0..MaxLength : \E breaks \in SUBSET (1..n) :
         source = [k \in 1..n |-> IF k \in breaks THEN Newline ELSE ToString(k)]
    /\ items = NotYet /\ chosen = <<>>

-----------------------------------------------------------------------------

\* The texts of the items: a line each, without its end. The end of the last
\* line begins no other one.
numberLines ==
    LET ends == {k \in DOMAIN source : source[k] = Newline /\ k < Len(source)}
        stop == IF source # <<>> /\ Last(source) = Newline
                THEN Len(source) ELSE Len(source) + 1
        starts == SetToSortSeq({1} \cup {k + 1 : k \in ends}, <)
        End(i) == IF i < Len(starts) THEN starts[i + 1] - 1 ELSE stop
        line(i) == SubSeq(source, starts[i], End(i) - 1)
    IN  [i \in DOMAIN starts |-> IF line(i) = <<>> THEN <<Nbsp>> ELSE line(i)]

\* An item's text node, and then the item itself, which stands for a newline.
extractSourceSpans(lines) ==
    LET start == [i \in 1..(Len(lines) + 1) |->
                    FoldLeft(LAMBDA sum, l : sum + Len(l) + 1, 0,
                                           SubSeq(lines, 1, i - 1))]
    IN  [text |-> FoldLeft(LAMBDA t, l : t \o l \o <<Newline>>, <<>>, lines),
         length |-> start[Len(lines) + 1] - 1,
         spans |-> [n \in 1..(2 * Len(lines)) |->
                      LET i == (n + 1) \div 2
                      IN  [item |-> i, text |-> n % 2 = 1,
                           start |-> IF n % 2 = 1 THEN start[i]
                                     ELSE start[i] + Len(lines[i])]]]

\* What a lexer may return: plain from 0 on, and a style from each token on. A
\* token may be lexed for itself, and is then plain from its begin on too.
Decorations(length) ==
    LET Ways == {<<s>> : s \in Styles} \cup {<<"pln", s>> : s \in Styles \ {"pln"}}
        Starting(k, styles) == [i \in DOMAIN styles |-> [start |-> k, style |-> styles[i]]]
    IN  {<<[start |-> 0, style |-> "pln"]>>
           \o FlattenSeq([n \in 1..length |-> Starting(n - 1, d[n])]) :
           d \in {d \in [1..length -> Ways \cup {<<>>}] : d[1] # <<>>}}

\* Of those with one place the last counts, and of those with one style in a row
\* the first.
Reduced(d) ==
    LET Pick(s, Test(_)) ==
            LET k == SetToSortSeq({i \in DOMAIN s : Test(i)}, <)
            IN  [n \in DOMAIN k |-> s[k[n]]]
        last == Pick(d, LAMBDA i : i = Len(d) \/ d[i].start # d[i + 1].start)
    IN  Pick(last, LAMBDA i : i = 1 \/ last[i].style # last[i - 1].style)

\* The text nodes are cut where a decoration or the node ends.
recombineTagsAndDecorations(x, decorations) ==
    LET d == Reduced(decorations)
        Next(s, i) == IF i < Len(s) THEN s[i + 1].start ELSE x.length
        Step(a, n) ==
            IF a.span > Len(x.spans) THEN a
            ELSE LET node == x.spans[a.span]
                     spanEnd == Next(x.spans, a.span)
                     decEnd == Next(d, a.dec)
                     end == Min({spanEnd, decEnd})
                     piece == [style |-> d[Min({a.dec, Len(d)})].style,
                               text |-> SubSeq(x.text, a.at + 1, end)]
                 IN  [at |-> end,
                      span |-> IF end >= spanEnd THEN a.span + 1 ELSE a.span,
                      dec |-> IF end >= decEnd THEN a.dec + 1 ELSE a.dec,
                      items |-> IF ~node.text \/ end = a.at THEN a.items
                                ELSE [a.items EXCEPT ![node.item] = Append(@, piece)]]
    IN  FoldLeft(Step,
                 [at |-> 0, span |-> 1, dec |-> 1,
                  items |-> [i \in 1..(Len(x.spans) \div 2) |-> <<>>]],
                 [n \in 1..(Len(x.spans) + Len(d)) |-> n]).items

prettyPrint ==
    /\ items = NotYet
    /\ LET x == extractSourceSpans(numberLines)
       IN  \E decorations \in Decorations(x.length) :
             /\ chosen' = decorations
             /\ items' = recombineTagsAndDecorations(x, decorations)
    /\ UNCHANGED source

Next == prettyPrint

Spec == Init /\ [][Next]_vars

-----------------------------------------------------------------------------

Pieces(item) == FoldLeft(LAMBDA t, piece : t \o piece.text, <<>>, item)

\* The highlighted lines are those of the source, each with all its characters
\* in their order, and a space in those without; only the newline at the end of
\* the source makes no line (run_prettify.js:15, 18-20).
TextKept ==
    items # NotYet =>
      LET lines == [i \in DOMAIN items |->
                      IF Pieces(items[i]) = <<Nbsp>> THEN <<>> ELSE Pieces(items[i])]
          joined == FoldLeft(LAMBDA t, l : t \o l \o <<Newline>>, <<>>, lines)
      IN  joined = IF source # <<>> /\ Last(source) = Newline
                   THEN source ELSE Append(source, Newline)

\* Each character has the style of the token it belongs to, of the last of those
\* with one place (run_prettify.js:20-22).
StylesTrue ==
    items # NotYet =>
      LET Place(i, k) == FoldLeft(LAMBDA sum, item : sum + Len(Pieces(item)) + 1, 0,
                                  SubSeq(items, 1, i - 1)) + k
          StyleAt(at) == chosen[Max({n \in DOMAIN chosen : chosen[n].start <= at})].style
      IN  \A i \in DOMAIN items : \A j \in DOMAIN items[i] :
            LET before == Len(Pieces(SubSeq(items[i], 1, j - 1)))
            IN  \A k \in DOMAIN items[i][j].text :
                  items[i][j].style = StyleAt(Place(i, before + k - 1))
=============================================================================
