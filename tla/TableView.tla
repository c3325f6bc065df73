------------------------------ MODULE TableView ------------------------------
(***************************************************************************)
(* The tables of the site (web/scripts/dudge-tables.js on DataTables       *)
(* 1.9.4): the paged list of problems with its search, and the scoreboard, *)
(* which asks for itself again every minute.                               *)
(*                                                                         *)
(* A draw only sends a request with the next value of iDraw (sEcho).  Rows *)
(* and pager change when the reply comes, and only if its sEcho is not     *)
(* older than iDraw; the scoreboard's line about the freeze is set by a    *)
(* handler of "xhr", which runs for every reply.  Rows are abstracted to   *)
(* where they come from: the page asked for, the search and the state of   *)
(* the server ("version") they show.                                       *)
(***************************************************************************)
EXTENDS Integers, FiniteSets

CONSTANTS
    Length,      \* _iDisplayLength
    Matching,    \* the most rows the search finds
    MaxRecords,  \* bound on the rows of the server's list
    MaxDraws,    \* bound on the requests
    MaxChanges   \* bound on the changes of the list

VARIABLES
    grid,     \* the page's table: "none", "problems" or "monitor"
    start,    \* _iDisplayStart
    search,   \* the search box is not empty
    sorting,  \* the direction of the sorted column (aaSorting): "asc", "desc"
    iDraw,    \* the number of requests sent
    fetches,  \* the requests and replies under way
    rows,     \* what the table shows: a reply
    pager,    \* what fnUpdate has drawn: the active page and the number of pages
    line,     \* the reply the line above the scoreboard speaks of
    records,  \* the length of the server's list
    frozen,   \* the contest's freeze has begun
    changes,  \* counts the changes, for the bound; the version of the list
    lost,     \* history: the newest request got no answer
    overtaken \* history: a reply came while a newer request was under way

pageVars == <<grid, start, search, sorting, iDraw, rows, pager, line>>
serverVars == <<records, frozen, changes>>
history == <<lost, overtaken>>
vars == <<pageVars, fetches, serverVars, history>>

NoPager == [page |-> 0, pages |-> 0]

Directions == {"asc", "desc"}

Request == [echo : 1..MaxDraws, from : Nat, search : BOOLEAN,
            order : Directions]

\* iTotalDisplayRecords, the first row and their number, and the line.
Reply == [echo : 0..MaxDraws, from : Nat, search : BOOLEAN,
          order : Directions, display : Nat, first : Nat, count : Nat,
          frozen : BOOLEAN, version : Nat]

Nothing == [echo |-> 0, from |-> 0, search |-> FALSE, order |-> "desc",
            display |-> 0, first |-> 0, count |-> 0, frozen |-> FALSE, version |-> 0]

Init ==
    /\ grid = "none" /\ start = 0 /\ search = FALSE /\ sorting = "desc"
    /\ iDraw = 0
    /\ fetches = {} /\ rows = Nothing /\ pager = NoPager /\ line = Nothing
    /\ records = 0 /\ frozen = FALSE /\ changes = 0
    /\ lost = FALSE /\ overtaken = FALSE

-----------------------------------------------------------------------------
(* The pager *)

Ceiling(n) == (n + Length - 1) \div Length

fnPagingInfo(from, display) ==
    [page |-> Ceiling(from), pages |-> Ceiling(display)]

iListLength == 7
iHalf == iListLength \div 2

iStart(p) ==
    IF p.pages <= iListLength \/ p.page <= iHalf THEN 1
    ELSE IF p.page >= p.pages - iHalf - 1 THEN p.pages - iListLength + 3
    ELSE p.page - iHalf + 3

iEnd(p) ==
    IF p.pages <= iListLength THEN p.pages
    ELSE IF p.page <= iHalf THEN iListLength - 2
    ELSE IF p.page >= p.pages - iHalf - 1 THEN p.pages
    ELSE p.page + iHalf - 1

\* The numbered links, with the first and the last page beyond an ellipsis.
Links(p) ==
    iStart(p)..iEnd(p)
        \cup {n \in {1} : iStart(p) > 1}
        \cup {n \in {p.pages} : iEnd(p) < p.pages}

\* The arrows that are drawn as enabled.
LeadsBack(p) == p.page # 0
LeadsOn(p) == p.page # p.pages - 1 /\ p.pages # 0

\* "Showing _START_ to _END_ of _TOTAL_" below the rows.
Information(from, display) ==
    [first |-> IF display = 0 THEN 0 ELSE from + 1,
     last |-> IF from + Length < display THEN from + Length ELSE display]

-----------------------------------------------------------------------------
(* The user, the timer *)

\* _fnAjaxUpdate: the request goes out, nothing is drawn yet.
Draw(from, searched, order) ==
    /\ iDraw < MaxDraws
    /\ iDraw' = iDraw + 1
    /\ start' = from /\ search' = searched /\ sorting' = order
    /\ fetches' = fetches \cup
         {[echo |-> iDraw + 1, from |-> from, search |-> searched,
           order |-> order]}
    /\ lost' = FALSE

\* bStateSave brings the list back as it was left, page, search and order,
\* whatever has become of that page; the scoreboard has none of them.
Open(g, from, searched, order, n) ==
    /\ grid = "none" /\ grid' = g
    /\ g = "monitor" => from = 0 /\ ~searched /\ order = "desc"
    /\ records' = n
    /\ Draw(from, searched, order)
    /\ UNCHANGED <<rows, pager, line, frozen, changes, overtaken>>

\* A link draws its page, also when it is the active one.
ClickLink(n) ==
    /\ grid = "problems" /\ rows # Nothing
    /\ n \in Links(pager)
    /\ Draw((n - 1) * Length, search, sorting)
    /\ UNCHANGED <<grid, rows, pager, line, serverVars, overtaken>>

\* _fnPageChange: the arrows count from where the newest request went; a
\* disabled one is still clickable.
fnClickHandler(to) ==
    /\ grid = "problems"
    /\ to # start
    /\ Draw(to, search, sorting)
    /\ UNCHANGED <<grid, rows, pager, line, serverVars, overtaken>>

Previous == IF start >= Length THEN start - Length ELSE 0
Following == IF start + Length < rows.display THEN start + Length ELSE start

PreviousPage == fnClickHandler(Previous)
NextPage == fnClickHandler(Following)

Search ==
    /\ grid = "problems"
    /\ Draw(0, ~search, sorting)
    /\ UNCHANGED <<grid, rows, pager, line, serverVars, overtaken>>

\* A click on the header of the sorted column; the order goes to the server
\* with the request for the first page.
Sort ==
    /\ grid = "problems"
    /\ Draw(0, search, IF sorting = "asc" THEN "desc" ELSE "asc")
    /\ UNCHANGED <<grid, rows, pager, line, serverVars, overtaken>>

\* Each minute; with bServerSide it only draws, from the first row.
fnReloadAjax ==
    /\ grid = "monitor"
    /\ Draw(0, search, sorting)
    /\ UNCHANGED <<grid, rows, pager, line, serverVars, overtaken>>

-----------------------------------------------------------------------------
(* The server *)

Found(searched) ==
    IF searched /\ Matching < records THEN Matching ELSE records

\* getProblemList: a page that begins behind the end has no positive length,
\* and then the whole list is sent.
getProblemList(r) ==
    LET size == Found(r.search)
        length == IF r.from + Length > size THEN size - r.from ELSE Length
    IN  [echo |-> r.echo, from |-> r.from, search |-> r.search,
         order |-> r.order, display |-> size,
         first |-> IF length > 0 THEN r.from ELSE 0,
         count |-> IF length > 0 THEN length ELSE size,
         frozen |-> FALSE, version |-> changes]

\* getAcmMonitorData: all rows, and whether they are those of the freeze.
getAcmMonitorData(r) ==
    [echo |-> r.echo, from |-> r.from, search |-> r.search,
     order |-> r.order, display |-> records, first |-> 0, count |-> records,
     frozen |-> frozen, version |-> changes]

Serve(r) ==
    /\ r \in fetches /\ r \in Request
    /\ fetches' = (fetches \ {r}) \cup
         {IF grid = "monitor" THEN getAcmMonitorData(r) ELSE getProblemList(r)}
    /\ UNCHANGED <<pageVars, serverVars, history>>

\* Others add and remove problems; on a frozen scoreboard nothing moves.
Change(n) ==
    /\ grid # "none" /\ ~frozen
    /\ changes < MaxChanges /\ changes' = changes + 1
    /\ records' = n
    /\ UNCHANGED <<pageVars, fetches, frozen, history>>

Freeze ==
    /\ grid = "monitor" /\ ~frozen
    /\ frozen' = TRUE
    /\ UNCHANGED <<pageVars, fetches, records, changes, history>>

-----------------------------------------------------------------------------
(* The replies, in any order *)

\* Mutant of Arrive: the echo is not looked at.
ArriveUnasked(r) ==
    /\ r \in fetches /\ r \in Reply
    /\ fetches' = fetches \ {r}
    /\ line' = IF grid = "monitor" THEN r ELSE line
    /\ overtaken' = (overtaken \/ r.echo < iDraw)
    /\ rows' = r
    /\ pager' = fnPagingInfo(start, r.display)
    /\ UNCHANGED <<grid, start, search, sorting, iDraw, serverVars, lost>>

\* _fnAjaxUpdateDraw and the handler of "xhr" before it.
Arrive(r) ==
    /\ r \in fetches /\ r \in Reply
    /\ fetches' = fetches \ {r}
    /\ line' = IF grid = "monitor" THEN r ELSE line
    /\ overtaken' = (overtaken \/ r.echo < iDraw)
    /\ IF r.echo < iDraw
       THEN UNCHANGED <<rows, pager>>
       ELSE /\ rows' = r
            /\ pager' = fnPagingInfo(start, r.display)
    /\ UNCHANGED <<grid, start, search, sorting, iDraw, serverVars, lost>>

\* The connection breaks, or the reply is empty (a scoreboard closed to the
\* user meanwhile): DataTables leaves the table as it is.
Fail(r) ==
    /\ r \in fetches /\ r \in Request
    /\ fetches' = fetches \ {r}
    /\ lost' = (lost \/ r.echo = iDraw)
    /\ UNCHANGED <<pageVars, serverVars, overtaken>>

Next ==
    \/ \E g \in {"problems", "monitor"}, from, n \in 0..MaxRecords,
          searched \in BOOLEAN, order \in Directions :
         from % Length = 0 /\ Open(g, from, searched, order, n)
    \/ \E n \in 1..MaxRecords : ClickLink(n)
    \/ PreviousPage \/ NextPage \/ Search \/ Sort \/ fnReloadAjax
    \/ \E r \in fetches : Serve(r) \/ Arrive(r) \/ Fail(r)
    \/ \E n \in {records - 1, records + 1} \cap 0..MaxRecords : Change(n)
    \/ Freeze

\* A request sent is answered or fails, and the answer reaches the page.
Pending(n) == \E r \in fetches : r.echo = n

Answering(n) == \E r \in fetches : r.echo = n /\ (Serve(r) \/ Arrive(r) \/ Fail(r))

Fairness == \A n \in 1..MaxDraws : WF_vars(Answering(n))

Spec == Init /\ [][Next]_vars /\ Fairness

-----------------------------------------------------------------------------

\* Types.
TypeOK ==
    /\ grid \in {"none", "problems", "monitor"}
    /\ start \in 0..MaxRecords /\ search \in BOOLEAN
    /\ sorting \in Directions /\ iDraw \in 0..MaxDraws
    /\ \A r \in fetches : r \in Request \/ r \in Reply
    /\ rows \in Reply /\ line \in Reply
    /\ pager.page \in 0..MaxRecords /\ pager.pages \in 0..MaxRecords
    /\ records \in 0..MaxRecords /\ frozen \in BOOLEAN
    /\ changes \in 0..MaxChanges /\ lost \in BOOLEAN /\ overtaken \in BOOLEAN

\* When no answer is awaited and the newest one was not lost, the rows are
\* those of the page, search and order the user asked for last, and the pager
\* marks that page: answers that come in another order than their questions
\* leave no rows of one page under the number of another
\* (dudge-tables.js:38, 54, 84 and the echo DataTables checks).
ShownIsAsked ==
    (~Pending(iDraw) /\ ~lost /\ iDraw > 0) =>
        /\ rows.from = start /\ rows.search = search /\ rows.order = sorting
        /\ pager = fnPagingInfo(rows.from, rows.display)

\* From every page drawn, the links lead to the first and the last page, to
\* this page and to both its neighbours, only to pages there are, and they are
\* never more than seven; from a page that is no longer there, at least to the
\* first and the last (dudge-tables.js:60-119).
PagerReaches ==
    rows # Nothing =>
        /\ Links(pager) \subseteq 1..pager.pages
        /\ {1, pager.pages, pager.page, pager.page + 1, pager.page + 2}
              \cap 1..pager.pages \subseteq Links(pager)
        /\ Cardinality(Links(pager)) <= iListLength

\* When no answer is awaited, an arrow that looks enabled leads to another page
\* and one that looks disabled leads nowhere; but on a page that is no longer
\* there the right arrow looks enabled and does nothing
\* (dudge-tables.js:121-132 and the page change of DataTables).
ArrowsTrue ==
    (grid = "problems" /\ rows # Nothing /\ fetches = {} /\ ~lost) =>
        /\ LeadsBack(pager) <=> Previous # start
        /\ pager.page < pager.pages \/ pager.pages = 0
             => (LeadsOn(pager) <=> Following # start)

\* The line below the list of problems counts the rows above it, but on a page
\* that is no longer there, where all rows are sent and the line runs
\* backwards (the information of DataTables and ProblemsAction.java:193-202).
InformationTrue ==
    LET i == Information(rows.from, rows.display)
    IN  (grid = "problems" /\ rows # Nothing) =>
          IF rows.from < rows.display
          THEN i.last - i.first + 1 = rows.count /\ rows.first = i.first - 1
          ELSE /\ rows.count = rows.display
               /\ rows.display > 0 => i.last < i.first

\* The line above the scoreboard speaks of the rows below it, unless a reply
\* came after a newer request had gone out: then the line may be older or
\* newer than the rows (monitorACM.jsp:25-37; a reply that takes a minute).
LineOfRows == overtaken \/ line.echo = rows.echo \/ grid # "monitor"

\* Each request for rows is followed by its rows, unless the user asks for
\* others first or the answer is lost.
AtRest == rows.echo = iDraw \/ lost
RowsCome == []<>AtRest
=============================================================================
