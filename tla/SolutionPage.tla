---------------------------- MODULE SolutionPage ----------------------------
(***************************************************************************)
(* The page of a solution, which asks for its status every two seconds     *)
(* until it is judged.                                                     *)
(*                                                                         *)
(* The pages of a browser share one session, and the web server keeps one  *)
(* form object for it: a request clears it and fills in its parameters     *)
(* before its action runs, and the page is written from it afterwards.     *)
(* Requests of a session run side by side.  The action finds the solution, *)
(* and its runs are loaded when they are first used.                       *)
(***************************************************************************)
EXTENDS Integers

CONSTANTS
    Solutions,   \* the user's solutions
    RunAll,      \* those whose contest runs all tests
    Judged,      \* those that are judged while we look; the others have been
    Pages,       \* the pages of the browser
    Wanted,      \* the solutions opened in each page
    Verdicts,    \* the results that a last run may have
    None,        \* no value; no solution and no status
    MaxEvents    \* bound on the pages loaded, solutions judged again and
                 \* requests that fail, together

VARIABLES
    solution,        \* each solution's row, and the result of its last run
    solutionsForm,   \* the form of the session
    page,            \* each page: what its script asks for and shows
    request,         \* each page's request: its step in the server, what it read
    judgings,        \* history: how often each solution was to be judged
    events,          \* counts the events, for the bound
    mixed            \* history: pages whose form changed before they were written

vars == <<solution, solutionsForm, page, request, judgings, events, mixed>>

Unfinished == {"NEW", "COMPILING", "RUNNING"}
Statuses == Unfinished \cup {"COMPILATION_ERROR", "INTERNAL_ERROR", "PROCESSED"}
\* The statuses for which the page's script has a text.
Texts == (Statuses \ {"PROCESSED"}) \cup Verdicts

NoRequest == [step |-> "none", found |-> None, last |-> None]
Closed == [state |-> "closed", wanted |-> None, asks |-> None,
           shown |-> None, since |-> 0, failed |-> FALSE]

Init ==
    /\ solution = [s \in Solutions |->
                   IF s \in Judged THEN [status |-> "NEW", last |-> None]
                   ELSE [status |-> "PROCESSED", last |-> CHOOSE v \in Verdicts : TRUE]]
    /\ solutionsForm = [solutionId |-> None, status |-> None]
    /\ page = [p \in Pages |-> Closed] /\ request = [p \in Pages |-> NoRequest]
    /\ judgings = [s \in Solutions |-> 1] /\ events = 0 /\ mixed = {}

-----------------------------------------------------------------------------
(* The solution is judged *)

pageVars == <<solutionsForm, page, request, mixed>>

Event == events < MaxEvents /\ events' = events + 1

Saved(s, from, status, result) ==
    /\ s \in Judged /\ solution[s].status = from
    /\ solution' = [solution EXCEPT ![s] = [status |-> status, last |-> result]]
    /\ UNCHANGED <<judgings, events, pageVars>>

\* Only the last save has runs.
testSolutionInternal(s) ==
    \/ Saved(s, "NEW", "COMPILING", None)
    \/ Saved(s, "COMPILING", "COMPILATION_ERROR", None)
    \/ Saved(s, "COMPILING", "RUNNING", None)
    \/ \E result \in Verdicts : Saved(s, "RUNNING", "PROCESSED", result)
    \/ \E from \in Unfinished : Saved(s, from, "INTERNAL_ERROR", None)

resubmitSolution(s) ==
    /\ s \in Judged /\ solution[s].status \notin Unfinished
    /\ Event
    /\ judgings' = [judgings EXCEPT ![s] = @ + 1]
    /\ solution' = [solution EXCEPT ![s] = [status |-> "NEW", last |-> None]]
    /\ UNCHANGED pageVars

-----------------------------------------------------------------------------
(* The web server *)

\* The status to be shown, by the row found and the last of the runs loaded.
Status(s, status, result) ==
    IF status # "PROCESSED" \/ s \in RunAll \/ result = None
    THEN status ELSE result

serverVars == <<solution, judgings, events>>

\* The form changes while other pages are to be written from it.
Mixing(p) == mixed' = mixed \cup {q \in Pages \ {p} : request[q].step = "forwarded"}

\* The form is cleared and takes the request's parameter.
reset(p) ==
    /\ request[p].step = "sent" /\ Mixing(p)
    /\ solutionsForm' = [solutionsForm EXCEPT
                           !.status = None, !.solutionId = page[p].asks]
    /\ request' = [request EXCEPT ![p].step = "populated"]
    /\ UNCHANGED <<serverVars, page>>

getSolution(p) ==
    /\ request[p].step = "populated"
    /\ request' = [request EXCEPT
                     ![p].step = "found", ![p].found = solution[page[p].asks].status]
    /\ UNCHANGED <<serverVars, solutionsForm, page, mixed>>

\* The runs are loaded. A page that is being loaded is written next, from the
\* form; the answer to its script is not.
view(p) ==
    /\ request[p].step = "found" /\ page[p].state = "loading" /\ Mixing(p)
    /\ LET s == page[p].asks
       IN  solutionsForm' = [solutionId |-> s, status |->
                               Status(s, request[p].found, solution[s].last)]
    /\ request' = [request EXCEPT ![p].step = "forwarded"]
    /\ UNCHANGED <<serverVars, page>>

getSolutionStatus(p) ==
    /\ request[p].step = "found" /\ page[p].state = "asking"
    /\ request' = [request EXCEPT
                     ![p].step = "answered", ![p].last = solution[page[p].asks].last]
    /\ UNCHANGED <<serverVars, solutionsForm, page, mixed>>

-----------------------------------------------------------------------------
(* The page *)

\* The user opens a solution, in a new page or in place of another one whose
\* script is not waiting for an answer.
Open(p, s) ==
    /\ Event /\ request[p].step = "none"
    /\ page' = [page EXCEPT ![p] = [Closed EXCEPT
                  !.state = "loading", !.wanted = s, !.asks = s, !.since = judgings[s]]]
    /\ request' = [request EXCEPT ![p].step = "sent"]
    /\ mixed' = mixed \ {p}
    /\ UNCHANGED <<solution, judgings, solutionsForm>>

\* Without a text for a status the old one stays.
responseFunction(pg, status) ==
    [pg EXCEPT !.shown = IF status \in Texts THEN status ELSE @,
               !.state = IF status \in Unfinished THEN "waiting" ELSE "resting"]

\* The page is written: its script asks for the form's solution.
Render(p) ==
    /\ request[p].step = "forwarded"
    /\ page' = [page EXCEPT ![p] =
         responseFunction([@ EXCEPT !.asks = solutionsForm.solutionId],
                          solutionsForm.status)]
    /\ request' = [request EXCEPT ![p] = NoRequest]
    /\ UNCHANGED <<serverVars, solutionsForm, mixed>>

requestFunction(p) ==
    /\ page[p].state = "waiting"
    /\ page' = [page EXCEPT ![p].state = "asking"]
    /\ request' = [request EXCEPT ![p].step = "sent"]
    /\ UNCHANGED <<serverVars, solutionsForm, mixed>>

Answer(p) ==
    /\ request[p].step = "answered"
    /\ LET r == request[p]
       IN  page' = [page EXCEPT ![p] = responseFunction(
                      @, Status(@.asks, r.found, r.last))]
    /\ request' = [request EXCEPT ![p] = NoRequest]
    /\ UNCHANGED <<serverVars, solutionsForm, mixed>>

\* Nothing is done about an error: the script asks no more.
Fail(p) ==
    /\ page[p].state = "asking" /\ Event
    /\ page' = [page EXCEPT ![p].state = "resting", ![p].failed = TRUE]
    /\ request' = [request EXCEPT ![p] = NoRequest]
    /\ UNCHANGED <<solution, judgings, solutionsForm, mixed>>

Working(p) ==
    \/ reset(p) \/ getSolution(p) \/ view(p) \/ getSolutionStatus(p)
    \/ Render(p) \/ requestFunction(p) \/ Answer(p)

Next ==
    \/ \E s \in Solutions : testSolutionInternal(s) \/ resubmitSolution(s)
    \/ \E p \in Pages : Working(p) \/ Fail(p) \/ \E s \in Wanted[p] : Open(p, s)

\* The browser's timers and the server's threads run, and solutions are judged.
Fairness ==
    /\ \A p \in Pages : WF_vars(Working(p))
    /\ \A s \in Judged : WF_vars(testSolutionInternal(s))

Spec == Init /\ [][Next]_vars /\ Fairness

-----------------------------------------------------------------------------

\* Types.
TypeOK ==
    /\ \A s \in Solutions : /\ solution[s].status \in Statuses
                            /\ solution[s].last \in Verdicts \cup {None}
    /\ \A p \in Pages :
         /\ page[p].state \in {"closed", "loading", "waiting", "asking", "resting"}
         /\ page[p].wanted \in Solutions \cup {None}
         /\ page[p].shown \in Texts \cup {None}
         /\ request[p].step # "none" => page[p].state \in {"loading", "asking"}
    /\ solutionsForm.solutionId \in Solutions \cup {None}

Report(s) == Status(s, solution[s].status, solution[s].last)

\* A page that has stopped asking shows the verdict of the solution that was
\* opened.  Not so: after a request failed; in a contest that runs all tests,
\* whose final status has no text; when the solution was judged again since; and
\* when another request of the session changed the form before the page was
\* written (viewSolution.jsp:124, 132, 162).
RestsOnVerdict ==
    \A p \in Pages : page[p].state = "resting" =>
        \/ page[p].shown = Report(page[p].wanted)
        \/ page[p].failed \/ page[p].wanted \in RunAll \/ p \in mixed
        \/ judgings[page[p].wanted] > page[p].since

\* No page asks for ever: all come to rest with the judging.
AtRest == \A p \in Pages : page[p].state \in {"closed", "resting"}
PagesRest == []<>AtRest
=============================================================================
