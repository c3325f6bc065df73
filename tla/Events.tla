--------------------------------- MODULE Events ---------------------------------
(***************************************************************************)
(* The events of the text editor (CKEDITOR.event): listeners with a        *)
(* priority, which may stop or cancel the event, fire it again, or be for  *)
(* once only.  While an event is fired listeners may come and go: those    *)
(* who hear of it are the ones of its beginning.                           *)
(*                                                                         *)
(* The data that the listeners change is left out, as are exceptions.      *)
(***************************************************************************)
EXTENDS Naturals, SequencesExt

CONSTANTS
    Functions,   \* the functions that listen
    Priorities,  \* the priorities that are given, numbers
    MaxOns,      \* bound on the listeners added
    MaxFires     \* bound on the events fired

VARIABLES
    listeners,  \* the sequence of [id, fn, priority, once]; a listener for once has
                \* a function of its own
    fires,      \* the events being fired, the innermost last: [heard, n, around,
                \* own], the listeners it began with, how many were called, the
                \* flags of what is around it; history: those it was given itself
    flags,      \* [stop, cancel], one pair for all events
    ons, fired, \* how many listeners were added, how many events fired
    calls,      \* history: how often each listener was called
    nested      \* history: an event was fired by a listener

vars == <<listeners, fires, flags, ons, fired, calls, nested>>

Clear == [stop |-> FALSE, cancel |-> FALSE]

Listener(fn, priority, once) ==
    [id |-> ons + 1, fn |-> fn, priority |-> priority, once |-> once]

Init ==
    /\ listeners = <<>> /\ fires = <<>> /\ flags = Clear
    /\ ons = 0 /\ fired = 0 /\ calls = <<>> /\ nested = FALSE

\* After the last one that is not of a higher priority number; a function that
\* listens already is not added again.
on(fn, priority, once) ==
    /\ ons < MaxOns
    /\ once \/ \A n \in DOMAIN listeners : listeners[n].once \/ listeners[n].fn # fn
    /\ LET before == {n \in DOMAIN listeners : listeners[n].priority <= priority}
           place == IF before = {} THEN 1 ELSE Max(before) + 1
       IN  listeners' = InsertAt(listeners, place, Listener(fn, priority, once))
    /\ ons' = ons + 1 /\ calls' = Append(calls, 0)
    /\ UNCHANGED <<fires, flags, fired, nested>>

\* By its function, so that one for once is not found.
removeListener(fn) ==
    /\ \E n \in DOMAIN listeners :
         /\ ~listeners[n].once /\ listeners[n].fn = fn
         /\ listeners' = RemoveAt(listeners, n)
    /\ UNCHANGED <<fires, flags, ons, fired, calls, nested>>

-----------------------------------------------------------------------------
(* fire() *)

Innermost == fires[Len(fires)]
InListener == fires # <<>> /\ Innermost.n > 0

\* By the code of the page, or by a listener.
fire ==
    /\ fired < MaxFires /\ (fires = <<>> \/ InListener)
    /\ fires' = Append(fires, [heard |-> listeners, n |-> 0, around |-> flags, own |-> Clear])
    /\ flags' = Clear
    /\ fired' = fired + 1 /\ nested' = (nested \/ fires # <<>>)
    /\ UNCHANGED <<listeners, ons, calls>>

Over == flags # Clear \/ Innermost.n = Len(Innermost.heard)

\* The next listener, also if it is gone by now; one for once takes itself away.
Call ==
    /\ fires # <<>> /\ ~Over
    /\ LET l == Innermost.heard[Innermost.n + 1]
           at == {n \in DOMAIN listeners : l.once /\ listeners[n].id = l.id}
       IN  /\ \/ \E n \in at : listeners' = RemoveAt(listeners, n)
              \/ at = {} /\ UNCHANGED listeners
           /\ calls' = [calls EXCEPT ![l.id] = @ + 1]
    /\ fires' = [fires EXCEPT ![Len(fires)].n = @ + 1]
    /\ UNCHANGED <<flags, ons, fired, nested>>

\* A listener stops the event, or cancels it, as one that returns false does.
Flag(f) ==
    /\ InListener
    /\ flags' = [flags EXCEPT ![f] = TRUE]
    /\ fires' = [fires EXCEPT ![Len(fires)].own[f] = TRUE]
    /\ UNCHANGED <<listeners, ons, fired, calls, nested>>

\* The flags are again those of the event around.
End ==
    /\ fires # <<>> /\ Over
    /\ flags' = Innermost.around
    /\ fires' = Front(fires)
    /\ UNCHANGED <<listeners, ons, fired, calls, nested>>

Next ==
    \/ fire \/ Call \/ End
    \/ \E f \in {"stop", "cancel"} : Flag(f)
    \/ \E fn \in Functions : \/ removeListener(fn)
                             \/ \E priority \in Priorities, once \in BOOLEAN :
                                  on(fn, priority, once)

Spec == Init /\ [][Next]_vars

-----------------------------------------------------------------------------
(* Properties *)

\* Every part of the state has its type.
TypeOK ==
    /\ \A n \in DOMAIN listeners : listeners[n].id \in 1..ons
    /\ \A n \in DOMAIN fires : fires[n].n \in 0..Len(fires[n].heard)
    /\ DOMAIN calls = 1..ons

\* An event is stopped or cancelled by its own listeners only, whatever those
\* of the events fired meanwhile did, though all share one pair of flags
\* (fire).
FlagsAreOwn ==
    IF fires = <<>> THEN flags = Clear ELSE flags = Innermost.own

\* A listener for once is called once, unless a listener before it fires the
\* event again: then it is on the lists of both (once, and the copy of fire).
OnceIsOnce ==
    \A n \in DOMAIN fires : \A k \in DOMAIN fires[n].heard :
       LET l == fires[n].heard[k]
       IN  l.once /\ ~nested => calls[l.id] <= 1

\* The listeners are in the order of their priorities, those of one priority in
\* the order in which they came, in every list that an event goes through, and
\* none is there twice.
InOrder ==
    \A s \in {listeners} \cup {fires[n].heard : n \in DOMAIN fires} :
       \A i, k \in DOMAIN s :
          /\ i < k => \/ s[i].priority < s[k].priority
                      \/ s[i].priority = s[k].priority /\ s[i].id < s[k].id
          /\ ~s[i].once /\ ~s[k].once /\ s[i].fn = s[k].fn => i = k
=============================================================================
