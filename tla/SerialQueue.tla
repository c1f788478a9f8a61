---------------------------- MODULE SerialQueue -----------------------------
(***************************************************************************)
(* What the event queue promises to those who post: there is one order of  *)
(* execution, fixed by the ticks and the order of the posts alone.  There  *)
(* is no clock here, and nobody drives: how a run is cut into steps, calls *)
(* to a horizon and aborted calls cannot be told from it.                  *)
(***************************************************************************)
EXTENDS Integers, Sequences

CONSTANTS
    Ticks,      \* what may be posted for
    Batches     \* what one effect may post, in order

VARIABLES
    waiting,    \* the events posted and not yet executed
    nextOrder,  \* the number of events posted
    executed    \* the events executed, oldest first

vars == <<waiting, nextOrder, executed>>

Before(a, b) == a.at < b.at \/ (a.at = b.at /\ a.order < b.order)

\* No post is for a time that has been lived through.
IsPresent(at) == executed = <<>> \/ executed[Len(executed)].at <= at

Numbered(batch) ==
    {[at |-> batch[i], order |-> nextOrder + i - 1] : i \in DOMAIN batch}

Init == waiting = {} /\ nextOrder = 0 /\ executed = <<>>

Post(at) ==
    /\ IsPresent(at)
    /\ waiting' = waiting \cup {[at |-> at, order |-> nextOrder]}
    /\ nextOrder' = nextOrder + 1
    /\ UNCHANGED executed

Execute(e, batch) ==
    /\ \A f \in waiting \ {e} : Before(e, f)
    /\ IsPresent(e.at)
    /\ \A i \in DOMAIN batch : batch[i] >= e.at
    /\ waiting' = (waiting \ {e}) \cup Numbered(batch)
    /\ nextOrder' = nextOrder + Len(batch)
    /\ executed' = Append(executed, e)

Next == \/ \E at \in Ticks : Post(at)
        \/ \E e \in waiting, batch \in Batches : Execute(e, batch)

Spec == Init /\ [][Next]_vars
=============================================================================
