------------------------------ MODULE RowStream ------------------------------
(***************************************************************************)
(* What an iteration over a Query promises, with no pages, statements or   *)
(* handles: it fixes the rows it will yield when it begins, yields exactly *)
(* them one after the other, and reports its end only after the last.  It  *)
(* may be broken off, by its user or by an error, and the object that is   *)
(* iterated may go away when no iteration is in progress.                  *)
(***************************************************************************)
EXTENDS Naturals

CONSTANTS Queries,  \* the Query objects
          Rows      \* row numbers, and where a result may end

VARIABLES
    state,  \* state[q]: of the latest iteration over q
    next,   \* next[q]: the row it yields next
    stop    \* stop[q]: the first row it will not yield

vars == <<state, next, stop>>

Init ==
    /\ state = [q \in Queries |-> "none"]
    /\ next = [q \in Queries |-> 0]
    /\ stop = [q \in Queries |-> 0]

Move(q, s) == state' = [state EXCEPT ![q] = s]

Begin(q) ==
    /\ state[q] # "on"
    /\ Move(q, "on")
    /\ \E first, end \in Rows :
          /\ first <= end
          /\ next' = [next EXCEPT ![q] = first]
          /\ stop' = [stop EXCEPT ![q] = end]

Take(q) ==
    /\ state[q] = "on"
    /\ next[q] < stop[q]
    /\ next' = [next EXCEPT ![q] = @ + 1]
    /\ UNCHANGED <<state, stop>>

\* The loop over the iteration ends by itself.
Finish(q) ==
    /\ state[q] = "on"
    /\ next[q] = stop[q]
    /\ Move(q, "done")
    /\ UNCHANGED <<next, stop>>

Break(q) ==
    /\ state[q] = "on"
    /\ Move(q, "broken")
    /\ UNCHANGED <<next, stop>>

\* A new iteration is asked for and has no rows to begin with yet.
Forget(q) ==
    /\ state[q] # "on"
    /\ Move(q, "none")
    /\ next' = [next EXCEPT ![q] = 0]
    /\ stop' = [stop EXCEPT ![q] = 0]

Next ==
    \E q \in Queries : Begin(q) \/ Take(q) \/ Finish(q) \/ Break(q) \/ Forget(q)

Spec == Init /\ [][Next]_vars
=============================================================================
