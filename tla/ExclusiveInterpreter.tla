------------------------ MODULE ExclusiveInterpreter ------------------------
(***************************************************************************)
(* What the plug-in promises about the embedded interpreter, with no mutex,*)
(* no GIL and no thread state: once it is open, one agent thread at a time *)
(* is inside it, as deeply nested as the rules it runs call back, and it   *)
(* closes only when nobody is inside.                                      *)
(***************************************************************************)
EXTENDS Naturals

CONSTANTS Threads,      \* the agent threads that call plug-in operations
          MaxDepth      \* the deepest nesting of operations on one thread

VARIABLES level,        \* level[t]: operations of t inside the interpreter
          open          \* may operations enter?

vars == <<level, open>>

Init ==
    /\ level = [t \in Threads |-> 0]
    /\ open = FALSE

Empty == \A t \in Threads : level[t] = 0

Open ==
    /\ ~open
    /\ Empty
    /\ open' = TRUE
    /\ UNCHANGED level

Close ==
    /\ open
    /\ Empty
    /\ open' = FALSE
    /\ UNCHANGED level

Enter(t) ==
    /\ open
    /\ level[t] < MaxDepth
    /\ \A u \in Threads \ {t} : level[u] = 0
    /\ level' = [level EXCEPT ![t] = @ + 1]
    /\ UNCHANGED open

Leave(t) ==
    /\ level[t] > 0
    /\ level' = [level EXCEPT ![t] = @ - 1]
    /\ UNCHANGED open

Next == Open \/ Close \/ \E t \in Threads : Enter(t) \/ Leave(t)

Spec == Init /\ [][Next]_vars
=============================================================================
