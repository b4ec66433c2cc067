----------------------------- MODULE MCIteration -----------------------------
(* Instances of GenQuery2 and of PagedIterator for TLC, in one run.  The two   *)
(* share no variable, so that a behaviour exercises one of them while the      *)
(* other keeps its initial state: what their interleavings would add is the    *)
(* product of the states only.                                                 *)
EXTENDS GenQuery2, PagedIterator

MCSizes == -1..5

EitherInit == Init /\ PageInit

QueryStep ==
    /\ PageInit /\ size = 1
    /\ Next
    /\ UNCHANGED pageVars

PageStep ==
    /\ Init
    /\ PageNext
    /\ UNCHANGED vars

\* The fairness is that of FairPageSpec.
EitherSpec ==
    /\ EitherInit /\ [][QueryStep \/ PageStep]_<<vars, pageVars>>
    /\ WF_pageVars(PageStep /\ (TakeRow \/ PageFull \/ PageEnds))
=============================================================================
