---------------------------- MODULE PagedIterator ----------------------------
(***************************************************************************)
(* class paged_iterator of genquery.py: next() fills a list with rows of a *)
(* row generator and returns it as a page.  The number of rows in a page   *)
(* may be set anew between two pages; above MAX_SQL_ROWS next() takes the  *)
(* rows with itertools.islice, which fails and ends as the loop does.      *)
(*                                                                         *)
(* The generator yields rows 1..RowTotal or raises (GenQuery1 and          *)
(* GenQuery2 show that it does); once it has ended or raised it only says  *)
(* StopIteration.  The definitions a reader would call Init, Next or Spec  *)
(* are named for the pages: IterationProofs extends this module together   *)
(* with GenQuery2.                                                         *)
(***************************************************************************)
EXTENDS Integers, FiniteSetsExt

CONSTANTS
    RowTotal,       \* rows of the generator
    MaxSqlRows,     \* MAX_SQL_ROWS
    Sizes,          \* arguments of set_rows_per_page
    RowsMayFail     \* may the generator raise?

ASSUME PageSizesAssumption ==
    RowTotal \in Nat /\ MaxSqlRows \in Nat \ {0} /\ Sizes \subseteq Int
ASSUME FailureAssumption == RowsMayFail \in BOOLEAN

VARIABLES
    size,       \* rows_per_page
    given,      \* rows the generator has yielded
    generator,  \* "on", "ended" or "raised"
    call,       \* "filling" while next() is in progress, else "idle"
    j,          \* rows in the list it fills
    delivered,  \* rows in the pages returned so far
    outcome     \* of the latest next(): a page that was "full" or "short",
                \* "stop" for StopIteration, "raised"; "none" before the first

pageVars == <<size, given, generator, call, j, delivered, outcome>>

\* Variant: zero and negative sizes are taken as they are.
RowsPerPageAny(n, hard) == IF hard THEN Min({n, MaxSqlRows}) ELSE n

\* set_rows_per_page; the constructor asks for the hard limit.
RowsPerPage(n, hard) ==
    LET atLeastOne == Max({1, n}) IN
    IF hard THEN Min({atLeastOne, MaxSqlRows}) ELSE atLeastOne

PageInit ==
    /\ \E n \in Sizes : size = RowsPerPage(n, TRUE)
    /\ given = 0
    /\ generator = "on"
    /\ call = "idle"
    /\ j = 0
    /\ delivered = 0
    /\ outcome = "none"

SetRowsPerPage ==
    /\ call = "idle"
    /\ \E n \in Sizes : size' = RowsPerPage(n, FALSE)
    /\ UNCHANGED <<given, generator, call, j, delivered, outcome>>

CallNext ==
    /\ call = "idle"
    /\ call' = "filling"
    /\ UNCHANGED <<size, given, generator, j, delivered, outcome>>

WantsRow == call = "filling" /\ j < size
NoRowLeft == generator # "on" \/ given = RowTotal

\* next(self.generator)
TakeRow ==
    /\ WantsRow
    /\ ~NoRowLeft
    /\ given' = given + 1
    /\ j' = j + 1
    /\ UNCHANGED <<size, generator, call, delivered, outcome>>

\* The generator raises: the rows already in the list are lost with it.
RowFails ==
    /\ RowsMayFail
    /\ WantsRow
    /\ generator = "on"
    /\ generator' = "raised"
    /\ call' = "idle"
    /\ j' = 0
    /\ outcome' = "raised"
    /\ UNCHANGED <<size, given, delivered>>

\* Variant: the list is not cut to the rows in it.
ReturnUncut ==
    /\ call' = "idle"
    /\ j' = 0
    /\ delivered' = IF j = 0 THEN delivered ELSE delivered + size
    /\ outcome' = IF j = 0 THEN "stop" ELSE IF j < size THEN "short" ELSE "full"
    /\ UNCHANGED <<size, given>>

\* A page of the j rows in the list, or StopIteration when there is none.
Return ==
    /\ call' = "idle"
    /\ j' = 0
    /\ delivered' = delivered + j
    /\ outcome' = IF j = 0 THEN "stop" ELSE IF j < size THEN "short" ELSE "full"
    /\ UNCHANGED <<size, given>>

\* Variant: the loop leaves the last place of the list empty.
PageFullEarly ==
    /\ call = "filling"
    /\ j > 0 /\ j >= size - 1
    /\ Return
    /\ UNCHANGED generator

PageFull ==
    /\ call = "filling"
    /\ j = size
    /\ Return
    /\ UNCHANGED generator

AfterLast == IF generator = "raised" THEN "raised" ELSE "ended"

\* Variant: StopIteration in the middle of a page is passed on.
PageEndsEmpty ==
    /\ WantsRow
    /\ NoRowLeft
    /\ generator' = AfterLast
    /\ call' = "idle"
    /\ j' = 0
    /\ outcome' = "stop"
    /\ UNCHANGED <<size, given, delivered>>

\* Variant: StopIteration is caught inside the loop.
PageEndsLooping ==
    /\ WantsRow
    /\ NoRowLeft
    /\ generator' = AfterLast
    /\ UNCHANGED <<size, given, call, j, delivered, outcome>>

\* StopIteration of the generator ends the page.
PageEnds ==
    /\ WantsRow
    /\ NoRowLeft
    /\ generator' = AfterLast
    /\ Return

PageNext == SetRowsPerPage \/ CallNext \/ TakeRow \/ RowFails \/ PageFull \/ PageEnds

PageSpec == PageInit /\ [][PageNext]_pageVars

\* A next() that has begun goes on; nothing is assumed of its caller.
FairPageSpec == PageSpec /\ WF_pageVars(TakeRow \/ PageFull \/ PageEnds)

-----------------------------------------------------------------------------
\* The type invariant: a page has at least one place, and no more rows than
\* places.
PageTypeOK ==
    /\ size \in Nat \ {0}
    /\ given \in 0..RowTotal
    /\ generator \in {"on", "ended", "raised"}
    /\ call \in {"idle", "filling"}
    /\ j \in 0..size
    /\ delivered \in Nat
    /\ outcome \in {"none", "full", "short", "stop", "raised"}

\* Until the generator raises, every row it has yielded is in a page that was
\* returned or in the list being filled, and in one only.
NoRowSkipped == generator # "raised" => delivered + j = given

\* StopIteration of next() means that all rows were delivered, unless an
\* exception has told of a loss before.
StopMeansAll == (outcome = "stop" /\ generator # "raised") => delivered = RowTotal

\* Only the last page has fewer rows than asked for, whatever the sizes.
NothingAfterShort == outcome \in {"short", "stop"} => delivered' = delivered

ShortPageIsLast == [][NothingAfterShort]_pageVars

\* next() returns.
NextReturns == (call = "filling") ~> (call = "idle")
=============================================================================
