------------------------------ MODULE GenQuery1 ------------------------------
(***************************************************************************)
(* class Query of genquery.py with Parser.GENQUERY1: lazily executed,      *)
(* paged, iterated by a generator, closed by fetching once more with       *)
(* AUTO_CLOSE, and counted by total_rows().  Several Query objects live in *)
(* one rule and share the statement table of the server's agent.           *)
(*                                                                         *)
(* A rule is one Python thread, so at most one Query method runs at a time:*)
(* "me" and "step" say which and where.  Every microservice call is a step *)
(* of its own, and may fail.  A generator keeps its place between calls of *)
(* next() in gen[q].                                                       *)
(*                                                                         *)
(* Rows are 1..Total.  A limit of None is 0 (README: a limit is at least   *)
(* 1), and so is a continue index of None: both are falsy, and no code     *)
(* that compares it runs while gqo is None.  An iteration in progress is   *)
(* not overlapped by another one, nor by close(), on the same object.      *)
(***************************************************************************)
EXTENDS Integers, FiniteSets

CONSTANTS
    Queries,        \* the Query objects a rule may have at one time
    Total,          \* how many rows match the query
    MaxSqlRows,     \* rows in a page of the server (MAX_SQL_ROWS)
    MaxStatements,  \* size of the server's statement table
    Offsets,        \* values of the offset argument of the constructor
    CopyOffsets,    \* values of the offset argument of copy()
    Limits,         \* values of the limit argument, 0 for None
    CallsMayFail    \* may a microservice call fail?

ASSUME SizesAssumption ==
    /\ Total \in Nat
    /\ MaxSqlRows \in Nat \ {0, 1}
    /\ MaxStatements \in Nat
ASSUME ArgumentsAssumption ==
    /\ Offsets \subseteq Nat
    /\ CopyOffsets \subseteq Nat
    /\ Limits \subseteq Nat
    /\ CallsMayFail \in BOOLEAN

VARIABLES
    obj,        \* obj[q]: the attributes of Query object q
    gen,        \* gen[q]: the generator of its latest iteration
    me,         \* the object whose method runs, when step # "idle"
    step,       \* where that method is
    copyCti,    \* continue index of the temporary copy made by total_rows()
    stmts,      \* the server's statements: next row to fetch, 0 if closed
    abandoned   \* statements whose closing failed in __del__

vars == <<obj, gen, me, step, copyCti, stmts, abandoned>>

Slots == 1..MaxStatements

NoPage == [first |-> 0, rows |-> 0, total |-> 0]
Page == [first : Nat, rows : 0..MaxSqlRows, total : {0, Total}]

NoTotal == -1

\* A page of at most max rows that begins with row first.
PageAt(first, max, count) ==
    [first |-> first,
     rows  |-> IF first > Total THEN 0
               ELSE IF Total + 1 - first < max THEN Total + 1 - first ELSE max,
     total |-> IF count THEN Total ELSE 0]

After(page) == page.first + page.rows

-----------------------------------------------------------------------------
\* The server's side of msiExecGenQuery and msiGetMoreRows (not in this
\* repository).  It knows only after the fact whether a full page was the last.

\* The first page.  A row count together with an offset yields no rows
\* (genquery.py, the comment in total_rows()).
FirstPage(offset, max, count) ==
    IF count /\ offset > 0 THEN [PageAt(offset + 1, 0, count) EXCEPT !.rows = 0]
    ELSE PageAt(offset + 1, max, count)

\* Execute: the reply carries continue index c, 0 when no statement stays.
Opens(c, page, max) ==
    /\ \E s \in Slots : stmts[s] = 0
    /\ \/ /\ c = 0
          /\ After(page) > Total \/ page.rows < max \/ max = 0
          /\ UNCHANGED stmts
       \/ /\ c \in Slots
          /\ stmts[c] = 0
          /\ page.rows = max
          /\ stmts' = [stmts EXCEPT ![c] = After(page)]

\* Get more rows of statement s: the reply carries continue index c.
Fetches(s, auto, page, c) ==
    /\ page.first = stmts[s]
    /\ \/ /\ c = 0
          /\ auto \/ After(page) > Total
          /\ stmts' = [stmts EXCEPT ![s] = 0]
       \/ /\ c = s
          /\ ~auto
          /\ page.rows = MaxSqlRows
          /\ stmts' = [stmts EXCEPT ![s] = After(page)]

-----------------------------------------------------------------------------
NewObject(offset, limit, count) ==
    [alive |-> TRUE, offset |-> offset, limit |-> limit, count |-> count,
     auto |-> FALSE, gqi |-> FALSE, gqo |-> NoPage, cti |-> 0, total |-> NoTotal]

NoObject == [NewObject(0, 0, FALSE) EXCEPT !.alive = FALSE]

\* on: suspended at its yield; row: the row it yielded; base: the first row of
\* the page it began with; auto: whether it began with AUTO_CLOSE already set.
NoGenerator ==
    [on |-> FALSE, r |-> 0, rowi |-> 0, row |-> 0, base |-> 0, auto |-> FALSE,
     ended |-> "none"]

Init ==
    /\ obj = [q \in Queries |-> NoObject]
    /\ gen = [q \in Queries |-> NoGenerator]
    /\ me \in Queries
    /\ step = "idle"
    /\ copyCti = 0
    /\ stmts = [s \in Slots |-> 0]
    /\ abandoned = {}

Goto(s) == step' = s
Begin(q, s) == step = "idle" /\ me' = q /\ step' = s

Executed(q) == obj[q].gqi
HasPage(q) == obj[q].gqo # NoPage
Counting(q) == obj[q].count \/ obj[q].offset = 0

\* Variant: one row more.
LimitReachedLate(q) == obj[q].limit # 0 /\ gen[q].rowi > obj[q].limit

LimitReached(q) == obj[q].limit # 0 /\ gen[q].rowi >= obj[q].limit

\* Variant: any limit becomes maxRows.
MaxRowsAnyLimit(q) == IF obj[q].limit # 0 THEN obj[q].limit ELSE MaxSqlRows

\* gqi.maxRows as exec_if_not_yet_execed() leaves it.
MaxRows(q) ==
    IF obj[q].limit # 0 /\ obj[q].limit < MaxSqlRows - 1 THEN obj[q].limit ELSE MaxSqlRows

\* "Mark self as closed."
Closed(o) == [o EXCEPT !.gqi = FALSE, !.gqo = NoPage, !.cti = 0]

Raise(q) ==
    /\ gen' = [gen EXCEPT ![q].on = FALSE, ![q].ended = "raised"]
    /\ Goto("idle")

-----------------------------------------------------------------------------
\* Query(callback, ...)
New(q) ==
    /\ step = "idle"
    /\ ~obj[q].alive
    /\ \E offset \in Offsets, limit \in Limits :
          obj' = [obj EXCEPT ![q] = NewObject(offset, limit, FALSE)]
    /\ gen' = [gen EXCEPT ![q] = NoGenerator]
    /\ UNCHANGED <<me, step, copyCti, stmts, abandoned>>

\* p = q.copy(offset=...): the options the original has acquired come along.
Copy(q, p) ==
    /\ step = "idle"
    /\ obj[q].alive /\ ~obj[p].alive
    /\ \E offset \in CopyOffsets :
          obj' = [obj EXCEPT ![p] = NewObject(offset, obj[q].limit, obj[q].count)]
    /\ gen' = [gen EXCEPT ![p] = NoGenerator]
    /\ UNCHANGED <<me, step, copyCti, stmts, abandoned>>

-----------------------------------------------------------------------------
\* Iteration.

\* The first next() of a new generator.  An object that was executed before
\* goes on with the page it has; one whose execution failed halfway has none.
Iterate(q) ==
    /\ obj[q].alive /\ ~gen[q].on
    /\ \/ /\ ~Executed(q)
          /\ gen' = [gen EXCEPT ![q] = NoGenerator]
          /\ Begin(q, "exec")
       \/ /\ Executed(q) /\ HasPage(q)
          /\ gen' = [gen EXCEPT ![q] = [NoGenerator EXCEPT
                        !.base = obj[q].gqo.first, !.auto = obj[q].auto]]
          /\ Begin(q, "rows")
       \/ /\ Executed(q) /\ ~HasPage(q)
          /\ gen' = [gen EXCEPT ![q] = [NoGenerator EXCEPT !.ended = "raised"]]
          /\ Begin(q, "idle")
    /\ UNCHANGED <<obj, copyCti, stmts, abandoned>>

\* exec_if_not_yet_execed(), for an iteration or for total_rows().
Exec ==
    /\ step \in {"exec", "totalexec"}
    /\ LET page == FirstPage(obj[me].offset, MaxRows(me), Counting(me)) IN
       \E c \in {0} \cup Slots :
          /\ Opens(c, page, MaxRows(me))
          /\ obj' = [obj EXCEPT ![me] = [@ EXCEPT
                        !.gqi = TRUE, !.gqo = page, !.cti = c, !.auto = FALSE,
                        !.count = Counting(me),
                        !.total = IF step = "exec" THEN NoTotal ELSE page.total]]
          /\ IF step = "exec"
             THEN gen' = [gen EXCEPT ![me].base = page.first] /\ Goto("rows")
             ELSE UNCHANGED gen /\ Goto("idle")
    /\ UNCHANGED <<me, copyCti, abandoned>>

\* msiMakeGenQuery fails and nothing is set, or msiExecGenQuery fails and the
\* object has a gqi but no gqo: it will never execute again.
ExecFails ==
    /\ CallsMayFail \/ \A s \in Slots : stmts[s] # 0
    /\ step \in {"exec", "totalexec"}
    /\ obj' \in {obj, [obj EXCEPT ![me].gqi = TRUE, ![me].count = Counting(me),
                                  ![me].auto = FALSE]}
    /\ IF step = "exec" THEN Raise(me) ELSE UNCHANGED gen /\ Goto("idle")
    /\ UNCHANGED <<me, copyCti, stmts, abandoned>>

\* The next row of the page is yielded.
Yield ==
    /\ step = "rows"
    /\ gen[me].r < obj[me].gqo.rows
    /\ ~LimitReached(me)
    /\ gen' = [gen EXCEPT ![me] = [@ EXCEPT
                  !.on = TRUE, !.r = gen[me].r + 1, !.rowi = gen[me].rowi + 1,
                  !.row = obj[me].gqo.first + gen[me].r]]
    /\ Goto("idle")
    /\ UNCHANGED <<obj, me, copyCti, stmts, abandoned>>

\* next() on the suspended generator.
Resume(q) ==
    /\ gen[q].on
    /\ Begin(q, "rows")
    /\ gen' = [gen EXCEPT ![q].on = FALSE]
    /\ UNCHANGED <<obj, copyCti, stmts, abandoned>>

\* The limit is met within a page.
StopAtLimit ==
    /\ step = "rows"
    /\ gen[me].r < obj[me].gqo.rows
    /\ LimitReached(me)
    /\ gen' = [gen EXCEPT ![me].ended = "done"]
    /\ Goto("ending")
    /\ UNCHANGED <<obj, me, copyCti, stmts, abandoned>>

\* Variant: any limit ends the iteration with the page.
EndOfPageLimited ==
    /\ step = "rows"
    /\ gen[me].r >= obj[me].gqo.rows
    /\ \/ /\ obj[me].cti <= 0 \/ obj[me].limit # 0
          /\ gen' = [gen EXCEPT ![me].ended = "done"]
          /\ Goto("ending")
       \/ /\ obj[me].cti > 0 /\ obj[me].limit = 0
          /\ UNCHANGED gen
          /\ Goto("fetch")
    /\ UNCHANGED <<obj, me, copyCti, stmts, abandoned>>

\* The page is exhausted: the iteration ends when there is no other page or
\* the limit is met, and goes on with the next page otherwise.
EndOfPage ==
    /\ step = "rows"
    /\ gen[me].r >= obj[me].gqo.rows
    /\ \/ /\ obj[me].cti <= 0 \/ LimitReached(me)
          /\ gen' = [gen EXCEPT ![me].ended = "done"]
          /\ Goto("ending")
       \/ /\ obj[me].cti > 0 /\ ~LimitReached(me)
          /\ UNCHANGED gen
          /\ Goto("fetch")
    /\ UNCHANGED <<obj, me, copyCti, stmts, abandoned>>

\* Variant: the loop over the next page goes on at the row it had reached.
FetchKeepingRow ==
    /\ step = "fetch"
    /\ LET page == PageAt(stmts[obj[me].cti], MaxSqlRows, obj[me].count) IN
       \E c \in {0} \cup Slots :
          /\ Fetches(obj[me].cti, obj[me].auto, page, c)
          /\ obj' = [obj EXCEPT ![me].gqo = page, ![me].cti = c]
    /\ gen' = [gen EXCEPT ![me].r = @ - 1]
    /\ Goto("rows")
    /\ UNCHANGED <<me, copyCti, abandoned>>

\* _fetch() between two pages.
Fetch ==
    /\ step = "fetch"
    /\ LET page == PageAt(stmts[obj[me].cti], MaxSqlRows, obj[me].count) IN
       \E c \in {0} \cup Slots :
          /\ Fetches(obj[me].cti, obj[me].auto, page, c)
          /\ obj' = [obj EXCEPT ![me].gqo = page, ![me].cti = c]
    /\ gen' = [gen EXCEPT ![me].r = 0]
    /\ Goto("rows")
    /\ UNCHANGED <<me, copyCti, abandoned>>

FetchFails ==
    /\ CallsMayFail
    /\ step = "fetch"
    /\ Raise(me)
    /\ UNCHANGED <<obj, me, copyCti, stmts, abandoned>>

\* The loop over the generator is left early: GeneratorExit at the yield.
Abandon(q) ==
    /\ gen[q].on
    /\ gen' = [gen EXCEPT ![q].on = FALSE, ![q].ended = "aborted"]
    /\ Begin(q, "ending")
    /\ UNCHANGED <<obj, copyCti, stmts, abandoned>>

-----------------------------------------------------------------------------
\* Closing: by the generator that ends, by close(), or by __del__.

ClosingSteps == {"ending", "closing", "dropping"}

\* close()
Close(q) ==
    /\ obj[q].alive /\ ~gen[q].on
    /\ Begin(q, "closing")
    /\ UNCHANGED <<obj, gen, copyCti, stmts, abandoned>>

\* The last reference goes away: __del__.
Drop(q) ==
    /\ obj[q].alive /\ ~gen[q].on
    /\ Begin(q, "dropping")
    /\ UNCHANGED <<obj, gen, copyCti, stmts, abandoned>>

\* The object after _close() has done its work: __del__ takes it away.
Finished(o) == IF step = "dropping" THEN NoObject ELSE o

\* _close() of an object without a continue index returns at once and leaves
\* gqi and gqo as they are.
CloseNothing ==
    /\ step \in ClosingSteps
    /\ obj[me].cti = 0
    /\ obj' = [obj EXCEPT ![me] = Finished(@)]
    /\ Goto("idle")
    /\ UNCHANGED <<gen, me, copyCti, stmts, abandoned>>

\* Variant: the reply of the fetch is not stored, the loop tests the old
\* continue index.
CloseFetchForgetting ==
    /\ step \in ClosingSteps
    /\ obj[me].cti > 0
    /\ Fetches(obj[me].cti, TRUE, PageAt(stmts[obj[me].cti], MaxSqlRows, obj[me].count), 0)
    /\ UNCHANGED <<obj, gen, me, step, copyCti, abandoned>>

\* Otherwise it sets AUTO_CLOSE and fetches until the continue index is 0.
CloseFetch ==
    /\ step \in ClosingSteps
    /\ obj[me].cti > 0
    /\ Fetches(obj[me].cti, TRUE, PageAt(stmts[obj[me].cti], MaxSqlRows, obj[me].count), 0)
    /\ obj' = [obj EXCEPT ![me] = Finished(Closed([@ EXCEPT !.auto = TRUE]))]
    /\ Goto("idle")
    /\ UNCHANGED <<gen, me, copyCti, abandoned>>

\* The fetch fails: the object keeps its statement, and AUTO_CLOSE; from
\* __del__ the exception goes nowhere and the statement is nobody's.
CloseFails ==
    /\ CallsMayFail
    /\ step \in ClosingSteps
    /\ obj[me].cti > 0
    /\ obj' = [obj EXCEPT ![me] = Finished([@ EXCEPT !.auto = TRUE])]
    /\ abandoned' = IF step = "dropping" THEN abandoned \cup {obj[me].cti} ELSE abandoned
    /\ IF step = "ending" THEN Raise(me) ELSE UNCHANGED gen /\ Goto("idle")
    /\ UNCHANGED <<me, copyCti, stmts>>

-----------------------------------------------------------------------------
\* total_rows()

\* Variant: whenever there is a page, its count is taken.
TotalRowsOfPage(q) ==
    /\ obj[q].alive
    /\ obj[q].total = NoTotal
    /\ \/ /\ HasPage(q)
          /\ obj' = [obj EXCEPT ![q].total = obj[q].gqo.total]
          /\ Begin(q, "idle")
       \/ /\ ~HasPage(q)
          /\ UNCHANGED obj
          /\ Begin(q, "countexec")
    /\ UNCHANGED <<gen, copyCti, stmts, abandoned>>

\* The count is in the page at hand, or comes with executing the query, or
\* takes a query of its own (a temporary copy with offset 0 and limit 0).
TotalRows(q) ==
    /\ obj[q].alive
    /\ obj[q].total = NoTotal
    /\ \/ /\ obj[q].offset = 0 /\ obj[q].count /\ HasPage(q)
          /\ obj' = [obj EXCEPT ![q].total = obj[q].gqo.total]
          /\ Begin(q, "idle")
       \/ /\ obj[q].offset = 0 /\ obj[q].count /\ ~Executed(q)
          /\ UNCHANGED obj
          /\ Begin(q, "totalexec")
       \/ /\ obj[q].offset # 0 \/ ~obj[q].count
          /\ UNCHANGED obj
          /\ Begin(q, "countexec")
    /\ UNCHANGED <<gen, copyCti, stmts, abandoned>>

CountExec ==
    /\ step = "countexec"
    /\ LET page == FirstPage(0, 0, TRUE) IN
       \E c \in {0} \cup Slots :
          /\ Opens(c, page, 0)
          /\ copyCti' = c
          /\ obj' = [obj EXCEPT ![me].total = page.total]
    /\ Goto("countclose")
    /\ UNCHANGED <<gen, me, abandoned>>

CountExecFails ==
    /\ CallsMayFail \/ \A s \in Slots : stmts[s] # 0
    /\ step = "countexec"
    /\ Goto("idle")
    /\ UNCHANGED <<obj, gen, me, copyCti, stmts, abandoned>>

\* Variant: the temporary copy is not closed.
CountLeftOpen ==
    /\ step = "countclose"
    /\ copyCti' = 0
    /\ Goto("idle")
    /\ UNCHANGED <<obj, gen, me, stmts, abandoned>>

\* The temporary copy goes away: __del__ closes its statement, if it has one.
CountClose ==
    /\ step = "countclose"
    /\ \/ copyCti = 0 /\ UNCHANGED stmts
       \/ copyCti > 0 /\ Fetches(copyCti, TRUE, PageAt(stmts[copyCti], MaxSqlRows, TRUE), 0)
    /\ copyCti' = 0
    /\ Goto("idle")
    /\ UNCHANGED <<obj, gen, me, abandoned>>

CountCloseFails ==
    /\ CallsMayFail
    /\ step = "countclose"
    /\ copyCti > 0
    /\ abandoned' = abandoned \cup {copyCti}
    /\ copyCti' = 0
    /\ Goto("idle")
    /\ UNCHANGED <<obj, gen, me, stmts>>

-----------------------------------------------------------------------------
\* The steps a method takes when the server does what it can.
Answered ==
    \/ Exec \/ ExecFails \/ Yield \/ StopAtLimit \/ EndOfPage \/ Fetch
    \/ CloseNothing \/ CloseFetch
    \/ CountExec \/ CountExecFails \/ CountClose

Running == Answered \/ FetchFails \/ CloseFails \/ CountCloseFails

Using(q) ==
    \/ New(q) \/ Iterate(q) \/ Resume(q) \/ Abandon(q)
    \/ Close(q) \/ Drop(q) \/ TotalRows(q)

Next ==
    \/ Running
    \/ \E q \in Queries : Using(q)
    \/ \E q, p \in Queries : Copy(q, p)

Spec == Init /\ [][Next]_vars

\* A method that has begun goes on; no fetch is assumed to fail, and nothing is
\* assumed of the rule that uses the objects.
FairSpec == Spec /\ WF_vars(Answered)

-----------------------------------------------------------------------------
Steps == {"idle", "exec", "totalexec", "rows", "fetch", "countexec", "countclose"}
             \cup ClosingSteps

Objects ==
    [alive : BOOLEAN, offset : Nat, limit : Nat, count : BOOLEAN, auto : BOOLEAN,
     gqi : BOOLEAN, gqo : Page, cti : {0} \cup Slots, total : {NoTotal, 0, Total}]

Generators ==
    [on : BOOLEAN, r : Nat, rowi : Nat, row : Nat, base : Nat, auto : BOOLEAN,
     ended : {"none", "done", "aborted", "raised"}]

\* The type invariant; that a page has at most MaxSqlRows rows is part of it.
TypeOK ==
    /\ obj \in [Queries -> Objects]
    /\ gen \in [Queries -> Generators]
    /\ me \in Queries
    /\ step \in Steps
    /\ copyCti \in {0} \cup Slots
    /\ stmts \in [Slots -> 0..(Total + 1)]
    /\ abandoned \subseteq Slots

\* Every statement open in the server is the one some live object goes on to
\* fetch from or to close, or the one a failed close in __del__ left behind:
\* a rule that drops its Query objects does not fill the statement table.  And a
\* continue index an object holds is an open statement no other object holds:
\* nobody fetches from a closed statement or another's rows.
StatementsOwned ==
    /\ \A s \in Slots : stmts[s] # 0 =>
          \/ \E q \in Queries : obj[q].alive /\ obj[q].cti = s
          \/ copyCti = s
          \/ s \in abandoned
    /\ \A q \in Queries : obj[q].cti # 0 =>
          /\ stmts[obj[q].cti] # 0
          /\ obj[q].cti # copyCti
          /\ \A p \in Queries \ {q} : obj[p].cti # obj[q].cti

\* An iteration yields the rows from the one it began with, in order, none
\* twice and none left out, whatever the pages they come in.
RowsInOrder ==
    \A q \in Queries : gen[q].on => gen[q].row = gen[q].base + gen[q].rowi - 1

RowsFrom(first) == IF first > Total THEN 0 ELSE Total + 1 - first

Wanted(q) ==
    LET n == RowsFrom(gen[q].base) IN
    IF obj[q].limit # 0 /\ obj[q].limit < n THEN obj[q].limit ELSE n

\* An iteration that ends by itself has yielded every row from the one it
\* began with, up to the limit; that is, unless an earlier close failed and
\* left AUTO_CLOSE set.
RowsComplete ==
    \A q \in Queries :
        (obj[q].alive /\ gen[q].ended = "done" /\ ~gen[q].auto) => gen[q].rowi = Wanted(q)

\* An iteration has rows to begin with, and has not yet told its user the end.
Iterating(q) == gen[q].on \/ (q = me /\ step \in {"rows", "fetch", "ending"})

Stage(q) ==
    IF ~obj[q].alive \/ gen[q].base = 0 THEN "none"
    ELSE IF Iterating(q) THEN "on"
    ELSE IF gen[q].ended = "done" /\ ~gen[q].auto THEN "done"
    ELSE "broken"

NextRow(q) ==
    IF Stage(q) = "none" THEN 0
    ELSE IF gen[q].rowi = 0 THEN gen[q].base ELSE gen[q].row + 1

\* Pages, continue indices and closing make a plain stream of rows; an iteration
\* that AUTO_CLOSE cut short counts as broken.
Stream == INSTANCE RowStream
    WITH Rows <- 1..(Total + 1) \cup {o + 1 : o \in Offsets \cup CopyOffsets},
         state <- [q \in Queries |-> Stage(q)],
         next <- [q \in Queries |-> NextRow(q)],
         stop <- [q \in Queries |->
                     IF Stage(q) = "none" THEN 0 ELSE gen[q].base + Wanted(q)]

Streams == Stream!Spec

\* total_rows() is the number of matching rows, whatever offset, limit and
\* state of iteration.
TotalRowsExact == \A q \in Queries : obj[q].total \in {NoTotal, Total}

\* No method of Query loops for ever.
CallReturns == (step # "idle") ~> (step = "idle")
=============================================================================
