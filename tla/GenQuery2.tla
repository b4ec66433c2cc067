------------------------------ MODULE GenQuery2 ------------------------------
(***************************************************************************)
(* class Query of genquery.py with Parser.GENQUERY2: the query is sent as  *)
(* text, the server answers with a handle to the whole result, and an      *)
(* iteration advances the handle's cursor and reads one column after the   *)
(* other until the cursor reports END_OF_RESULTSET.                        *)
(*                                                                         *)
(* As in GenQuery1 a rule is one thread: "me" and "step" say which method  *)
(* runs and where, every microservice call is a step of its own, and an    *)
(* iteration in progress is not overlapped by another one, nor by close(), *)
(* on the same object.  Rows are 1..Total in the order of the result; a    *)
(* limit of None is 0, and so is a handle of None.                         *)
(***************************************************************************)
EXTENDS Naturals

CONSTANTS
    Queries,        \* the Query objects a rule may have at one time
    Total,          \* how many rows match the query
    Columns,        \* how many columns it selects
    Handles,        \* bound: the results the server holds at one time
    Offsets,        \* values of the offset argument
    Limits,         \* values of the limit argument, 0 for None (README.md:421: a
                    \* limit that is specified is at least 1)
    CallsMayFail    \* may a microservice call fail?

ASSUME SizesAssumption == Total \in Nat /\ Columns \in Nat \ {0}
ASSUME HandlesAssumption == Handles \subseteq Nat \ {0}
ASSUME ArgumentsAssumption ==
    Offsets \subseteq Nat /\ Limits \subseteq Nat /\ CallsMayFail \in BOOLEAN

VARIABLES
    obj,        \* obj[q]: the attributes of Query object q
    gen,        \* gen[q]: the generator of its latest iteration
    me,         \* the object whose method runs, when step # "idle"
    step,       \* where that method is
    result,     \* result[h]: what the server holds under handle h
    abandoned   \* handles whose release failed in __del__

vars == <<obj, gen, me, step, result, abandoned>>

\* cursor: the latest row; last: the last row; sorted: was there an ORDER BY?
NoResult == [open |-> FALSE, cursor |-> 0, last |-> 0, sorted |-> FALSE]

\* order: is order_by not empty?
NewObject(offset, limit, order) ==
    [alive |-> TRUE, offset |-> offset, limit |-> limit, order |-> order, handle |-> 0]

NoObject == [NewObject(0, 0, FALSE) EXCEPT !.alive = FALSE]

\* on: suspended at its yield; col: columns read of the row at hand; row: the
\* row it yielded; taken: how many so far; base: the row it began with.
NoGenerator ==
    [on |-> FALSE, col |-> 0, row |-> 0, taken |-> 0, base |-> 0, ended |-> "none"]

Init ==
    /\ obj = [q \in Queries |-> NoObject]
    /\ gen = [q \in Queries |-> NoGenerator]
    /\ me \in Queries
    /\ step = "idle"
    /\ result = [h \in Handles |-> NoResult]
    /\ abandoned = {}

Goto(s) == step' = s
Begin(q, s) == step = "idle" /\ me' = q /\ step' = s

Raise(q) ==
    /\ gen' = [gen EXCEPT ![q].on = FALSE, ![q].ended = "raised"]
    /\ Goto("idle")

-----------------------------------------------------------------------------
\* The query text asks for offset, limit and order, and the server evaluates it
\* (msi_genquery2_execute is not in this repository).
ResultOf(o) ==
    [open |-> TRUE, cursor |-> o.offset, sorted |-> o.order,
     last |-> IF o.limit = 0 \/ o.offset + o.limit > Total THEN Total
              ELSE o.offset + o.limit]

-----------------------------------------------------------------------------
\* Query(callback, ..., parser=Parser.GENQUERY2)
New(q) ==
    /\ step = "idle"
    /\ ~obj[q].alive
    /\ \E offset \in Offsets, limit \in Limits, order \in BOOLEAN :
          obj' = [obj EXCEPT ![q] = NewObject(offset, limit, order)]
    /\ gen' = [gen EXCEPT ![q] = NoGenerator]
    /\ UNCHANGED <<me, step, result, abandoned>>

\* p = q.copy()
Copy(q, p) ==
    /\ step = "idle"
    /\ obj[q].alive /\ ~obj[p].alive
    /\ obj' = [obj EXCEPT ![p] = NewObject(obj[q].offset, obj[q].limit, obj[q].order)]
    /\ gen' = [gen EXCEPT ![p] = NoGenerator]
    /\ UNCHANGED <<me, step, result, abandoned>>

\* The first next() of a new generator: an object that holds a handle goes on
\* where the server's cursor stands.
Iterate(q) ==
    /\ obj[q].alive /\ ~gen[q].on
    /\ \/ /\ obj[q].handle = 0
          /\ gen' = [gen EXCEPT ![q] = NoGenerator]
          /\ Begin(q, "exec")
       \/ /\ obj[q].handle # 0
          /\ gen' = [gen EXCEPT ![q] =
                        [NoGenerator EXCEPT !.base = result[obj[q].handle].cursor + 1]]
          /\ Begin(q, "next")
    /\ UNCHANGED <<obj, result, abandoned>>

\* exec_if_not_yet_execed()
Exec ==
    /\ step = "exec"
    /\ \E h \in Handles :
          /\ ~result[h].open
          /\ result' = [result EXCEPT ![h] = ResultOf(obj[me])]
          /\ obj' = [obj EXCEPT ![me].handle = h]
    /\ gen' = [gen EXCEPT ![me].base = obj[me].offset + 1]
    /\ Goto("next")
    /\ UNCHANGED <<me, abandoned>>

ExecFails ==
    /\ CallsMayFail \/ \A h \in Handles : result[h].open
    /\ step = "exec"
    /\ Raise(me)
    /\ UNCHANGED <<obj, me, result, abandoned>>

\* msi_genquery2_next_row moves the cursor.
NextRow ==
    /\ step = "next"
    /\ LET r == result[obj[me].handle] IN
          /\ r.cursor < r.last
          /\ result' = [result EXCEPT ![obj[me].handle].cursor = @ + 1]
    /\ gen' = [gen EXCEPT ![me].col = 0]
    /\ Goto("columns")
    /\ UNCHANGED <<obj, me, abandoned>>

\* Variant: any error of next_row is taken for the end.
NextFailsQuietly ==
    /\ CallsMayFail
    /\ step = "next"
    /\ gen' = [gen EXCEPT ![me].ended = "done"]
    /\ Goto("idle")
    /\ UNCHANGED <<obj, me, result, abandoned>>

\* An error that is not END_OF_RESULTSET is raised again.
NextFails ==
    /\ CallsMayFail
    /\ step = "next"
    /\ Raise(me)
    /\ UNCHANGED <<obj, me, result, abandoned>>

\* END_OF_RESULTSET ends the iteration; the handle is not released.
EndOfResult ==
    /\ step = "next"
    /\ result[obj[me].handle].cursor >= result[obj[me].handle].last
    /\ gen' = [gen EXCEPT ![me].ended = "done"]
    /\ Goto("idle")
    /\ UNCHANGED <<obj, me, result, abandoned>>

\* Variant: the last column is not read.
ColumnShort ==
    /\ step = "columns"
    /\ \/ /\ gen[me].col < Columns - 1
          /\ gen' = [gen EXCEPT ![me].col = @ + 1]
          /\ UNCHANGED step
       \/ /\ gen[me].col = Columns - 1
          /\ gen' = [gen EXCEPT ![me] = [@ EXCEPT
                        !.on = TRUE, !.taken = gen[me].taken + 1,
                        !.row = result[obj[me].handle].cursor]]
          /\ Goto("idle")
    /\ UNCHANGED <<obj, me, result, abandoned>>

\* msi_genquery2_column, once for each column; the complete row is yielded.
Column ==
    /\ step = "columns"
    /\ \/ /\ gen[me].col < Columns
          /\ gen' = [gen EXCEPT ![me].col = @ + 1]
          /\ UNCHANGED step
       \/ /\ gen[me].col = Columns
          /\ gen' = [gen EXCEPT ![me] = [@ EXCEPT
                        !.on = TRUE, !.taken = gen[me].taken + 1,
                        !.row = result[obj[me].handle].cursor]]
          /\ Goto("idle")
    /\ UNCHANGED <<obj, me, result, abandoned>>

ColumnFails ==
    /\ CallsMayFail
    /\ step = "columns"
    /\ gen[me].col < Columns
    /\ Raise(me)
    /\ UNCHANGED <<obj, me, result, abandoned>>

\* next() on the suspended generator.
Resume(q) ==
    /\ gen[q].on
    /\ Begin(q, "next")
    /\ gen' = [gen EXCEPT ![q].on = FALSE]
    /\ UNCHANGED <<obj, result, abandoned>>

\* The loop over the generator is left early: GeneratorExit at the yield.
Abandon(q) ==
    /\ gen[q].on
    /\ gen' = [gen EXCEPT ![q].on = FALSE, ![q].ended = "aborted"]
    /\ Begin(q, "ending")
    /\ UNCHANGED <<obj, result, abandoned>>

-----------------------------------------------------------------------------
\* Closing: by an abandoned generator, by close(), or by __del__.

ClosingSteps == {"ending", "closing", "dropping"}

Close(q) ==
    /\ obj[q].alive /\ ~gen[q].on
    /\ Begin(q, "closing")
    /\ UNCHANGED <<obj, gen, result, abandoned>>

Drop(q) ==
    /\ obj[q].alive /\ ~gen[q].on
    /\ Begin(q, "dropping")
    /\ gen' = [gen EXCEPT ![q] = NoGenerator]
    /\ UNCHANGED <<obj, result, abandoned>>

\* Variant: the handle is not forgotten.
ReleasedKeepingHandle(o) ==
    IF step = "dropping" THEN NoObject ELSE [o EXCEPT !.order = FALSE]

\* The object after its handle was released; order_by goes with it.
Released(o) ==
    IF step = "dropping" THEN NoObject ELSE [o EXCEPT !.handle = 0, !.order = FALSE]

CloseNothing ==
    /\ step \in ClosingSteps
    /\ obj[me].handle = 0
    /\ obj' = [obj EXCEPT ![me] = IF step = "dropping" THEN NoObject ELSE @]
    /\ Goto("idle")
    /\ UNCHANGED <<gen, me, result, abandoned>>

\* msi_genquery2_free
CloseFree ==
    /\ step \in ClosingSteps
    /\ obj[me].handle # 0
    /\ result' = [result EXCEPT ![obj[me].handle] = NoResult]
    /\ obj' = [obj EXCEPT ![me] = Released(@)]
    /\ Goto("idle")
    /\ UNCHANGED <<gen, me, abandoned>>

\* The object keeps its handle; from __del__ the exception goes nowhere and
\* the result is nobody's.
CloseFails ==
    /\ CallsMayFail
    /\ step \in ClosingSteps
    /\ obj[me].handle # 0
    /\ obj' = [obj EXCEPT ![me] = IF step = "dropping" THEN NoObject ELSE @]
    /\ abandoned' = IF step = "dropping" THEN abandoned \cup {obj[me].handle} ELSE abandoned
    /\ IF step = "ending" THEN Raise(me) ELSE UNCHANGED gen /\ Goto("idle")
    /\ UNCHANGED <<me, result>>

-----------------------------------------------------------------------------
Running ==
    \/ Exec \/ ExecFails \/ NextRow \/ NextFails \/ EndOfResult \/ Column \/ ColumnFails
    \/ CloseNothing \/ CloseFree \/ CloseFails

Using(q) ==
    New(q) \/ Iterate(q) \/ Resume(q) \/ Abandon(q) \/ Close(q) \/ Drop(q)

Next ==
    \/ Running
    \/ \E q \in Queries : Using(q)
    \/ \E q, p \in Queries : Copy(q, p)

Spec == Init /\ [][Next]_vars

-----------------------------------------------------------------------------
Objects ==
    [alive : BOOLEAN, offset : Nat, limit : Nat, order : BOOLEAN,
     handle : {0} \cup Handles]

Generators ==
    [on : BOOLEAN, col : 0..Columns, row : Nat, taken : Nat, base : Nat,
     ended : {"none", "done", "aborted", "raised"}]

Results == [open : BOOLEAN, cursor : Nat, last : Nat, sorted : BOOLEAN]

\* The type invariant; a generator suspended at its yield has read every column.
TypeOK ==
    /\ obj \in [Queries -> Objects]
    /\ gen \in [Queries -> Generators]
    /\ me \in Queries
    /\ step \in {"idle", "exec", "next", "columns"} \cup ClosingSteps
    /\ result \in [Handles -> Results]
    /\ abandoned \subseteq Handles
    /\ \A q \in Queries : gen[q].on => gen[q].col = Columns

\* Every result the server holds belongs to exactly one live object, or was
\* left behind by a release that failed in __del__: the rule can free it.  And a
\* handle an object holds is open: nobody advances or frees a released one.
ResultsOwned ==
    /\ \A h \in Handles : result[h].open =>
          \/ h \in abandoned
          \/ \E q \in Queries : obj[q].handle = h /\ \A p \in Queries \ {q} : obj[p].handle # h
    /\ \A q \in Queries : obj[q].handle # 0 => result[obj[q].handle].open

\* The row after the last one the object's attributes ask for.
StopRow(q) ==
    LET end == obj[q].offset + obj[q].limit IN
    IF obj[q].offset >= Total THEN obj[q].offset + 1
    ELSE IF obj[q].limit = 0 \/ end > Total THEN Total + 1 ELSE end + 1

Iterating(q) == gen[q].on \/ (q = me /\ step \in {"next", "columns", "ending"})

Stage(q) ==
    IF ~obj[q].alive \/ gen[q].base = 0 THEN "none"
    ELSE IF Iterating(q) THEN "on"
    ELSE IF gen[q].ended = "done" THEN "done"
    ELSE "broken"

NextOf(q) ==
    IF Stage(q) = "none" THEN 0
    ELSE IF gen[q].taken = 0 THEN gen[q].base ELSE gen[q].row + 1

\* The cursor of a handle makes a plain stream of rows as well.
Stream == INSTANCE RowStream
    WITH Rows <- 1..(Total + 1) \cup {o + 1 : o \in Offsets},
         state <- [q \in Queries |-> Stage(q)],
         next <- [q \in Queries |-> NextOf(q)],
         stop <- [q \in Queries |-> IF Stage(q) = "none" THEN 0 ELSE StopRow(q)]

Streams == Stream!Spec
=============================================================================
