--------------------------- MODULE IterationProofs ---------------------------
(***************************************************************************)
(* Safety of the two iterators of genquery.py that keep no pages of their  *)
(* own: a Query object in GenQuery2 mode, for any result, offset, limit,   *)
(* number of objects and failing calls, with the proof that its iterations *)
(* implement RowStream; and paged_iterator, which fills pages from such an *)
(* iteration, for any number of rows, any sizes set between pages, and a   *)
(* generator that may raise at any row.                                    *)
(***************************************************************************)
EXTENDS GenQuery2, PagedIterator, TLAPS

\* An object and its result ask for the same rows, and the cursor is on its way
\* from the row before the first of them to the last.
CursorSound(q) ==
    LET r == result[obj[q].handle] IN
    /\ r.open
    /\ obj[q].offset <= r.cursor
    /\ r.cursor < StopRow(q)
    /\ r.last < StopRow(q)
    /\ StopRow(q) = r.last + 1 \/ StopRow(q) = obj[q].offset + 1

ObjectSound(q) ==
    /\ ~obj[q].alive => obj[q].handle = 0
    /\ obj[q].alive => obj[q].offset \in Offsets
    /\ obj[q].handle # 0 => CursorSound(q)

\* The row an iteration is to yield next.
Due(q) == IF gen[q].taken = 0 THEN gen[q].base ELSE gen[q].row + 1

\* An iteration in progress is to yield the row the cursor is at (ahead = 0), or
\* the one behind (ahead = 1).
InResult(q, ahead) ==
    /\ obj[q].alive /\ obj[q].handle # 0
    /\ gen[q].base # 0 /\ gen[q].ended = "none"
    /\ Due(q) = result[obj[q].handle].cursor + ahead

MethodSound ==
    /\ step # "idle" => obj[me].alive /\ ~gen[me].on
    /\ step = "exec" => obj[me].handle = 0 /\ gen[me] = NoGenerator
    /\ step = "next" => InResult(me, 1)
    /\ step = "columns" => InResult(me, 0)
    /\ step = "ending" => gen[me].ended = "aborted"

\* No two objects have the same handle.
Owned ==
    /\ \A h \in Handles : result[h].open =>
          h \in abandoned \/ \E q \in Queries : obj[q].handle = h
    /\ \A q \in Queries : obj[q].handle # 0 =>
          \A p \in Queries \ {q} : obj[p].handle # obj[q].handle

Sound ==
    /\ Owned
    /\ MethodSound
    /\ \A q \in Queries : ObjectSound(q) /\ (gen[q].on => InResult(q, 1))

IInv == TypeOK /\ Sound

-----------------------------------------------------------------------------
\* Types.

LEMMA Fields ==
    /\ \A o \in Objects : /\ o.offset \in Nat /\ o.limit \in Nat
                          /\ o.handle \in {0} \cup Handles
                          /\ o.handle # 0 => o.handle \in Handles
    /\ \A g \in Generators : /\ g.row \in Nat /\ g.taken \in Nat /\ g.base \in Nat
                             /\ g.col \in 0..Columns
    /\ \A r \in Results : r.cursor \in Nat /\ r.last \in Nat
    /\ 0 \notin Handles
  BY HandlesAssumption DEF Objects, Generators, Results

LEMMA FreshTypes ==
    /\ NoObject \in Objects /\ NoGenerator \in Generators /\ NoResult \in Results
    /\ ~NoGenerator.on /\ NoGenerator.base = 0 /\ NoGenerator.taken = 0
    /\ ~NoObject.alive /\ NoObject.handle = 0 /\ ~NoResult.open
  <1>1. 0 \in 0..Columns
    BY SizesAssumption
  <1>. QED
    BY <1>1 DEF NoObject, NewObject, NoGenerator, NoResult, Objects, Generators, Results

\* The results of objects, and the rows they are to give.
LEMMA ResultTypes ==
    ASSUME NEW q \in Queries, obj[q] \in Objects
    PROVE  /\ ResultOf(obj[q]) \in Results
           /\ ResultOf(obj[q]).open
           /\ ResultOf(obj[q]).cursor = obj[q].offset
           /\ obj[q].offset < StopRow(q)
           /\ ResultOf(obj[q]).last < StopRow(q)
           /\ StopRow(q) = ResultOf(obj[q]).last + 1 \/ StopRow(q) = obj[q].offset + 1
           /\ StopRow(q) \in Nat
           /\ StopRow(q) \in 1..(Total + 1) \cup {obj[q].offset + 1}
<1>1. obj[q].offset \in Nat /\ obj[q].limit \in Nat /\ obj[q].order \in BOOLEAN
  BY DEF Objects
<1>. DEFINE last == IF obj[q].limit = 0 \/ obj[q].offset + obj[q].limit > Total THEN Total
                    ELSE obj[q].offset + obj[q].limit
<1>2. last \in Nat /\ last <= Total
  BY <1>1, SizesAssumption
<1>3. /\ obj[q].offset < StopRow(q)
      /\ last < StopRow(q)
      /\ StopRow(q) = last + 1 \/ StopRow(q) = obj[q].offset + 1
      /\ StopRow(q) \in Nat
      /\ StopRow(q) \in 1..(Total + 1) \cup {obj[q].offset + 1}
  BY <1>1, SizesAssumption DEF StopRow
<1>4. ResultOf(obj[q]) = [open |-> TRUE, cursor |-> obj[q].offset, sorted |-> obj[q].order,
                          last |-> last]
  BY DEF ResultOf
<1>. HIDE DEF last
<1>. QED
  BY <1>1, <1>2, <1>3, <1>4 DEF Results

LEMMA InitTypes == Init => TypeOK
  BY FreshTypes DEF Init, TypeOK

LEMMA RaisedTypes ==
    ASSUME NEW g \in Generators
    PROVE  /\ [g EXCEPT !.on = FALSE] \in Generators
           /\ [[g EXCEPT !.on = FALSE] EXCEPT !.ended = "raised"] \in Generators
           /\ [[g EXCEPT !.on = FALSE] EXCEPT !.ended = "aborted"] \in Generators
           /\ [g EXCEPT !.ended = "done"] \in Generators
           /\ \A n \in 0..Columns : [g EXCEPT !.col = n] \in Generators
           /\ \A n \in Nat : [g EXCEPT !.base = n] \in Generators
  BY DEF Generators

\* A complete row.
LEMMA YieldTypes ==
    ASSUME NEW g \in Generators, NEW row \in Nat, g.col = Columns
    PROVE  LET y == [g EXCEPT !.on = TRUE, !.taken = g.taken + 1, !.row = row]
           IN  /\ y \in Generators
               /\ y.on /\ y.taken = g.taken + 1 /\ y.row = row
               /\ y.base = g.base /\ y.ended = g.ended /\ y.col = Columns
<1>1. g.taken + 1 \in Nat
  BY DEF Generators
<1>. QED
  BY <1>1 DEF Generators

LEMMA TypeStep == IInv /\ [Next]_vars => TypeOK'
<1>. SUFFICES ASSUME IInv, [Next]_vars PROVE TypeOK'
  OBVIOUS
<1>1. /\ obj \in [Queries -> Objects] /\ gen \in [Queries -> Generators]
      /\ me \in Queries /\ step \in {"idle", "exec", "next", "columns"} \cup ClosingSteps
      /\ result \in [Handles -> Results] /\ abandoned \subseteq Handles
      /\ \A q \in Queries : gen[q].on => gen[q].col = Columns
      /\ MethodSound
  BY DEF IInv, TypeOK, Sound
<1>2. \A q \in Queries : obj[q] \in Objects /\ gen[q] \in Generators
  BY <1>1
<1>3. \A q \in Queries : obj[q].handle # 0 => obj[q].handle \in Handles
  BY <1>2, Fields
<1>4. ASSUME NEW q \in Queries, New(q) PROVE TypeOK'
  <2>1. PICK offset \in Offsets, limit \in Limits, order \in BOOLEAN :
           obj' = [obj EXCEPT ![q] = NewObject(offset, limit, order)]
    BY <1>4 DEF New
  <2>2. NewObject(offset, limit, order) \in Objects
    BY ArgumentsAssumption DEF NewObject, Objects
  <2>. QED
    BY <1>1, <1>4, <2>1, <2>2, FreshTypes DEF New, TypeOK
<1>5. ASSUME NEW q \in Queries, NEW p \in Queries, Copy(q, p) PROVE TypeOK'
  <2>1. NewObject(obj[q].offset, obj[q].limit, obj[q].order) \in Objects
    BY <1>2 DEF NewObject, Objects
  <2>. QED
    BY <1>1, <1>5, <2>1, FreshTypes DEF Copy, TypeOK
<1>6. ASSUME NEW q \in Queries, Iterate(q) PROVE TypeOK'
  <2>1. PICK g \in {NoGenerator, [NoGenerator EXCEPT !.base = result[obj[q].handle].cursor + 1]} :
           /\ gen' = [gen EXCEPT ![q] = g]
           /\ g = NoGenerator \/ obj[q].handle # 0
    BY <1>6 DEF Iterate
  <2>2. obj[q].handle # 0 => result[obj[q].handle].cursor + 1 \in Nat
    BY <1>1, <1>3, Fields
  <2>3. g \in Generators /\ ~g.on
    BY <2>1, <2>2, FreshTypes DEF NoGenerator, Generators
  <2>4. gen' \in [Queries -> Generators] /\ \A p \in Queries : gen'[p].on => gen'[p].col = Columns
    BY <1>1, <2>1, <2>3
  <2>. QED
    BY <1>1, <1>6, <2>4 DEF Iterate, Begin, TypeOK
<1>7. CASE Exec
  <2>1. PICK h \in Handles : /\ result' = [result EXCEPT ![h] = ResultOf(obj[me])]
                             /\ obj' = [obj EXCEPT ![me].handle = h]
    BY <1>7 DEF Exec
  <2>2. [obj[me] EXCEPT !.handle = h] \in Objects /\ obj[me].offset + 1 \in Nat
    BY <1>1, <1>2 DEF Objects
  <2>3. PICK q \in Queries : q = me
    BY <1>1
  <2>4. ResultOf(obj[me]) \in Results
    BY <1>2, <2>3, ResultTypes
  <2>5. [gen[me] EXCEPT !.base = obj[me].offset + 1] \in Generators /\ ~gen[me].on
    BY <1>1, <1>2, <1>7, <2>2, RaisedTypes DEF Exec, MethodSound
  <2>6. gen' = [gen EXCEPT ![me] = [gen[me] EXCEPT !.base = obj[me].offset + 1]]
    BY <1>1, <1>7 DEF Exec
  <2>7. ~[gen[me] EXCEPT !.base = obj[me].offset + 1].on
    BY <1>1, <1>2, <2>5 DEF Generators
  <2>8. gen' \in [Queries -> Generators] /\ \A p \in Queries : gen'[p].on => gen'[p].col = Columns
    BY <1>1, <2>5, <2>6, <2>7
  <2>. QED
    BY <1>1, <1>7, <2>1, <2>2, <2>4, <2>8 DEF Exec, Goto, TypeOK
<1>8. CASE ExecFails \/ NextFails \/ ColumnFails \/ EndOfResult
  <2>1. ~gen[me].on
    BY <1>1, <1>8 DEF ExecFails, NextFails, ColumnFails, EndOfResult, MethodSound
  <2>2. /\ UNCHANGED <<obj, me, result, abandoned>> /\ step' = "idle"
        /\ \/ gen' = [gen EXCEPT ![me].on = FALSE, ![me].ended = "raised"]
           \/ gen' = [gen EXCEPT ![me].ended = "done"]
    BY <1>8 DEF ExecFails, NextFails, ColumnFails, EndOfResult, Raise, Goto
  <2>3. PICK g \in Generators : ~g.on /\ gen' = [gen EXCEPT ![me] = g]
    <3>1. /\ ~[[gen[me] EXCEPT !.on = FALSE] EXCEPT !.ended = "raised"].on
          /\ ~[gen[me] EXCEPT !.ended = "done"].on
      BY <1>1, <1>2, <2>1 DEF Generators
    <3>. QED
      BY <1>1, <1>2, <2>2, <3>1, RaisedTypes
  <2>4. gen' \in [Queries -> Generators] /\ \A p \in Queries : gen'[p].on => gen'[p].col = Columns
    BY <1>1, <2>3
  <2>. QED
    BY <1>1, <2>2, <2>4 DEF TypeOK
<1>9. CASE NextRow
  <2>1. ~gen[me].on /\ obj[me].handle \in Handles /\ 0 \in 0..Columns
    BY <1>1, <1>3, <1>9, SizesAssumption DEF NextRow, MethodSound, InResult
  <2>2. [gen[me] EXCEPT !.col = 0] \in Generators /\ ~[gen[me] EXCEPT !.col = 0].on
    BY <1>1, <1>2, <2>1 DEF Generators
  <2>3. gen' = [gen EXCEPT ![me] = [gen[me] EXCEPT !.col = 0]]
    BY <1>1, <1>9 DEF NextRow
  <2>4. gen' \in [Queries -> Generators] /\ \A p \in Queries : gen'[p].on => gen'[p].col = Columns
    BY <1>1, <2>2, <2>3
  <2>5. result' \in [Handles -> Results]
    BY <1>1, <1>9, <2>1 DEF NextRow, Results
  <2>. QED
    BY <1>1, <1>9, <2>4, <2>5 DEF NextRow, Goto, TypeOK
<1>10. CASE Column
  <2>1. ~gen[me].on /\ obj[me].handle \in Handles
    BY <1>1, <1>3, <1>10 DEF Column, MethodSound, InResult
  <2>2. CASE gen[me].col < Columns /\ gen' = [gen EXCEPT ![me].col = @ + 1] /\ UNCHANGED step
    <3>1. gen[me].col + 1 \in 0..Columns
      BY <1>1, <1>2, <2>2, Fields, SizesAssumption
    <3>2. /\ [gen[me] EXCEPT !.col = gen[me].col + 1] \in Generators
          /\ ~[gen[me] EXCEPT !.col = gen[me].col + 1].on
      BY <1>1, <1>2, <2>1, <3>1 DEF Generators
    <3>3. gen' = [gen EXCEPT ![me] = [gen[me] EXCEPT !.col = gen[me].col + 1]]
      BY <1>1, <2>2
    <3>4. /\ gen' \in [Queries -> Generators]
          /\ \A p \in Queries : gen'[p].on => gen'[p].col = Columns
      BY <1>1, <3>2, <3>3
    <3>. QED
      BY <1>1, <1>10, <2>2, <3>4 DEF Column, TypeOK
  <2>3. CASE /\ gen[me].col = Columns /\ step' = "idle"
             /\ gen' = [gen EXCEPT ![me] = [@ EXCEPT
                           !.on = TRUE, !.taken = gen[me].taken + 1,
                           !.row = result[obj[me].handle].cursor]]
    <3>1. result[obj[me].handle].cursor \in Nat
      BY <1>1, <2>1, Fields
    <3>2. PICK y \in Generators : y.col = Columns /\ gen' = [gen EXCEPT ![me] = y]
      <4>. DEFINE y == [gen[me] EXCEPT !.on = TRUE, !.taken = gen[me].taken + 1,
                                       !.row = result[obj[me].handle].cursor]
      <4>0. gen[me] \in Generators /\ gen[me].col = Columns
        BY <1>1, <1>2, <2>3
      <4>1. y \in Generators /\ y.col = Columns
        BY <3>1, <4>0, YieldTypes
      <4>2. gen' = [gen EXCEPT ![me] = y]
        BY <1>1, <2>3
      <4>. HIDE DEF y
      <4>. QED
        BY <4>1, <4>2
    <3>3. /\ gen' \in [Queries -> Generators]
          /\ \A p \in Queries : gen'[p].on => gen'[p].col = Columns
      BY <1>1, <3>2
    <3>. QED
      BY <1>1, <1>10, <2>3, <3>3 DEF Column, TypeOK
  <2>. QED
    BY <1>10, <2>2, <2>3 DEF Column, Goto
<1>11. ASSUME NEW q \in Queries, Resume(q) \/ Abandon(q) PROVE TypeOK'
  <2>1. /\ UNCHANGED <<obj, result, abandoned>> /\ me' = q /\ step' \in {"next", "ending"}
        /\ \/ gen' = [gen EXCEPT ![q].on = FALSE]
           \/ gen' = [gen EXCEPT ![q].on = FALSE, ![q].ended = "aborted"]
    BY <1>11 DEF Resume, Abandon, Begin
  <2>2. PICK g \in Generators : ~g.on /\ gen' = [gen EXCEPT ![q] = g]
    <3>1. /\ ~[gen[q] EXCEPT !.on = FALSE].on
          /\ ~[[gen[q] EXCEPT !.on = FALSE] EXCEPT !.ended = "aborted"].on
      BY <1>2 DEF Generators
    <3>. QED
      BY <1>1, <1>2, <2>1, <3>1, RaisedTypes
  <2>3. gen' \in [Queries -> Generators] /\ \A p \in Queries : gen'[p].on => gen'[p].col = Columns
    BY <1>1, <2>2
  <2>. QED
    BY <1>1, <2>1, <2>3 DEF TypeOK, ClosingSteps
<1>12. ASSUME NEW q \in Queries, Close(q) \/ Drop(q) PROVE TypeOK'
  BY <1>1, <1>12, FreshTypes DEF Close, Drop, Begin, TypeOK, ClosingSteps
<1>13. CASE CloseNothing \/ CloseFree
  <2>1. [[obj[me] EXCEPT !.handle = 0] EXCEPT !.order = FALSE] \in Objects
    BY <1>1, <1>2 DEF Objects
  <2>2. obj' \in [Queries -> Objects]
    BY <1>1, <1>2, <1>13, <2>1, FreshTypes DEF CloseNothing, CloseFree, Released
  <2>3. result' \in [Handles -> Results] /\ UNCHANGED <<gen, me, abandoned>> /\ step' = "idle"
    BY <1>1, <1>13, FreshTypes DEF CloseNothing, CloseFree, Goto
  <2>. QED
    BY <1>1, <2>2, <2>3 DEF TypeOK
<1>14. CASE CloseFails
  <2>1. obj' \in [Queries -> Objects] /\ abandoned' \subseteq Handles
    BY <1>1, <1>2, <1>3, <1>14, FreshTypes DEF CloseFails
  <2>2. /\ UNCHANGED <<me, result>> /\ step' = "idle"
        /\ gen' \in {gen, [gen EXCEPT ![me].on = FALSE, ![me].ended = "raised"]}
    BY <1>14 DEF CloseFails, Raise, Goto
  <2>3. ~[[gen[me] EXCEPT !.on = FALSE] EXCEPT !.ended = "raised"].on
    BY <1>1, <1>2 DEF Generators
  <2>4. gen' \in [Queries -> Generators] /\ \A p \in Queries : gen'[p].on => gen'[p].col = Columns
    BY <1>1, <1>2, <2>2, <2>3, RaisedTypes
  <2>. QED
    BY <1>1, <2>1, <2>2, <2>4 DEF TypeOK
<1>15. CASE UNCHANGED vars
  BY <1>1, <1>15 DEF vars, TypeOK
<1>. QED
  BY <1>4, <1>5, <1>6, <1>7, <1>8, <1>9, <1>10, <1>11, <1>12, <1>13, <1>14, <1>15
     DEF Next, Running, Using

-----------------------------------------------------------------------------
\* What a step leaves as it is.

LEMMA ObjectKept ==
    ASSUME NEW q \in Queries, ObjectSound(q),
           obj'[q].alive <=> obj[q].alive, obj'[q].handle = obj[q].handle,
           obj'[q].offset = obj[q].offset, obj'[q].limit = obj[q].limit,
           obj[q].handle # 0 => result'[obj[q].handle] = result[obj[q].handle]
    PROVE  ObjectSound(q)'
<1>1. StopRow(q)' = StopRow(q)
  BY DEF StopRow
<1>2. obj[q].handle # 0 => (CursorSound(q) <=> CursorSound(q)')
  BY <1>1 DEF CursorSound
<1>. QED
  BY <1>2 DEF ObjectSound

LEMMA PlaceKept ==
    ASSUME NEW q \in Queries, NEW ahead, InResult(q, ahead),
           obj'[q].alive, obj'[q].handle = obj[q].handle,
           gen'[q].base = gen[q].base, gen'[q].ended = gen[q].ended,
           gen'[q].taken = gen[q].taken, gen'[q].row = gen[q].row,
           result'[obj[q].handle] = result[obj[q].handle]
    PROVE  InResult(q, ahead)'
<1>1. Due(q)' = Due(q)
  BY DEF Due
<1>. QED
  BY <1>1 DEF InResult

LEMMA OwnedKept ==
    ASSUME Owned, abandoned \subseteq abandoned',
           \A q \in Queries : obj'[q].handle = obj[q].handle,
           \A h \in Handles : result'[h].open => result[h].open
    PROVE  Owned'
  BY DEF Owned

\* A step of object q, as long as it leaves the results of others alone.
LEMMA OthersSound ==
    ASSUME IInv, NEW q \in Queries,
           \A p \in Queries : p # q =>
              /\ obj'[p] = obj[p] /\ gen'[p] = gen[p]
              /\ obj[p].handle # 0 => result'[obj[p].handle] = result[obj[p].handle],
           Owned', MethodSound', ObjectSound(q)', gen'[q].on => InResult(q, 1)'
    PROVE  Sound'
<1>1. ASSUME NEW p \in Queries, p # q
      PROVE  ObjectSound(p)' /\ (gen'[p].on => InResult(p, 1)')
  <2>1. ObjectSound(p) /\ (gen[p].on => InResult(p, 1))
    BY DEF IInv, Sound
  <2>2. ObjectSound(p)'
    BY <1>1, <2>1, ObjectKept
  <2>3. ASSUME gen'[p].on PROVE InResult(p, 1)'
    <3>1. InResult(p, 1)
      BY <1>1, <2>1, <2>3
    <3>2. obj[p].alive /\ obj[p].handle # 0
      BY <3>1 DEF InResult
    <3>. QED
      BY <1>1, <3>1, <3>2, PlaceKept
  <2>. QED
    BY <2>2, <2>3
<1>. QED
  BY <1>1 DEF Sound

\* A step that changes no object and no result.
LEMMA GeneratorStep ==
    ASSUME IInv, NEW q \in Queries, UNCHANGED <<obj, result, abandoned>>,
           \A p \in Queries : p # q => gen'[p] = gen[p],
           MethodSound', gen'[q].on => InResult(q, 1)'
    PROVE  Sound'
<1>1. Owned /\ ObjectSound(q)
  BY DEF IInv, Sound
<1>2. Owned' /\ ObjectSound(q)'
  BY <1>1, OwnedKept, ObjectKept
<1>. QED
  BY <1>2, OthersSound

-----------------------------------------------------------------------------
\* Every step keeps the invariant.

LEMMA InitSound == Init => IInv
<1>. SUFFICES ASSUME Init PROVE IInv
  OBVIOUS
<1>1. \A q \in Queries : obj[q] = NoObject /\ gen[q] = NoGenerator
  BY DEF Init
<1>2. \A h \in Handles : ~result[h].open
  BY FreshTypes DEF Init
<1>3. Owned /\ MethodSound
  BY <1>1, <1>2, FreshTypes DEF Init, Owned, MethodSound
<1>4. \A q \in Queries : ObjectSound(q) /\ ~gen[q].on
  BY <1>1, FreshTypes DEF ObjectSound
<1>. QED
  BY <1>3, <1>4, InitTypes DEF IInv, Sound

LEMMA FreshSound ==
    ASSUME IInv, NEW q \in Queries, NEW offset \in Offsets, NEW limit, NEW order,
           step = "idle", ~obj[q].alive,
           obj' = [obj EXCEPT ![q] = NewObject(offset, limit, order)],
           gen' = [gen EXCEPT ![q] = NoGenerator],
           UNCHANGED <<me, step, result, abandoned>>
    PROVE  Sound'
<1>1. /\ TypeOK /\ Owned /\ ObjectSound(q)
      /\ obj \in [Queries -> Objects] /\ gen \in [Queries -> Generators]
  BY DEF IInv, Sound, TypeOK
<1>2. /\ obj'[q] = NewObject(offset, limit, order) /\ gen'[q] = NoGenerator
      /\ \A p \in Queries : p # q => obj'[p] = obj[p] /\ gen'[p] = gen[p]
  BY <1>1
<1>3. obj'[q].alive /\ obj'[q].handle = 0 /\ obj'[q].offset = offset /\ ~gen'[q].on
  BY <1>2, FreshTypes DEF NewObject
<1>4. ObjectSound(q)'
  BY <1>3 DEF ObjectSound
<1>5. Owned'
  <2>1. \A p \in Queries : obj'[p].handle = obj[p].handle
    BY <1>1, <1>2, <1>3 DEF ObjectSound
  <2>. QED
    BY <1>1, <2>1, OwnedKept
<1>6. MethodSound'
  BY DEF MethodSound
<1>. QED
  BY <1>2, <1>3, <1>4, <1>5, <1>6, OthersSound

LEMMA NewSound == ASSUME IInv, NEW q \in Queries, New(q) PROVE Sound'
<1>1. PICK offset \in Offsets, limit \in Limits, order \in BOOLEAN :
         obj' = [obj EXCEPT ![q] = NewObject(offset, limit, order)]
  BY DEF New
<1>. QED
  BY <1>1, FreshSound DEF New

LEMMA CopySound == ASSUME IInv, NEW q \in Queries, NEW p \in Queries, Copy(q, p) PROVE Sound'
<1>1. obj[q].offset \in Offsets
  BY DEF IInv, Sound, ObjectSound, Copy
<1>. QED
  BY <1>1, FreshSound DEF Copy

LEMMA IterateSound == ASSUME IInv, NEW q \in Queries, Iterate(q) PROVE Sound'
<1>1. /\ TypeOK /\ obj[q] \in Objects /\ gen \in [Queries -> Generators]
      /\ result \in [Handles -> Results]
  BY DEF IInv, TypeOK
<1>2. /\ UNCHANGED <<obj, result, abandoned>> /\ me' = q
      /\ obj[q].alive /\ step = "idle"
      /\ \A p \in Queries : p # q => gen'[p] = gen[p]
  BY <1>1 DEF Iterate, Begin
<1>3. CASE obj[q].handle = 0 /\ gen'[q] = NoGenerator /\ step' = "exec"
  <2>1. MethodSound' /\ ~gen'[q].on
    BY <1>2, <1>3, FreshTypes DEF MethodSound
  <2>. QED
    BY <1>2, <2>1, GeneratorStep
<1>4. CASE /\ obj[q].handle # 0 /\ step' = "next"
           /\ gen'[q] = [NoGenerator EXCEPT !.base = result[obj[q].handle].cursor + 1]
  <2>1. /\ gen'[q].base = result[obj[q].handle].cursor + 1 /\ gen'[q].taken = 0
        /\ gen'[q].ended = "none" /\ ~gen'[q].on
    BY <1>4 DEF NoGenerator
  <2>2. result[obj[q].handle].cursor \in Nat
    BY <1>1, <1>4, Fields
  <2>3. InResult(q, 1)'
    BY <1>2, <1>4, <2>1, <2>2 DEF InResult, Due
  <2>4. MethodSound'
    BY <1>2, <1>4, <2>1, <2>3 DEF MethodSound
  <2>. QED
    BY <1>2, <2>1, <2>4, GeneratorStep
<1>. QED
  BY <1>1, <1>2, <1>3, <1>4 DEF Iterate, Begin

LEMMA ExecSound == ASSUME IInv, NEW q \in Queries, q = me, Exec PROVE Sound'
<1>1. /\ TypeOK /\ Owned /\ MethodSound /\ ObjectSound(q)
      /\ obj \in [Queries -> Objects] /\ gen \in [Queries -> Generators]
      /\ result \in [Handles -> Results] /\ obj[q] \in Objects /\ gen[q] \in Generators
      /\ \A p \in Queries : obj[p].handle # 0 => CursorSound(p)
  BY DEF IInv, Sound, TypeOK, ObjectSound
<1>2. PICK h \in Handles : /\ ~result[h].open
                           /\ result' = [result EXCEPT ![h] = ResultOf(obj[q])]
                           /\ obj' = [obj EXCEPT ![q].handle = h]
  BY DEF Exec
<1>3. /\ gen[q] = NoGenerator /\ obj[q].handle = 0 /\ obj[q].alive /\ h # 0
      /\ obj[q].offset \in Offsets /\ obj[q].offset \in Nat
  BY <1>1, Fields DEF Exec, MethodSound, ObjectSound
<1>4. /\ gen' = [gen EXCEPT ![q].base = obj[q].offset + 1]
      /\ me' = me /\ abandoned' = abandoned /\ step' = "next"
  BY DEF Exec, Goto
<1>5. /\ obj'[q].handle = h /\ obj'[q].alive
      /\ obj'[q].offset = obj[q].offset /\ obj'[q].limit = obj[q].limit
      /\ \A p \in Queries : p # q => obj'[p] = obj[p] /\ gen'[p] = gen[p]
  BY <1>1, <1>2, <1>3, <1>4 DEF Objects
<1>6. /\ gen'[q].base = obj[q].offset + 1 /\ gen'[q].taken = 0
      /\ gen'[q].ended = "none" /\ ~gen'[q].on
  BY <1>1, <1>3, <1>4 DEF NoGenerator
<1>7. /\ result'[h] = ResultOf(obj[q])
      /\ \A g \in Handles : g # h => result'[g] = result[g]
  BY <1>1, <1>2
<1>8. ASSUME NEW p \in Queries, p # q, obj[p].handle # 0
      PROVE  obj[p].handle # h /\ result'[obj[p].handle] = result[obj[p].handle]
  <2>1. obj[p].handle \in Handles /\ result[obj[p].handle].open
    BY <1>1, <1>8, Fields DEF CursorSound
  <2>. QED
    BY <1>2, <1>7, <2>1
<1>9. ObjectSound(q)'
  <2>1. StopRow(q)' = StopRow(q)
    BY <1>5 DEF StopRow
  <2>2. /\ result'[h].open /\ result'[h].cursor = obj[q].offset
        /\ obj[q].offset < StopRow(q) /\ result'[h].last < StopRow(q)
        /\ StopRow(q) = result'[h].last + 1 \/ StopRow(q) = obj[q].offset + 1
    BY <1>1, <1>7, ResultTypes
  <2>3. CursorSound(q)'
    BY <1>3, <1>5, <2>1, <2>2 DEF CursorSound
  <2>. QED
    BY <1>3, <1>5, <2>3 DEF ObjectSound
<1>10. Owned'
  <2>1. ASSUME NEW g \in Handles, result'[g].open
        PROVE  g \in abandoned' \/ \E p \in Queries : obj'[p].handle = g
    <3>1. CASE g = h
      BY <1>5, <3>1
    <3>2. CASE g # h
      <4>1. g \in abandoned \/ \E p \in Queries : obj[p].handle = g
        BY <1>1, <1>7, <2>1, <3>2 DEF Owned
      <4>2. g # 0
        BY Fields
      <4>. QED
        BY <1>3, <1>4, <1>5, <4>1, <4>2
    <3>. QED
      BY <3>1, <3>2
  <2>2. ASSUME NEW p \in Queries, obj'[p].handle # 0, NEW r \in Queries \ {p}
        PROVE  obj'[r].handle # obj'[p].handle
    <3>1. CASE p = q
      <4>1. r # q /\ obj'[r] = obj[r] /\ obj'[p].handle = h
        BY <1>5, <3>1
      <4>. QED
        BY <1>3, <1>8, <4>1
    <3>2. CASE p # q /\ r = q
      BY <1>5, <1>8, <2>2, <3>2
    <3>3. CASE p # q /\ r # q
      BY <1>1, <1>5, <2>2, <3>3 DEF Owned
    <3>. QED
      BY <3>1, <3>2, <3>3
  <2>. QED
    BY <2>1, <2>2 DEF Owned
<1>11. InResult(q, 1)'
  <2>1. result'[h].cursor = obj[q].offset
    BY <1>1, <1>7, ResultTypes
  <2>. QED
    BY <1>3, <1>5, <1>6, <2>1 DEF InResult, Due
<1>12. MethodSound'
  BY <1>4, <1>5, <1>6, <1>11 DEF MethodSound
<1>. QED
  BY <1>5, <1>6, <1>8, <1>9, <1>10, <1>12, OthersSound

\* A method that ends without touching the object.
LEMMA GiveUpSound ==
    ASSUME IInv, NEW q \in Queries, q = me, ExecFails \/ NextFails \/ ColumnFails \/ EndOfResult
    PROVE  Sound'
<1>1. /\ TypeOK /\ MethodSound /\ gen \in [Queries -> Generators] /\ gen[q] \in Generators
  BY DEF IInv, Sound, TypeOK
<1>2. /\ UNCHANGED <<obj, result, abandoned>> /\ step' = "idle"
      /\ \A p \in Queries : p # q => gen'[p] = gen[p]
  BY <1>1 DEF ExecFails, NextFails, ColumnFails, EndOfResult, Raise, Goto
<1>3. ~gen[q].on
  BY <1>1 DEF ExecFails, NextFails, ColumnFails, EndOfResult, MethodSound
<1>4. ~gen'[q].on
  BY <1>1, <1>3 DEF ExecFails, NextFails, ColumnFails, EndOfResult, Raise, Generators
<1>5. MethodSound'
  BY <1>2 DEF MethodSound
<1>. QED
  BY <1>2, <1>4, <1>5, GeneratorStep

\* The cursor moves on.
LEMMA NextRowSound == ASSUME IInv, NEW q \in Queries, q = me, NextRow PROVE Sound'
<1>1. /\ TypeOK /\ Owned /\ MethodSound /\ ObjectSound(q) /\ InResult(q, 1)
      /\ gen \in [Queries -> Generators] /\ result \in [Handles -> Results]
      /\ gen[q] \in Generators /\ obj[q] \in Objects
  BY DEF IInv, Sound, TypeOK, NextRow, MethodSound
<1>. DEFINE h == obj[q].handle
            c == result[h].cursor
<1>2. h # 0 /\ h \in Handles /\ CursorSound(q) /\ c \in Nat /\ result[h].last \in Nat
  BY <1>1, Fields DEF InResult, ObjectSound
<1>3. /\ c < result[h].last /\ result' = [result EXCEPT ![h].cursor = c + 1]
      /\ gen' = [gen EXCEPT ![q].col = 0]
      /\ step' = "columns" /\ UNCHANGED <<obj, me, abandoned>> /\ step = "next"
  BY <1>1, <1>2 DEF NextRow, Goto
<1>4. /\ result'[h].cursor = c + 1 /\ result'[h].last = result[h].last
      /\ result'[h].open <=> result[h].open
      /\ \A g \in Handles : g # h => result'[g] = result[g]
  BY <1>1, <1>2, <1>3 DEF Results
<1>5. /\ gen'[q].base = gen[q].base /\ gen'[q].taken = gen[q].taken
      /\ gen'[q].row = gen[q].row /\ gen'[q].ended = gen[q].ended
      /\ gen'[q].on <=> gen[q].on
      /\ \A p \in Queries : p # q => gen'[p] = gen[p]
  BY <1>1, <1>3 DEF Generators
<1>6. ~gen[q].on /\ obj[q].alive /\ obj[q].offset \in Nat
  BY <1>1, <1>3, Fields DEF MethodSound
<1>. HIDE DEF h, c
<1>7. ObjectSound(q)'
  <2>1. StopRow(q)' = StopRow(q) /\ StopRow(q) \in Nat
    BY <1>1, <1>3, ResultTypes DEF StopRow
  <2>2. c + 1 < StopRow(q) /\ obj[q].offset <= c + 1
    BY <1>2, <1>3, <1>6, <2>1 DEF CursorSound, h, c
  <2>3. CursorSound(q)'
    BY <1>2, <1>3, <1>4, <2>1, <2>2 DEF CursorSound, h
  <2>. QED
    BY <1>1, <1>3, <2>3 DEF ObjectSound
<1>8. InResult(q, 0)'
  <2>1. Due(q)' = Due(q)
    BY <1>5 DEF Due
  <2>2. Due(q) = c + 1
    BY <1>1 DEF InResult, h, c
  <2>. QED
    BY <1>1, <1>2, <1>3, <1>4, <1>5, <2>1, <2>2 DEF InResult, h
<1>9. MethodSound'
  BY <1>3, <1>5, <1>6, <1>8 DEF MethodSound
<1>10. Owned'
  <2>1. \A g \in Handles : result'[g].open => result[g].open
    BY <1>4
  <2>. QED
    BY <1>1, <1>3, <2>1, OwnedKept
<1>11. ASSUME NEW p \in Queries, p # q, obj[p].handle # 0
       PROVE  result'[obj[p].handle] = result[obj[p].handle]
  <2>1. obj[p].handle \in Handles
    BY <1>1, <1>11, Fields DEF TypeOK
  <2>2. obj[p].handle # h
    BY <1>1, <1>11 DEF Owned, h
  <2>. QED
    BY <1>4, <2>1, <2>2
<1>. QED
  BY <1>3, <1>5, <1>6, <1>7, <1>9, <1>10, <1>11, OthersSound

\* A column is read, or the row is yielded.
LEMMA ColumnSound == ASSUME IInv, NEW q \in Queries, q = me, Column PROVE Sound'
<1>1. /\ TypeOK /\ MethodSound /\ InResult(q, 0)
      /\ gen \in [Queries -> Generators] /\ result \in [Handles -> Results]
      /\ gen[q] \in Generators /\ obj[q] \in Objects
  BY DEF IInv, Sound, TypeOK, Column, MethodSound
<1>2. /\ UNCHANGED <<obj, me, result, abandoned>> /\ step = "columns"
      /\ ~gen[q].on /\ obj[q].alive
  BY <1>1 DEF Column, MethodSound
<1>3. CASE gen' = [gen EXCEPT ![q].col = @ + 1] /\ UNCHANGED step
  <2>1. /\ gen'[q].base = gen[q].base /\ gen'[q].taken = gen[q].taken
        /\ gen'[q].row = gen[q].row /\ gen'[q].ended = gen[q].ended
        /\ gen'[q].on <=> gen[q].on
        /\ \A p \in Queries : p # q => gen'[p] = gen[p]
    BY <1>1, <1>3 DEF Generators
  <2>2. InResult(q, 0)'
    BY <1>1, <1>2, <2>1, PlaceKept
  <2>3. MethodSound'
    BY <1>2, <1>3, <2>1, <2>2 DEF MethodSound
  <2>. QED
    BY <1>2, <2>1, <2>3, GeneratorStep
<1>4. CASE /\ gen[q].col = Columns /\ step' = "idle"
           /\ gen' = [gen EXCEPT ![q] = [@ EXCEPT
                         !.on = TRUE, !.taken = gen[q].taken + 1,
                         !.row = result[obj[q].handle].cursor]]
  <2>1. result[obj[q].handle].cursor \in Nat /\ gen[q].taken \in Nat
    BY <1>1, Fields DEF InResult
  <2>2. gen'[q] = [gen[q] EXCEPT !.on = TRUE, !.taken = gen[q].taken + 1,
                                 !.row = result[obj[q].handle].cursor]
    BY <1>1, <1>4
  <2>3. /\ gen'[q].taken = gen[q].taken + 1
        /\ gen'[q].row = result[obj[q].handle].cursor
        /\ gen'[q].base = gen[q].base /\ gen'[q].ended = gen[q].ended
    BY <1>1, <1>4, <2>1, <2>2, YieldTypes
  <2>4. InResult(q, 1)'
    BY <1>1, <1>2, <2>1, <2>3 DEF InResult, Due
  <2>5. MethodSound' /\ \A p \in Queries : p # q => gen'[p] = gen[p]
    BY <1>1, <1>4 DEF MethodSound
  <2>. QED
    BY <1>2, <2>4, <2>5, GeneratorStep
<1>. QED
  BY <1>3, <1>4 DEF Column, Goto

LEMMA ResumeSound == ASSUME IInv, NEW q \in Queries, Resume(q) \/ Abandon(q) PROVE Sound'
<1>1. /\ TypeOK /\ gen \in [Queries -> Generators] /\ gen[q] \in Generators
      /\ InResult(q, 1)
  BY DEF IInv, Sound, TypeOK, Resume, Abandon
<1>2. /\ UNCHANGED <<obj, result, abandoned>> /\ me' = q
      /\ \A p \in Queries : p # q => gen'[p] = gen[p]
  BY <1>1 DEF Resume, Abandon, Begin
<1>3. /\ ~gen'[q].on /\ gen'[q].base = gen[q].base /\ gen'[q].taken = gen[q].taken
      /\ gen'[q].row = gen[q].row
      /\ \/ step' = "next" /\ gen'[q].ended = gen[q].ended
         \/ step' = "ending" /\ gen'[q].ended = "aborted"
  BY <1>1 DEF Resume, Abandon, Begin, Generators
<1>4. obj[q].alive
  BY <1>1 DEF InResult
<1>5. step' = "next" => InResult(q, 1)'
  BY <1>1, <1>2, <1>3, <1>4, PlaceKept
<1>6. MethodSound'
  BY <1>2, <1>3, <1>4, <1>5 DEF MethodSound
<1>. QED
  BY <1>2, <1>3, <1>6, GeneratorStep

LEMMA CloseSound == ASSUME IInv, NEW q \in Queries, Close(q) \/ Drop(q) PROVE Sound'
<1>1. gen \in [Queries -> Generators]
  BY DEF IInv, TypeOK
<1>2. /\ UNCHANGED <<obj, result, abandoned>> /\ me' = q /\ step' \in {"closing", "dropping"}
      /\ obj[q].alive /\ ~gen'[q].on
      /\ \A p \in Queries : p # q => gen'[p] = gen[p]
  BY <1>1, FreshTypes DEF Close, Drop, Begin
<1>3. MethodSound'
  BY <1>2 DEF MethodSound
<1>. QED
  BY <1>2, <1>3, GeneratorStep

\* An object without a handle, before or after closing.
LEMMA EmptySound ==
    ASSUME NEW q \in Queries, ObjectSound(q), obj'[q].handle = 0,
           obj'[q].alive => obj[q].alive /\ obj'[q].offset = obj[q].offset
    PROVE  ObjectSound(q)'
  BY DEF ObjectSound

LEMMA CloseNothingSound == ASSUME IInv, NEW q \in Queries, q = me, CloseNothing PROVE Sound'
<1>1. /\ TypeOK /\ Owned /\ MethodSound /\ ObjectSound(q) /\ obj \in [Queries -> Objects]
  BY DEF IInv, Sound, TypeOK
<1>2. /\ UNCHANGED <<gen, me, result, abandoned>> /\ step' = "idle" /\ ~gen[q].on
      /\ obj[q].handle = 0 /\ obj'[q] \in {obj[q], NoObject}
      /\ \A p \in Queries : p # q => obj'[p] = obj[p]
  BY <1>1 DEF CloseNothing, Goto, MethodSound, ClosingSteps
<1>3. obj'[q].handle = 0 /\ ObjectSound(q)'
  BY <1>1, <1>2, FreshTypes, EmptySound
<1>4. Owned'
  <2>1. \A p \in Queries : obj'[p].handle = obj[p].handle
    BY <1>2, <1>3
  <2>. QED
    BY <1>1, <1>2, <2>1, OwnedKept
<1>5. MethodSound'
  BY <1>2 DEF MethodSound
<1>. QED
  BY <1>2, <1>3, <1>4, <1>5, OthersSound

LEMMA CloseFreeSound == ASSUME IInv, NEW q \in Queries, q = me, CloseFree PROVE Sound'
<1>1. /\ TypeOK /\ Owned /\ MethodSound /\ ObjectSound(q)
      /\ obj \in [Queries -> Objects] /\ obj[q] \in Objects /\ result \in [Handles -> Results]
  BY DEF IInv, Sound, TypeOK
<1>. DEFINE h == obj[q].handle
<1>2. /\ UNCHANGED <<gen, me, abandoned>> /\ step' = "idle" /\ ~gen[q].on
      /\ h # 0 /\ result' = [result EXCEPT ![h] = NoResult]
      /\ obj' = [obj EXCEPT ![q] = Released(@)]
  BY <1>1 DEF CloseFree, Goto, MethodSound, ClosingSteps
<1>3. /\ h \in Handles /\ result'[h] = NoResult
      /\ \A g \in Handles : g # h => result'[g] = result[g]
  BY <1>1, <1>2, Fields
<1>4. /\ obj'[q] \in {NoObject, [obj[q] EXCEPT !.handle = 0, !.order = FALSE]}
      /\ \A p \in Queries : p # q => obj'[p] = obj[p]
  BY <1>1, <1>2 DEF Released
<1>5. /\ obj'[q].handle = 0
      /\ obj'[q].alive => obj[q].alive /\ obj'[q].offset = obj[q].offset
  BY <1>1, <1>4, FreshTypes DEF Objects
<1>6. ObjectSound(q)'
  BY <1>1, <1>5, EmptySound
<1>7. \A p \in Queries : p # q /\ obj[p].handle # 0 =>
         obj[p].handle \in Handles /\ obj[p].handle # h
  BY <1>1, Fields DEF TypeOK, Owned
<1>. HIDE DEF h
<1>8. Owned'
  <2>1. ASSUME NEW g \in Handles, result'[g].open
        PROVE  g \in abandoned' \/ \E p \in Queries : obj'[p].handle = g
    <3>1. g # h
      BY <1>3, <2>1, FreshTypes
    <3>2. g \in abandoned \/ \E p \in Queries : obj[p].handle = g
      BY <1>1, <1>3, <2>1, <3>1 DEF Owned
    <3>. QED
      BY <1>2, <1>4, <3>1, <3>2 DEF h
  <2>2. ASSUME NEW p \in Queries, obj'[p].handle # 0, NEW r \in Queries \ {p}
        PROVE  obj'[r].handle # obj'[p].handle
    <3>1. p # q /\ obj'[p] = obj[p]
      BY <1>4, <1>5, <2>2
    <3>2. CASE r = q
      BY <1>5, <2>2, <3>2
    <3>3. CASE r # q
      BY <1>1, <1>4, <2>2, <3>1, <3>3 DEF Owned
    <3>. QED
      BY <3>2, <3>3
  <2>. QED
    BY <2>1, <2>2 DEF Owned
<1>9. MethodSound'
  BY <1>2 DEF MethodSound
<1>10. ASSUME NEW p \in Queries, p # q, obj[p].handle # 0
       PROVE  result'[obj[p].handle] = result[obj[p].handle]
  BY <1>3, <1>7, <1>10
<1>. QED
  BY <1>2, <1>4, <1>6, <1>8, <1>9, <1>10, OthersSound

LEMMA CloseFailsSound == ASSUME IInv, NEW q \in Queries, q = me, CloseFails PROVE Sound'
<1>1. /\ TypeOK /\ Owned /\ MethodSound /\ ObjectSound(q)
      /\ obj \in [Queries -> Objects] /\ gen \in [Queries -> Generators]
      /\ gen[q] \in Generators
  BY DEF IInv, Sound, TypeOK
<1>2. /\ UNCHANGED <<me, result>> /\ step' = "idle" /\ ~gen[q].on /\ abandoned \subseteq abandoned'
      /\ \A p \in Queries : p # q => obj'[p] = obj[p] /\ gen'[p] = gen[p]
      /\ ~gen'[q].on
  <2>1. /\ UNCHANGED <<me, result>> /\ step' = "idle" /\ ~gen[q].on /\ abandoned \subseteq abandoned'
    BY <1>1 DEF CloseFails, Raise, Goto, MethodSound, ClosingSteps
  <2>2. \A p \in Queries : p # q => obj'[p] = obj[p]
    BY <1>1 DEF CloseFails
  <2>3. \/ gen' = gen
        \/ gen' = [gen EXCEPT ![q].on = FALSE, ![q].ended = "raised"]
    BY DEF CloseFails, Raise
  <2>. QED
    BY <1>1, <2>1, <2>2, <2>3 DEF Generators
<1>3. MethodSound'
  BY <1>2 DEF MethodSound
<1>4. CASE step = "dropping"
  <2>1. /\ obj'[q] = NoObject /\ abandoned' = abandoned \cup {obj[q].handle}
    BY <1>1, <1>4 DEF CloseFails
  <2>2. ObjectSound(q)'
    BY <1>1, <2>1, FreshTypes, EmptySound
  <2>3. Owned'
    BY <1>1, <1>2, <2>1, FreshTypes DEF Owned
  <2>. QED
    BY <1>2, <1>3, <2>2, <2>3, OthersSound
<1>5. CASE step # "dropping"
  <2>1. obj' = obj
    BY <1>1, <1>5 DEF CloseFails
  <2>2. Owned' /\ ObjectSound(q)'
    BY <1>1, <1>2, <2>1, OwnedKept, ObjectKept
  <2>. QED
    BY <1>2, <1>3, <2>2, OthersSound
<1>. QED
  BY <1>4, <1>5

LEMMA StutterSound == ASSUME IInv, UNCHANGED vars PROVE Sound'
<1>1. UNCHANGED <<obj, gen, me, step, result, abandoned>> /\ Sound
  BY DEF IInv, vars
<1>2. MethodSound'
  BY <1>1 DEF Sound, MethodSound, InResult, Due
<1>3. PICK q \in Queries : q = me
  BY DEF IInv, TypeOK
<1>4. gen'[q].on => InResult(q, 1)'
  BY <1>1 DEF Sound, InResult, Due
<1>. QED
  BY <1>1, <1>2, <1>4, GeneratorStep

LEMMA NextInv == IInv /\ [Next]_vars => IInv'
<1>. SUFFICES ASSUME IInv, [Next]_vars PROVE IInv'
  OBVIOUS
<1>1. TypeOK'
  BY TypeStep
<1>2. PICK q \in Queries : q = me
  BY DEF IInv, TypeOK
<1>3. CASE Running
  BY <1>1, <1>2, <1>3, ExecSound, GiveUpSound, NextRowSound, ColumnSound, CloseNothingSound,
     CloseFreeSound, CloseFailsSound
     DEF Running, IInv
<1>4. CASE \E r \in Queries : Using(r)
  BY <1>1, <1>4, NewSound, IterateSound, ResumeSound, CloseSound DEF Using, IInv
<1>5. CASE \E r, p \in Queries : Copy(r, p)
  BY <1>1, <1>5, CopySound DEF IInv
<1>6. CASE UNCHANGED vars
  BY <1>1, <1>6, StutterSound DEF IInv
<1>. QED
  BY <1>3, <1>4, <1>5, <1>6 DEF Next

LEMMA Invariant == Spec => []IInv
  BY InitSound, NextInv, PTL DEF Spec

\* A generator suspended at its yield has read every column of its row.
THEOREM TypeCorrect == Spec => []TypeOK
<1>1. IInv => TypeOK
  BY DEF IInv
<1>. QED
  BY <1>1, Invariant, PTL

\* Every handle the server holds is one object's, or was left behind by a
\* release that failed in __del__; and an object's handle is open.
THEOREM HandlesOwned == Spec => []ResultsOwned
<1>1. IInv => ResultsOwned
  <2>. SUFFICES ASSUME IInv PROVE ResultsOwned
    OBVIOUS
  <2>1. ASSUME NEW q \in Queries, obj[q].handle # 0 PROVE result[obj[q].handle].open
    BY <2>1 DEF IInv, Sound, ObjectSound, CursorSound
  <2>2. ASSUME NEW h \in Handles, result[h].open
        PROVE  \/ h \in abandoned
               \/ \E q \in Queries : obj[q].handle = h /\ \A p \in Queries \ {q} : obj[p].handle # h
    <3>1. h # 0
      BY Fields
    <3>. QED
      BY <2>2, <3>1 DEF IInv, Sound, Owned
  <2>. QED
    BY <2>1, <2>2 DEF ResultsOwned
<1>. QED
  BY <1>1, Invariant, PTL

-----------------------------------------------------------------------------
\* Iterations make a plain stream of rows (RowStream).

StopOf(q) == IF Stage(q) = "none" THEN 0 ELSE StopRow(q)

RowNumbers == 1..(Total + 1) \cup {o + 1 : o \in Offsets}

\* What a step of GenQuery2 means for the stream of object q.
Kept(q) == /\ Stage(q)' = Stage(q)
           /\ NextOf(q)' = NextOf(q)
           /\ StopOf(q)' = StopOf(q)

Begins(q) == /\ Stage(q) # "on" /\ Stage(q)' = "on"
             /\ NextOf(q)' \in RowNumbers /\ StopOf(q)' \in RowNumbers
             /\ NextOf(q)' <= StopOf(q)'

Takes(q) == /\ Stage(q) = "on" /\ Stage(q)' = "on"
            /\ NextOf(q) < StopOf(q)
            /\ NextOf(q)' = NextOf(q) + 1
            /\ StopOf(q)' = StopOf(q)

Ends(q) == /\ Stage(q) = "on"
           /\ \/ Stage(q)' = "done" /\ NextOf(q) = StopOf(q)
              \/ Stage(q)' = "broken"
           /\ NextOf(q)' = NextOf(q)
           /\ StopOf(q)' = StopOf(q)

Forgets(q) == /\ Stage(q) # "on" /\ Stage(q)' = "none"
              /\ NextOf(q)' = 0 /\ StopOf(q)' = 0

LEMMA StreamStep ==
    ASSUME NEW q \in Queries, \A p \in Queries : p # q => Kept(p),
           Kept(q) \/ Begins(q) \/ Takes(q) \/ Ends(q) \/ Forgets(q)
    PROVE  [Stream!Next]_(Stream!vars)
<1>. DEFINE state == [p \in Queries |-> Stage(p)]
            next == [p \in Queries |-> NextOf(p)]
            stop == [p \in Queries |-> StopOf(p)]
<1>1. \A p \in Queries : state[p] = Stage(p) /\ next[p] = NextOf(p) /\ stop[p] = StopOf(p)
  OBVIOUS
<1>2. CASE Kept(q)
  <2>1. \A p \in Queries : Kept(p)
    BY <1>2
  <2>2. state' = state /\ next' = next /\ stop' = stop
    BY <2>1 DEF Kept
  <2>. QED
    BY <2>2 DEF Stream!vars, StopOf
<1>3. CASE Begins(q)
  <2>1. /\ state' = [state EXCEPT ![q] = "on"]
        /\ next' = [next EXCEPT ![q] = NextOf(q)']
        /\ stop' = [stop EXCEPT ![q] = StopOf(q)']
    BY <1>3 DEF Kept, Begins
  <2>2. Stream!Begin(q)
    BY <1>1, <1>3, <2>1 DEF Begins, Stream!Begin, Stream!Move, StopOf, RowNumbers
  <2>. QED
    BY <2>2 DEF Stream!Next
<1>4. CASE Takes(q)
  <2>1. state' = state /\ next' = [next EXCEPT ![q] = NextOf(q) + 1] /\ stop' = stop
    BY <1>4 DEF Kept, Takes
  <2>2. Stream!Take(q)
    BY <1>1, <1>4, <2>1 DEF Takes, Stream!Take, StopOf
  <2>. QED
    BY <2>2 DEF Stream!Next
<1>5. CASE Ends(q)
  <2>1. state' = [state EXCEPT ![q] = Stage(q)'] /\ next' = next /\ stop' = stop
    BY <1>5 DEF Kept, Ends
  <2>2. Stream!Finish(q) \/ Stream!Break(q)
    BY <1>1, <1>5, <2>1 DEF Ends, Stream!Finish, Stream!Break, Stream!Move, StopOf
  <2>. QED
    BY <2>2 DEF Stream!Next
<1>6. CASE Forgets(q)
  <2>1. /\ state' = [state EXCEPT ![q] = "none"]
        /\ next' = [next EXCEPT ![q] = 0]
        /\ stop' = [stop EXCEPT ![q] = 0]
    BY <1>6 DEF Kept, Forgets
  <2>2. Stream!Forget(q)
    BY <1>1, <1>6, <2>1 DEF Forgets, Stream!Forget, Stream!Move, StopOf
  <2>. QED
    BY <2>2 DEF Stream!Next
<1>. QED
  BY <1>2, <1>3, <1>4, <1>5, <1>6

\* An object whose rows, and place in them, a step leaves as they are.
LEMMA StreamKept ==
    ASSUME NEW q \in Queries,
           obj'[q].alive <=> obj[q].alive,
           obj'[q].offset = obj[q].offset, obj'[q].limit = obj[q].limit,
           gen'[q].base = gen[q].base, gen'[q].taken = gen[q].taken, gen'[q].row = gen[q].row,
           Iterating(q)' <=> Iterating(q),
           Iterating(q) \/ gen'[q].ended = gen[q].ended
    PROVE  Kept(q)
<1>1. StopRow(q)' = StopRow(q)
  BY DEF StopRow
<1>2. Stage(q)' = Stage(q)
  BY DEF Stage
<1>. QED
  BY <1>1, <1>2 DEF Kept, NextOf, StopOf

\* An object that is not the one whose method runs, before or after.
LEMMA StreamOthers ==
    ASSUME NEW q \in Queries, obj'[q] = obj[q], gen'[q] = gen[q],
           q = me => step \notin {"next", "columns", "ending"},
           q = me' => step' \notin {"next", "columns", "ending"}
    PROVE  Kept(q)
<1>1. Iterating(q)' <=> Iterating(q)
  BY DEF Iterating
<1>. QED
  BY <1>1, StreamKept

\* An iteration that begins with the row behind the cursor.
LEMMA StreamBegins ==
    ASSUME NEW q \in Queries, TypeOK', ObjectSound(q)', Stage(q) # "on",
           InResult(q, 1)', gen'[q].taken = 0, Iterating(q)'
    PROVE  Begins(q)
<1>. DEFINE c == result'[obj'[q].handle].cursor
            o == obj'[q].offset
<1>1. /\ gen'[q].base = c + 1 /\ gen'[q].base # 0
      /\ obj'[q].alive /\ obj'[q].handle # 0 /\ CursorSound(q)'
  BY DEF InResult, Due, ObjectSound
<1>2. c \in Nat /\ o \in Nat /\ o \in Offsets /\ obj'[q].limit \in Nat
  BY <1>1, Fields DEF TypeOK, ObjectSound
<1>3. o <= c /\ c < StopRow(q)'
  BY <1>1 DEF CursorSound
<1>4. /\ StopRow(q)' \in Nat
      /\ o >= Total => StopRow(q)' = o + 1
      /\ o < Total => StopRow(q)' <= Total + 1
  BY <1>2, SizesAssumption DEF StopRow
<1>5. Stage(q)' = "on"
  BY <1>1 DEF Stage
<1>6. NextOf(q)' = c + 1 /\ StopOf(q)' = StopRow(q)'
  BY <1>1, <1>5 DEF NextOf, StopOf
<1>. HIDE DEF c, o
<1>7. c + 1 <= StopRow(q)'
  BY <1>2, <1>3, <1>4
<1>8. c + 1 \in RowNumbers /\ StopRow(q)' \in RowNumbers
  <2>1. CASE o >= Total
    <3>1. c = o
      BY <1>2, <1>3, <1>4, <2>1
    <3>. QED
      BY <1>2, <1>4, <2>1, <3>1 DEF RowNumbers
  <2>2. CASE o < Total
    BY <1>2, <1>3, <1>4, <2>2, SizesAssumption DEF RowNumbers
  <2>. QED
    BY <1>2, <2>1, <2>2, SizesAssumption
<1>. QED
  BY <1>5, <1>6, <1>7, <1>8 DEF Begins

\* No iteration is in progress, and the object goes away or begins anew.
LEMMA StreamForgets ==
    ASSUME NEW q \in Queries, ~Iterating(q), ~obj'[q].alive \/ gen'[q].base = 0
    PROVE  Forgets(q)
  BY DEF Forgets, Stage, NextOf, StopOf

LEMMA UsingStreams ==
    ASSUME IInv, IInv', NEW q \in Queries, Using(q) PROVE [Stream!Next]_(Stream!vars)
<1>1. /\ TypeOK /\ TypeOK' /\ ObjectSound(q) /\ ObjectSound(q)' /\ MethodSound'
      /\ gen \in [Queries -> Generators] /\ obj \in [Queries -> Objects]
  BY DEF IInv, Sound, TypeOK
<1>2. /\ step = "idle"
      /\ \A p \in Queries : p # q => obj'[p] = obj[p] /\ gen'[p] = gen[p]
      /\ q = me' \/ step' = "idle"
  BY <1>1 DEF Using, New, Iterate, Resume, Abandon, Close, Drop, Begin
<1>3. ASSUME NEW p \in Queries, p # q PROVE Kept(p)
  <2>1. p = me' => step' = "idle"
    BY <1>2, <1>3
  <2>. QED
    BY <1>2, <1>3, <2>1, StreamOthers
<1>4. CASE New(q)
  <2>1. gen'[q].base = 0 /\ ~obj[q].alive
    BY <1>1, <1>4, FreshTypes DEF New
  <2>2. Kept(q)
    BY <2>1 DEF Kept, Stage, NextOf, StopOf
  <2>. QED
    BY <1>3, <2>2, StreamStep
<1>5. CASE Iterate(q)
  <2>1. /\ ~Iterating(q) /\ me' = q
        /\ \/ gen'[q] = NoGenerator
           \/ /\ step' = "next"
              /\ gen'[q] = [NoGenerator EXCEPT !.base = result[obj[q].handle].cursor + 1]
    BY <1>1, <1>2, <1>5 DEF Iterate, Iterating, Begin
  <2>2. CASE gen'[q] = NoGenerator
    BY <1>3, <2>1, <2>2, FreshTypes, StreamForgets, StreamStep
  <2>3. CASE /\ step' = "next"
             /\ gen'[q] = [NoGenerator EXCEPT !.base = result[obj[q].handle].cursor + 1]
    <3>1. InResult(q, 1)'
      BY <1>1, <2>1, <2>3 DEF MethodSound
    <3>2. gen'[q].taken = 0
      BY <2>3 DEF NoGenerator
    <3>3. Iterating(q)' /\ Stage(q) # "on"
      BY <2>1, <2>3 DEF Iterating, Stage
    <3>4. Begins(q)
      BY <1>1, <3>1, <3>2, <3>3, StreamBegins
    <3>. QED
      BY <1>3, <3>4, StreamStep
  <2>. QED
    BY <2>1, <2>2, <2>3
<1>6. CASE Resume(q) \/ Abandon(q)
  <2>1. /\ gen'[q].base = gen[q].base /\ gen'[q].taken = gen[q].taken /\ gen'[q].row = gen[q].row
        /\ obj' = obj /\ me' = q /\ gen[q].on /\ step' \in {"next", "ending"}
    BY <1>1, <1>6 DEF Resume, Abandon, Begin, Generators
  <2>2. Iterating(q) /\ Iterating(q)'
    BY <2>1 DEF Iterating
  <2>3. Kept(q)
    BY <2>1, <2>2, StreamKept
  <2>. QED
    BY <1>3, <2>3, StreamStep
<1>7. CASE Close(q)
  <2>1. gen' = gen /\ obj' = obj /\ step' = "closing"
    BY <1>7 DEF Close, Begin
  <2>2. Iterating(q)' <=> Iterating(q)
    BY <1>2, <2>1 DEF Iterating
  <2>3. Kept(q)
    BY <2>1, <2>2, StreamKept
  <2>. QED
    BY <1>3, <2>3, StreamStep
<1>8. CASE Drop(q)
  <2>1. gen'[q].base = 0 /\ ~Iterating(q)
    BY <1>1, <1>2, <1>8, FreshTypes DEF Drop, Iterating
  <2>. QED
    BY <1>3, <2>1, StreamForgets, StreamStep
<1>. QED
  BY <1>4, <1>5, <1>6, <1>7, <1>8 DEF Using

LEMMA CopyStreams ==
    ASSUME IInv, NEW q \in Queries, NEW p \in Queries, Copy(q, p)
    PROVE  [Stream!Next]_(Stream!vars)
<1>1. gen \in [Queries -> Generators] /\ obj \in [Queries -> Objects]
  BY DEF IInv, TypeOK
<1>2. /\ step = "idle" /\ step' = "idle" /\ me' = me /\ ~obj[p].alive
      /\ \A r \in Queries : r # p => obj'[r] = obj[r] /\ gen'[r] = gen[r]
      /\ gen'[p].base = 0
  BY <1>1, FreshTypes DEF Copy
<1>3. ASSUME NEW r \in Queries, r # p PROVE Kept(r)
  BY <1>2, <1>3, StreamOthers
<1>4. Kept(p)
  BY <1>2 DEF Kept, Stage, NextOf, StopOf
<1>. QED
  BY <1>3, <1>4, StreamStep

\* An iteration that ends, by itself or broken off.
LEMMA StreamEnds ==
    ASSUME NEW q \in Queries, obj[q].alive, obj'[q].alive, gen[q].base # 0,
           obj'[q].offset = obj[q].offset, obj'[q].limit = obj[q].limit,
           gen'[q].base = gen[q].base, gen'[q].taken = gen[q].taken, gen'[q].row = gen[q].row,
           Iterating(q), ~Iterating(q)',
           gen'[q].ended = "done" => Due(q) = StopRow(q)
    PROVE  Ends(q)
<1>1. StopRow(q)' = StopRow(q)
  BY DEF StopRow
<1>2. Stage(q) = "on"
  BY DEF Stage
<1>3. /\ Stage(q)' \in {"done", "broken"}
      /\ Stage(q)' = "done" => gen'[q].ended = "done"
  BY DEF Stage
<1>4. NextOf(q) = Due(q) /\ NextOf(q)' = NextOf(q) /\ StopOf(q) = StopRow(q) /\ StopOf(q)' = StopOf(q)
  BY <1>1, <1>2, <1>3 DEF NextOf, StopOf, Due
<1>. QED
  BY <1>2, <1>3, <1>4 DEF Ends

\* A step of a method of object q.
LEMMA RunningStreams ==
    ASSUME IInv, IInv', NEW q \in Queries, q = me, Running
    PROVE  [Stream!Next]_(Stream!vars)
<1>1. /\ TypeOK /\ TypeOK' /\ MethodSound /\ MethodSound' /\ ObjectSound(q) /\ ObjectSound(q)'
      /\ gen \in [Queries -> Generators] /\ obj \in [Queries -> Objects]
      /\ result \in [Handles -> Results]
      /\ gen[q] \in Generators /\ obj[q] \in Objects
  BY DEF IInv, Sound, TypeOK
<1>2. me' = q
  BY DEF Running, Exec, ExecFails, NextRow, NextFails, EndOfResult, Column, ColumnFails,
         CloseNothing, CloseFree, CloseFails
<1>3. \A p \in Queries : p # q => gen'[p] = gen[p] /\ obj'[p] = obj[p]
  <2>1. \A p \in Queries : p # q => gen'[p] = gen[p]
    BY <1>1 DEF Running, Exec, ExecFails, Raise, NextRow, NextFails, EndOfResult, Column,
                ColumnFails, CloseNothing, CloseFree, CloseFails
  <2>2. \A p \in Queries : p # q => obj'[p] = obj[p]
    BY <1>1 DEF Running, Exec, ExecFails, NextRow, NextFails, EndOfResult, Column,
                ColumnFails, CloseNothing, CloseFree, CloseFails
  <2>. QED
    BY <2>1, <2>2
<1>4. ASSUME NEW p \in Queries, p # q PROVE Kept(p)
  BY <1>2, <1>3, <1>4, StreamOthers
<1>5. SUFFICES Kept(q) \/ Begins(q) \/ Takes(q) \/ Ends(q) \/ Forgets(q)
  BY <1>4, StreamStep
<1>6. CASE Exec
  <2>1. gen[q] = NoGenerator /\ step' = "next"
    BY <1>1, <1>6 DEF Exec, Goto, MethodSound
  <2>2. gen'[q].taken = 0
    BY <1>1, <1>6, <2>1 DEF Exec, NoGenerator
  <2>3. InResult(q, 1)'
    BY <1>1, <1>2, <2>1 DEF MethodSound
  <2>4. Iterating(q)' /\ Stage(q) # "on"
    BY <1>2, <2>1, FreshTypes DEF Iterating, Stage
  <2>. QED
    BY <1>1, <2>2, <2>3, <2>4, StreamBegins
<1>7. CASE ExecFails
  <2>1. gen[q].base = 0 /\ gen'[q].base = gen[q].base
    BY <1>1, <1>7, FreshTypes DEF ExecFails, Raise, MethodSound, Generators
  <2>. QED
    BY <2>1 DEF Kept, Stage, NextOf, StopOf
<1>8. CASE NextRow
  <2>1. /\ gen'[q].base = gen[q].base /\ gen'[q].taken = gen[q].taken
        /\ gen'[q].row = gen[q].row /\ obj' = obj
        /\ step = "next" /\ step' = "columns"
    BY <1>1, <1>8 DEF NextRow, Goto, Generators
  <2>2. Iterating(q) /\ Iterating(q)'
    BY <1>2, <2>1 DEF Iterating
  <2>. QED
    BY <2>1, <2>2, StreamKept
<1>9. CASE NextFails \/ ColumnFails
  <2>1. /\ obj' = obj /\ step \in {"next", "columns"} /\ step' = "idle"
        /\ gen' = [gen EXCEPT ![q].on = FALSE, ![q].ended = "raised"]
    BY <1>9 DEF NextFails, ColumnFails, Raise, Goto
  <2>2. /\ gen'[q].base = gen[q].base /\ gen'[q].taken = gen[q].taken
        /\ gen'[q].row = gen[q].row /\ gen'[q].ended = "raised" /\ ~gen'[q].on
    BY <1>1, <2>1 DEF Generators
  <2>3. obj[q].alive /\ gen[q].base # 0
    BY <1>1, <2>1 DEF MethodSound, InResult
  <2>4. Iterating(q) /\ ~Iterating(q)'
    BY <1>2, <2>1, <2>2 DEF Iterating
  <2>. QED
    BY <2>1, <2>2, <2>3, <2>4, StreamEnds
<1>10. CASE EndOfResult
  <2>1. /\ obj' = obj /\ step = "next" /\ step' = "idle"
        /\ gen' = [gen EXCEPT ![q].ended = "done"]
        /\ result[obj[q].handle].cursor >= result[obj[q].handle].last
    BY <1>10 DEF EndOfResult, Goto
  <2>2. InResult(q, 1) /\ ~gen[q].on
    BY <1>1, <2>1 DEF MethodSound
  <2>3. /\ gen'[q].base = gen[q].base /\ gen'[q].taken = gen[q].taken
        /\ gen'[q].row = gen[q].row /\ ~gen'[q].on
    BY <1>1, <2>1, <2>2 DEF Generators
  <2>4. obj[q].alive /\ gen[q].base # 0
    BY <2>2 DEF InResult
  <2>5. Iterating(q) /\ ~Iterating(q)'
    BY <1>2, <2>1, <2>3 DEF Iterating
  <2>6. Due(q) = StopRow(q)
    <3>1. CursorSound(q) /\ obj[q].handle \in Handles
      BY <1>1, <2>2, Fields DEF InResult, ObjectSound
    <3>2. result[obj[q].handle].cursor \in Nat /\ result[obj[q].handle].last \in Nat
      BY <1>1, <3>1, Fields
    <3>3. StopRow(q) \in Nat /\ obj[q].offset \in Nat
      BY <1>1, ResultTypes, Fields
    <3>4. StopRow(q) = result[obj[q].handle].cursor + 1
      BY <2>1, <3>1, <3>2, <3>3 DEF CursorSound
    <3>. QED
      BY <2>2, <3>4 DEF InResult
  <2>. QED
    BY <2>1, <2>3, <2>4, <2>5, <2>6, StreamEnds
<1>11. CASE Column
  <2>1. obj' = obj /\ step = "columns" /\ InResult(q, 0)
    BY <1>1, <1>11 DEF Column, MethodSound
  <2>2. CASE gen' = [gen EXCEPT ![q].col = @ + 1] /\ UNCHANGED step
    <3>1. /\ gen'[q].base = gen[q].base /\ gen'[q].taken = gen[q].taken
          /\ gen'[q].row = gen[q].row
      BY <1>1, <2>2 DEF Generators
    <3>2. Iterating(q) /\ Iterating(q)'
      BY <1>2, <2>1, <2>2 DEF Iterating
    <3>. QED
      BY <2>1, <3>1, <3>2, StreamKept
  <2>3. CASE /\ gen[q].col = Columns
             /\ gen' = [gen EXCEPT ![q] = [@ EXCEPT
                           !.on = TRUE, !.taken = gen[q].taken + 1,
                           !.row = result[obj[q].handle].cursor]]
    <3>. DEFINE c == result[obj[q].handle].cursor
    <3>1. CursorSound(q) /\ obj[q].alive /\ gen[q].base # 0 /\ Due(q) = c
      BY <1>1, <2>1, Fields DEF InResult, ObjectSound
    <3>2. c \in Nat /\ gen[q].taken \in Nat /\ obj[q].handle \in Handles
      BY <1>1, <2>1, Fields DEF InResult
    <3>3. gen'[q] = [gen[q] EXCEPT !.on = TRUE, !.taken = gen[q].taken + 1, !.row = c]
      BY <1>1, <2>3
    <3>4. /\ gen'[q].on /\ gen'[q].taken = gen[q].taken + 1
          /\ gen'[q].row = c /\ gen'[q].base = gen[q].base
      BY <1>1, <2>3, <3>2, <3>3, YieldTypes
    <3>5. Stage(q) = "on" /\ Stage(q)' = "on"
      BY <2>1, <3>1, <3>4 DEF Stage, Iterating
    <3>6. StopRow(q)' = StopRow(q) /\ c < StopRow(q)
      BY <2>1, <3>1 DEF StopRow, CursorSound
    <3>7. NextOf(q) = c /\ NextOf(q)' = c + 1
      BY <3>1, <3>2, <3>4, <3>5 DEF NextOf, Due
    <3>. QED
      BY <3>5, <3>6, <3>7 DEF Takes, StopOf
  <2>. QED
    BY <1>11, <2>2, <2>3 DEF Column
<1>12. CASE CloseNothing \/ CloseFree \/ CloseFails
  <2>1. ~gen[q].on /\ obj[q].alive /\ step \in ClosingSteps /\ step' = "idle"
    BY <1>1, <1>12
       DEF CloseNothing, CloseFree, CloseFails, ClosingSteps, MethodSound, Raise, Goto
  <2>2. CASE step = "dropping"
    <3>1. obj'[q] = NoObject
      BY <1>1, <1>12, <2>2 DEF CloseNothing, CloseFree, CloseFails, Released
    <3>2. ~obj'[q].alive /\ ~Iterating(q)
      BY <2>1, <2>2, <3>1, FreshTypes DEF Iterating
    <3>. QED
      BY <3>2, StreamForgets
  <2>3. CASE step # "dropping"
    <3>1. /\ obj'[q].alive <=> obj[q].alive
          /\ obj'[q].offset = obj[q].offset /\ obj'[q].limit = obj[q].limit
      <4>1. obj'[q] = obj[q] \/ obj'[q] = [obj[q] EXCEPT !.handle = 0, !.order = FALSE]
        BY <1>1, <1>12, <2>3 DEF CloseNothing, CloseFree, CloseFails, Released
      <4>. QED
        BY <1>1, <4>1 DEF Objects
    <3>2. /\ gen'[q].base = gen[q].base /\ gen'[q].taken = gen[q].taken
          /\ gen'[q].row = gen[q].row /\ ~gen'[q].on
          /\ \/ gen'[q].ended = gen[q].ended
             \/ gen'[q].ended = "raised" /\ step = "ending"
      <4>1. \/ gen' = gen
            \/ step = "ending" /\ gen' = [gen EXCEPT ![q].on = FALSE, ![q].ended = "raised"]
        BY <1>12 DEF CloseNothing, CloseFree, CloseFails, Raise
      <4>2. CASE gen' = gen
        BY <2>1, <4>2
      <4>3. CASE step = "ending" /\ gen' = [gen EXCEPT ![q].on = FALSE, ![q].ended = "raised"]
        BY <1>1, <4>3 DEF Generators
      <4>. QED
        BY <4>1, <4>2, <4>3
    <3>3. ~Iterating(q)'
      BY <2>1, <3>2 DEF Iterating
    <3>4. CASE ~Iterating(q)
      <4>1. gen'[q].ended = gen[q].ended
        BY <3>2, <3>4 DEF Iterating
      <4>. QED
        BY <3>1, <3>2, <3>3, <3>4, <4>1, StreamKept
    <3>5. CASE Iterating(q) /\ gen[q].base = 0
      BY <3>2, <3>5 DEF Kept, Stage, NextOf, StopOf
    <3>6. CASE Iterating(q) /\ gen[q].base # 0
      <4>1. gen'[q].ended # "done"
        BY <1>1, <2>1, <3>2, <3>6 DEF Iterating, ClosingSteps, MethodSound
      <4>. QED
        BY <2>1, <3>1, <3>2, <3>3, <3>6, <4>1, StreamEnds
    <3>. QED
      BY <3>4, <3>5, <3>6
  <2>. QED
    BY <2>2, <2>3
<1>. QED
  BY <1>6, <1>7, <1>8, <1>9, <1>10, <1>11, <1>12 DEF Running

\* A query object in GenQuery2 mode implements RowStream, whatever the offset
\* and the limit: handles, cursors, columns and closing are not seen through it.
THEOREM CursorMakesAStream == Spec => Streams
<1>1. Init => Stream!Init
  <2>. SUFFICES ASSUME Init PROVE Stream!Init
    OBVIOUS
  <2>1. ASSUME NEW q \in Queries PROVE Stage(q) = "none" /\ NextOf(q) = 0
    BY FreshTypes DEF Init, Stage, NextOf
  <2>. QED
    BY <2>1 DEF Stream!Init
<1>2. IInv /\ IInv' /\ [Next]_vars => [Stream!Next]_(Stream!vars)
  <2>. SUFFICES ASSUME IInv, IInv', [Next]_vars PROVE [Stream!Next]_(Stream!vars)
    OBVIOUS
  <2>1. CASE Running
    <3>1. PICK q \in Queries : q = me
      BY DEF IInv, TypeOK
    <3>. QED
      BY <2>1, <3>1, RunningStreams
  <2>2. CASE \E q \in Queries : Using(q)
    BY <2>2, UsingStreams
  <2>3. CASE \E q, p \in Queries : Copy(q, p)
    BY <2>3, CopyStreams
  <2>4. CASE UNCHANGED vars
    <3>1. ASSUME NEW q \in Queries PROVE Kept(q)
      BY <2>4 DEF vars, Kept, Stage, NextOf, StopOf, StopRow, Iterating
    <3>2. me \in Queries
      BY DEF IInv, TypeOK
    <3>. QED
      BY <3>1, <3>2, StreamStep
  <2>. QED
    BY <2>1, <2>2, <2>3, <2>4 DEF Next
<1>. QED
  BY <1>1, <1>2, Invariant, PTL DEF Spec, Streams, Stream!Spec

-----------------------------------------------------------------------------
\* paged_iterator.

\* What NoRowSkipped, StopMeansAll and ShortPageIsLast rest on: the list is
\* empty between two calls; a generator that ended without raising has yielded
\* everything; and after a short page there is nothing left to put in a list.
GeneratorOK ==
    /\ call = "idle" => j = 0
    /\ generator = "ended" => given = RowTotal
    /\ outcome \in {"short", "stop"} => generator # "on" /\ j = 0

PageInv == PageTypeOK /\ NoRowSkipped /\ StopMeansAll /\ GeneratorOK

\* The larger of two integers, and the smaller.
LEMMA MaxOfTwo == ASSUME NEW m \in Int, NEW n \in Int
                  PROVE  Max({m, n}) = IF m >= n THEN m ELSE n
  <1> DEFINE larger == IF m >= n THEN m ELSE n
  <1>1. larger \in {m, n} /\ \A y \in {m, n} : larger >= y
    OBVIOUS
  <1>2. \A x \in {m, n} : (\A y \in {m, n} : x >= y) => x = larger
    OBVIOUS
  <1> HIDE DEF larger
  <1>3. Max({m, n}) = larger
    BY <1>1, <1>2 DEF Max
  <1> QED BY <1>3 DEF larger

LEMMA MinOfTwo == ASSUME NEW m \in Int, NEW n \in Int
                  PROVE  Min({m, n}) = IF m <= n THEN m ELSE n
  <1> DEFINE smaller == IF m <= n THEN m ELSE n
  <1>1. smaller \in {m, n} /\ \A y \in {m, n} : smaller <= y
    OBVIOUS
  <1>2. \A x \in {m, n} : (\A y \in {m, n} : x <= y) => x = smaller
    OBVIOUS
  <1> HIDE DEF smaller
  <1>3. Min({m, n}) = smaller
    BY <1>1, <1>2 DEF Min
  <1> QED BY <1>3 DEF smaller

\* set_rows_per_page always leaves room for a row, and the constructor for at
\* most MAX_SQL_ROWS.
LEMMA RowsPerPageFacts ==
    ASSUME NEW n \in Int, NEW hard \in BOOLEAN
    PROVE  /\ RowsPerPage(n, hard) \in Nat \ {0}
           /\ hard => RowsPerPage(n, hard) <= MaxSqlRows
  <1>1. Max({1, n}) \in Nat \ {0}
    BY MaxOfTwo
  <1>2. Min({Max({1, n}), MaxSqlRows}) \in 1..MaxSqlRows
    BY <1>1, MinOfTwo, PageSizesAssumption
  <1> QED BY <1>1, <1>2, PageSizesAssumption DEF RowsPerPage

\* The invariant holds before the first page.
LEMMA PageInitInv == PageInit => PageInv
  <1> SUFFICES ASSUME PageInit PROVE PageInv
    OBVIOUS
  <1>1. size \in Nat \ {0}
    BY RowsPerPageFacts, PageSizesAssumption DEF PageInit
  <1>2. /\ given = 0 /\ generator = "on" /\ call = "idle" /\ j = 0
        /\ delivered = 0 /\ outcome = "none"
    BY DEF PageInit
  <1> QED BY <1>1, <1>2, PageSizesAssumption DEF PageInv, PageTypeOK, NoRowSkipped, StopMeansAll, GeneratorOK

\* Every step keeps it.
LEMMA PageNextInv == PageInv /\ [PageNext]_pageVars => PageInv'
  <1> SUFFICES ASSUME PageInv, [PageNext]_pageVars PROVE PageInv'
    OBVIOUS
  <1> USE PageSizesAssumption DEF PageInv, PageTypeOK, NoRowSkipped, StopMeansAll, GeneratorOK
  <1>1. CASE SetRowsPerPage
    <2>1. size' \in Nat \ {0}
      BY <1>1, RowsPerPageFacts DEF SetRowsPerPage
    <2>2. call = "idle" /\ UNCHANGED <<given, generator, call, j, delivered, outcome>>
      BY <1>1 DEF SetRowsPerPage
    <2> QED BY <2>1, <2>2
  <1>2. CASE CallNext
    BY <1>2 DEF CallNext
  <1>3. CASE TakeRow
    BY <1>3 DEF TakeRow, WantsRow, NoRowLeft
  <1>4. CASE RowFails
    BY <1>4 DEF RowFails, WantsRow
  <1>5. CASE PageFull
    BY <1>5 DEF PageFull, Return
  <1>6. CASE PageEnds
    BY <1>6 DEF PageEnds, Return, WantsRow, NoRowLeft, AfterLast
  <1>7. CASE UNCHANGED pageVars
    BY <1>7 DEF pageVars
  <1> QED BY <1>1, <1>2, <1>3, <1>4, <1>5, <1>6, <1>7 DEF PageNext

\* The inductive invariant of paged_iterator.
THEOREM PagesInvariant == PageSpec => []PageInv
  BY PageInitInv, PageNextInv, PTL DEF PageSpec

\* A page has room for a row, and the list never more rows than places.
THEOREM PagesTypeCorrect == PageSpec => []PageTypeOK
  BY PagesInvariant, PTL DEF PageInv

\* Until the generator raises, every row it has yielded is in exactly one page
\* or in the list next() is filling.
THEOREM NothingSkipped == PageSpec => []NoRowSkipped
  BY PagesInvariant, PTL DEF PageInv

\* StopIteration means that every row was delivered.
THEOREM StopIsComplete == PageSpec => []StopMeansAll
  BY PagesInvariant, PTL DEF PageInv

\* No page follows a page that was not full.
THEOREM ShortIsLast == PageSpec => ShortPageIsLast
  <1>1. PageInv /\ [PageNext]_pageVars => [NothingAfterShort]_pageVars
    <2> SUFFICES ASSUME PageInv, [PageNext]_pageVars, outcome \in {"short", "stop"}
                 PROVE  delivered' = delivered
      BY DEF NothingAfterShort
    <2>1. generator # "on" /\ j = 0 /\ delivered \in Nat
      BY DEF PageInv, PageTypeOK, GeneratorOK
    <2>2. CASE SetRowsPerPage
      BY <2>2 DEF SetRowsPerPage
    <2>3. CASE CallNext \/ TakeRow \/ RowFails \/ UNCHANGED pageVars
      BY <2>3 DEF CallNext, TakeRow, RowFails, pageVars
    <2>4. CASE PageFull \/ PageEnds
      BY <2>1, <2>4 DEF PageFull, PageEnds, Return
    <2> QED BY <2>2, <2>3, <2>4 DEF PageNext
  <1> QED BY <1>1, PagesInvariant, PTL DEF PageSpec, ShortPageIsLast
=============================================================================
