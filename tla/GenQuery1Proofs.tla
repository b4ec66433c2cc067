---------------------------- MODULE GenQuery1Proofs ----------------------------
(***************************************************************************)
(* Proofs about Query with Parser.GENQUERY1, for any number of objects,    *)
(* rows, rows in a page and statements.                                    *)
(***************************************************************************)
EXTENDS GenQuery1, TLAPS

\* copy() is asked for offset 0 or none of its own: RETURN_TOTAL_ROW_COUNT, which
\* may come along, does no harm.
CopiesFromStart == CopyOffsets \subseteq {0}

\* The object asks for a row count and an offset at once, and gets no rows.
Miscounted(q) == obj[q].count /\ obj[q].offset > 0

Firsts == 1..(Total + 1) \cup {o + 1 : o \in Offsets \cup CopyOffsets}

\* What holds of the page an object has: it lies within the rows there are, its
\* total is one that was asked for, and the open statement goes on behind it.
PageSound(q) ==
    /\ obj[q].gqo.first \in Firsts
    /\ obj[q].gqo.rows > 0 => After(obj[q].gqo) <= Total + 1
    /\ obj[q].count => obj[q].gqo.total = Total
    /\ obj[q].cti # 0 => stmts[obj[q].cti] = After(obj[q].gqo)
    /\ (obj[q].cti = 0 /\ ~obj[q].auto /\ ~Miscounted(q)) => After(obj[q].gqo) > Total

\* An object has a page only when executed, a continue index only with a page.
ObjectSound(q) ==
    /\ ~obj[q].alive => obj[q].cti = 0
    /\ obj[q].alive => obj[q].offset \in Offsets \cup CopyOffsets
    /\ HasPage(q) => Executed(q) /\ PageSound(q)
    /\ obj[q].cti # 0 => HasPage(q)
    /\ CopiesFromStart => ~Miscounted(q)
    /\ obj[q].total \in {NoTotal, Total}

\* An iteration in progress: the row to yield next follows the latest one.
InPage(q) ==
    /\ obj[q].alive /\ HasPage(q)
    /\ gen[q].base # 0
    /\ gen[q].base + gen[q].rowi = obj[q].gqo.first + gen[q].r
    /\ gen[q].r <= obj[q].gqo.rows
    /\ gen[q].auto = obj[q].auto
    /\ gen[q].ended = "none"

\* What holds of the latest iteration of an object, in progress or not.
IterationSound(q) ==
    /\ gen[q].on => InPage(q) /\ gen[q].rowi > 0
    /\ gen[q].rowi > 0 => /\ gen[q].row = gen[q].base + gen[q].rowi - 1
                          /\ gen[q].base + gen[q].rowi <= Total + 1
    /\ (obj[q].alive /\ obj[q].limit # 0) => gen[q].rowi <= obj[q].limit
    /\ (obj[q].alive /\ gen[q].ended = "done" /\ ~gen[q].auto /\ ~Miscounted(q)) =>
          gen[q].rowi = Wanted(q)

\* Where a method is, what it has found.
MethodSound ==
    /\ step # "idle" => obj[me].alive
    /\ step \notin {"idle", "countexec", "countclose"} => ~gen[me].on
    /\ step \in {"exec", "totalexec"} => ~Executed(me)
    /\ step = "exec" => gen[me] = NoGenerator
    /\ step = "totalexec" => obj[me].offset = 0
    /\ step \in {"rows", "fetch"} => InPage(me)
    /\ step = "fetch" => /\ gen[me].r = obj[me].gqo.rows
                         /\ obj[me].cti # 0
                         /\ ~LimitReached(me)

\* The temporary copy of total_rows() holds a statement only to close it.
CopySound == copyCti # 0 => stmts[copyCti] # 0 /\ step = "countclose"

Sound ==
    /\ StatementsOwned
    /\ CopySound
    /\ MethodSound
    /\ \A q \in Queries : ObjectSound(q) /\ IterationSound(q)

IInv == TypeOK /\ Sound

-----------------------------------------------------------------------------
\* Pages and the server.

\* What the server answers with, when asked for at most max rows from first on.
LEMMA Pages ==
    ASSUME NEW first \in Nat, NEW max \in 0..MaxSqlRows, NEW count \in BOOLEAN
    PROVE  /\ PageAt(first, max, count) \in Page
           /\ PageAt(first, max, count).first = first
           /\ PageAt(first, max, count).rows <= max
           /\ PageAt(first, max, count).rows > 0 => After(PageAt(first, max, count)) <= Total + 1
           /\ PageAt(first, max, count).rows < max => After(PageAt(first, max, count)) > Total
           /\ count => PageAt(first, max, count).total = Total
<1>. DEFINE n == IF first > Total THEN 0
                ELSE IF Total + 1 - first < max THEN Total + 1 - first ELSE max
            t == IF count THEN Total ELSE 0
<1>1. PageAt(first, max, count) = [first |-> first, rows |-> n, total |-> t]
  BY DEF PageAt
<1>2. /\ n \in 0..max /\ n <= MaxSqlRows
      /\ n > 0 => first + n <= Total + 1
      /\ n < max => first + n > Total
  BY SizesAssumption
<1>3. t \in {0, Total} /\ (count => t = Total)
  OBVIOUS
<1>. HIDE DEF n, t
<1>4. PageAt(first, max, count) \in Page
  BY <1>1, <1>2, <1>3, SizesAssumption DEF Page
<1>. QED
  BY <1>1, <1>2, <1>3, <1>4 DEF After

LEMMA FirstPages ==
    ASSUME NEW offset \in Nat, NEW max \in 0..MaxSqlRows, NEW count \in BOOLEAN
    PROVE  /\ FirstPage(offset, max, count) \in Page
           /\ FirstPage(offset, max, count).first = offset + 1
           /\ FirstPage(offset, max, count).rows <= max
           /\ FirstPage(offset, max, count).rows > 0 =>
                 After(FirstPage(offset, max, count)) <= Total + 1
           /\ ~(count /\ offset > 0) /\ FirstPage(offset, max, count).rows < max =>
                 After(FirstPage(offset, max, count)) > Total
           /\ count => FirstPage(offset, max, count).total = Total
<1>1. CASE ~(count /\ offset > 0)
  <2>1. FirstPage(offset, max, count) = PageAt(offset + 1, max, count)
    BY <1>1 DEF FirstPage
  <2>. QED
    BY <1>1, <2>1, Pages
<1>2. CASE count /\ offset > 0
  <2>1. offset + 1 \in Nat /\ 0 \in 0..MaxSqlRows
    BY SizesAssumption
  <2>2. PICK page \in Page : /\ page.first = offset + 1 /\ page.total = Total
                             /\ page = PageAt(offset + 1, 0, count)
    BY <1>2, <2>1, Pages
  <2>3. FirstPage(offset, max, count) = [page EXCEPT !.rows = 0]
    BY <1>2, <2>2 DEF FirstPage
  <2>4. /\ [page EXCEPT !.rows = 0] \in Page
        /\ [page EXCEPT !.rows = 0].first = offset + 1
        /\ [page EXCEPT !.rows = 0].rows = 0
        /\ [page EXCEPT !.rows = 0].total = Total
    BY <2>1, <2>2 DEF Page
  <2>5. /\ FirstPage(offset, max, count) \in Page
        /\ FirstPage(offset, max, count).first = offset + 1
        /\ FirstPage(offset, max, count).rows = 0
        /\ FirstPage(offset, max, count).total = Total
    BY <2>3, <2>4
  <2>6. 0 <= max /\ ~(0 > 0)
    BY SizesAssumption
  <2>. QED
    BY <1>2, <2>5, <2>6
<1>. QED
  BY <1>1, <1>2

\* A query is executed: at most one statement is opened, in a free slot.
LEMMA Opened ==
    ASSUME stmts \in [Slots -> 0..(Total + 1)],
           NEW page \in Page, NEW max \in Nat, NEW c \in {0} \cup Slots,
           page.first > 0,
           page.rows = max => After(page) <= Total + 1,
           Opens(c, page, max)
    PROVE  /\ stmts' \in [Slots -> 0..(Total + 1)]
           /\ \A s \in Slots : s # c => stmts'[s] = stmts[s]
           /\ c # 0 => stmts[c] = 0 /\ stmts'[c] = After(page) /\ stmts'[c] # 0
           /\ c = 0 => After(page) > Total \/ page.rows < max \/ max = 0
<1>1. 0 \notin Slots
  BY DEF Slots
<1>2. After(page) \in Nat /\ After(page) # 0
  BY DEF After, Page
<1>3. CASE c = 0
  BY <1>1, <1>3 DEF Opens
<1>4. CASE c # 0
  <2>1. /\ c \in Slots /\ stmts[c] = 0 /\ page.rows = max
        /\ stmts' = [stmts EXCEPT ![c] = After(page)]
    BY <1>4 DEF Opens
  <2>2. After(page) \in 0..(Total + 1)
    BY <1>2, <2>1, SizesAssumption
  <2>. QED
    BY <1>2, <1>4, <2>1, <2>2
<1>. QED
  BY <1>3, <1>4

\* More rows are fetched: the statement goes on behind them, or is closed.
LEMMA Fetched ==
    ASSUME stmts \in [Slots -> 0..(Total + 1)],
           NEW s \in Slots, NEW auto, NEW page \in Page, NEW c,
           page.first = stmts[s],
           page.rows > 0 => After(page) <= Total + 1,
           Fetches(s, auto, page, c)
    PROVE  /\ stmts' \in [Slots -> 0..(Total + 1)]
           /\ \A t \in Slots : t # s => stmts'[t] = stmts[t]
           /\ c \in {0, s}
           /\ c = 0 => stmts'[s] = 0
           /\ c = 0 => auto \/ After(page) > Total
           /\ c = s => stmts'[s] = After(page) /\ (stmts[s] # 0 => stmts'[s] # 0)
<1>1. stmts[s] \in 0..(Total + 1) /\ stmts[s] \in Nat /\ s # 0
  BY SizesAssumption DEF Slots
<1>3. After(page) \in Nat /\ (page.rows = MaxSqlRows => After(page) \in 0..(Total + 1))
      /\ (stmts[s] # 0 => After(page) # 0)
  BY <1>1, SizesAssumption DEF After, Page
<1>4. \/ c = 0 /\ (auto \/ After(page) > Total) /\ stmts' = [stmts EXCEPT ![s] = 0]
      \/ c = s /\ page.rows = MaxSqlRows /\ stmts' = [stmts EXCEPT ![s] = After(page)]
  BY DEF Fetches
<1>5. CASE c = 0 /\ (auto \/ After(page) > Total) /\ stmts' = [stmts EXCEPT ![s] = 0]
  <2>1. 0 \in 0..(Total + 1)
    BY SizesAssumption
  <2>. QED
    BY <1>1, <1>5, <2>1
<1>6. CASE c = s /\ page.rows = MaxSqlRows /\ stmts' = [stmts EXCEPT ![s] = After(page)]
  BY <1>1, <1>3, <1>6
<1>. QED
  BY <1>4, <1>5, <1>6

-----------------------------------------------------------------------------
\* What each call of a microservice brings.

LEMMA MaxRowsBound ==
    ASSUME TypeOK, NEW q \in Queries
    PROVE  MaxRows(q) \in 1..MaxSqlRows
<1>1. obj[q].limit \in Nat
  BY DEF TypeOK, Objects
<1>. QED
  BY <1>1, SizesAssumption DEF MaxRows

LEMMA Executes ==
    ASSUME TypeOK, Exec
    PROVE  \E page \in Page, c \in {0} \cup Slots :
              /\ page.first = obj[me].offset + 1
              /\ page.rows > 0 => After(page) <= Total + 1
              /\ Counting(me) => page.total = Total
              /\ c = 0 /\ ~(Counting(me) /\ obj[me].offset > 0) => After(page) > Total
              /\ stmts' \in [Slots -> 0..(Total + 1)]
              /\ \A s \in Slots : s # c => stmts'[s] = stmts[s]
              /\ c # 0 => stmts[c] = 0 /\ stmts'[c] = After(page) /\ stmts'[c] # 0
              /\ obj' = [obj EXCEPT ![me] = [@ EXCEPT
                            !.gqi = TRUE, !.gqo = page, !.cti = c, !.auto = FALSE,
                            !.count = Counting(me),
                            !.total = IF step = "exec" THEN NoTotal ELSE page.total]]
              /\ step = "exec" => gen' = [gen EXCEPT ![me].base = page.first]
<1>. DEFINE max == MaxRows(me)
            page == FirstPage(obj[me].offset, MaxRows(me), Counting(me))
<1>1. PICK c \in {0} \cup Slots :
         /\ Opens(c, page, max)
         /\ obj' = [obj EXCEPT ![me] = [@ EXCEPT
                       !.gqi = TRUE, !.gqo = page, !.cti = c, !.auto = FALSE,
                       !.count = Counting(me),
                       !.total = IF step = "exec" THEN NoTotal ELSE page.total]]
         /\ step = "exec" => gen' = [gen EXCEPT ![me].base = page.first]
  BY DEF Exec
<1>2. /\ me \in Queries /\ obj[me].offset \in Nat /\ obj[me].count \in BOOLEAN
      /\ stmts \in [Slots -> 0..(Total + 1)]
  BY DEF TypeOK, Objects
<1>3. Counting(me) \in BOOLEAN
  BY <1>2 DEF Counting
<1>4. max \in 1..MaxSqlRows
  BY <1>2, MaxRowsBound
<1>5. max \in 0..MaxSqlRows /\ max \in Nat /\ max # 0 /\ max > 0
  BY <1>4, SizesAssumption
<1>6. /\ page \in Page
      /\ page.first = obj[me].offset + 1
      /\ page.rows > 0 => After(page) <= Total + 1
      /\ ~(Counting(me) /\ obj[me].offset > 0) /\ page.rows < max => After(page) > Total
      /\ Counting(me) => page.total = Total
  BY <1>2, <1>3, <1>5, FirstPages
<1>. HIDE DEF page, max
<1>7. page.first > 0 /\ (page.rows = max => After(page) <= Total + 1)
  BY <1>2, <1>5, <1>6
<1>8. /\ stmts' \in [Slots -> 0..(Total + 1)]
      /\ \A s \in Slots : s # c => stmts'[s] = stmts[s]
      /\ c # 0 => stmts[c] = 0 /\ stmts'[c] = After(page) /\ stmts'[c] # 0
      /\ c = 0 => After(page) > Total \/ page.rows < max \/ max = 0
  BY <1>1, <1>2, <1>5, <1>6, <1>7, Opened
<1>9. c = 0 /\ ~(Counting(me) /\ obj[me].offset > 0) => After(page) > Total
  BY <1>5, <1>6, <1>8
<1>. QED
  BY <1>1, <1>6, <1>8, <1>9

LEMMA Fetching ==
    ASSUME TypeOK, Fetch, obj[me].cti # 0, stmts[obj[me].cti] # 0
    PROVE  \E page \in Page, c \in {0, obj[me].cti} :
              /\ page.first = stmts[obj[me].cti]
              /\ page.rows > 0 => After(page) <= Total + 1
              /\ obj[me].count => page.total = Total
              /\ c = 0 /\ ~obj[me].auto => After(page) > Total
              /\ stmts' \in [Slots -> 0..(Total + 1)]
              /\ \A s \in Slots : s # obj[me].cti => stmts'[s] = stmts[s]
              /\ c = 0 => stmts'[obj[me].cti] = 0
              /\ c # 0 => stmts'[c] = After(page) /\ stmts'[c] # 0
              /\ obj' = [obj EXCEPT ![me].gqo = page, ![me].cti = c]
<1>. DEFINE t == obj[me].cti
            auto == obj[me].auto
            count == obj[me].count
            page == PageAt(stmts[t], MaxSqlRows, count)
<1>1. /\ me \in Queries /\ count \in BOOLEAN /\ t \in Slots
      /\ stmts \in [Slots -> 0..(Total + 1)]
  BY DEF TypeOK, Objects
<1>2. PICK c \in {0} \cup Slots :
         /\ Fetches(t, auto, page, c)
         /\ obj' = [obj EXCEPT ![me].gqo = page, ![me].cti = c]
  BY DEF Fetch
<1>3. stmts[t] \in Nat /\ stmts[t] # 0 /\ MaxSqlRows \in 0..MaxSqlRows
  BY <1>1, SizesAssumption
<1>. HIDE DEF t, auto, count
<1>4. /\ page \in Page
      /\ page.first = stmts[t]
      /\ page.rows > 0 => After(page) <= Total + 1
      /\ count => page.total = Total
  BY <1>1, <1>3, Pages
<1>. HIDE DEF page
<1>5. /\ stmts' \in [Slots -> 0..(Total + 1)]
      /\ \A s \in Slots : s # t => stmts'[s] = stmts[s]
      /\ c \in {0, t}
      /\ c = 0 => stmts'[t] = 0
      /\ c = 0 => auto \/ After(page) > Total
      /\ c = t => stmts'[t] = After(page) /\ (stmts[t] # 0 => stmts'[t] # 0)
  BY <1>1, <1>2, <1>4, Fetched
<1>6. c # 0 => stmts'[c] = After(page) /\ stmts'[c] # 0
  BY <1>3, <1>5
<1>. QED
  BY <1>2, <1>4, <1>5, <1>6 DEF t, auto, count

\* A fetch with AUTO_CLOSE closes the statement.
LEMMA Closing ==
    ASSUME TypeOK, NEW s \in Slots, NEW count \in BOOLEAN,
           Fetches(s, TRUE, PageAt(stmts[s], MaxSqlRows, count), 0)
    PROVE  /\ stmts' \in [Slots -> 0..(Total + 1)]
           /\ \A t \in Slots : t # s => stmts'[t] = stmts[t]
           /\ stmts'[s] = 0
<1>1. stmts \in [Slots -> 0..(Total + 1)]
  BY DEF TypeOK
<1>2. stmts[s] \in Nat /\ MaxSqlRows \in 0..MaxSqlRows
  BY <1>1, SizesAssumption
<1>3. PICK page \in Page : /\ page.first = stmts[s]
                           /\ page.rows > 0 => After(page) <= Total + 1
                           /\ page = PageAt(stmts[s], MaxSqlRows, count)
  BY <1>2, Pages
<1>4. Fetches(s, TRUE, page, 0)
  BY <1>3
<1>. QED
  BY <1>1, <1>3, <1>4, Fetched

LEMMA Counted ==
    ASSUME TypeOK, CountExec
    PROVE  \E c \in {0} \cup Slots :
              /\ stmts' \in [Slots -> 0..(Total + 1)]
              /\ \A s \in Slots : s # c => stmts'[s] = stmts[s]
              /\ c # 0 => stmts[c] = 0 /\ stmts'[c] # 0
              /\ copyCti' = c
              /\ obj' = [obj EXCEPT ![me].total = Total]
<1>. DEFINE page == FirstPage(0, 0, TRUE)
            max == 0
<1>1. PICK c \in {0} \cup Slots :
         /\ Opens(c, page, max)
         /\ copyCti' = c
         /\ obj' = [obj EXCEPT ![me].total = page.total]
  BY DEF CountExec
<1>2. 0 \in Nat /\ 0 \in 0..MaxSqlRows /\ TRUE \in BOOLEAN
  BY SizesAssumption
<1>3. page \in Page /\ page.first = 0 + 1 /\ page.rows <= 0 /\ page.total = Total
  BY <1>2, FirstPages
<1>. HIDE DEF page
<1>4. page.first > 0 /\ After(page) <= Total + 1
  BY <1>3, SizesAssumption DEF After, Page
<1>5. stmts \in [Slots -> 0..(Total + 1)] /\ max \in Nat
  BY DEF TypeOK
<1>. HIDE DEF max
<1>6. /\ stmts' \in [Slots -> 0..(Total + 1)]
      /\ \A s \in Slots : s # c => stmts'[s] = stmts[s]
      /\ c # 0 => stmts[c] = 0 /\ stmts'[c] # 0
  BY <1>1, <1>2, <1>3, <1>4, <1>5, Opened
<1>. QED
  BY <1>1, <1>3, <1>6

-----------------------------------------------------------------------------
\* Types.

LEMMA NewTypes ==
    ASSUME NEW offset \in Nat, NEW limit \in Nat, NEW count \in BOOLEAN
    PROVE  NewObject(offset, limit, count) \in Objects
<1>1. NoPage \in Page
  BY SizesAssumption DEF NoPage, Page
<1>. QED
  BY <1>1 DEF NewObject, Objects, NoTotal

LEMMA NoTypes == NoObject \in Objects /\ NoGenerator \in Generators
<1>1. NewObject(0, 0, FALSE) \in Objects
  BY NewTypes
<1>2. NoObject \in Objects
  BY <1>1 DEF NoObject, Objects
<1>3. NoGenerator \in Generators
  BY DEF NoGenerator, Generators
<1>. QED
  BY <1>2, <1>3

LEMMA InitTypes == Init => TypeOK
<1>. SUFFICES ASSUME Init PROVE TypeOK
  OBVIOUS
<1>1. obj \in [Queries -> Objects] /\ gen \in [Queries -> Generators]
  BY NoTypes DEF Init
<1>2. stmts \in [Slots -> 0..(Total + 1)]
  BY SizesAssumption DEF Init
<1>. QED
  BY <1>1, <1>2 DEF Init, TypeOK, Steps

LEMMA ClosedType == \A o \in Objects : Closed(o) \in Objects
<1>1. NoPage \in Page
  BY SizesAssumption DEF NoPage, Page
<1>. QED
  BY <1>1 DEF Closed, Objects

\* The typed change of one object, of one generator.
LEMMA ObjectTypes ==
    ASSUME NEW o \in Objects, NEW page \in Page, NEW c \in {0} \cup Slots,
           NEW t \in {NoTotal, 0, Total}, NEW a \in BOOLEAN, NEW b \in BOOLEAN
    PROVE  /\ [o EXCEPT !.gqi = TRUE, !.gqo = page, !.cti = c, !.auto = FALSE,
                         !.count = b, !.total = t] \in Objects
           /\ [[[o EXCEPT !.gqi = TRUE] EXCEPT !.count = b] EXCEPT !.auto = FALSE] \in Objects
           /\ [[o EXCEPT !.gqo = page] EXCEPT !.cti = c] \in Objects
           /\ [o EXCEPT !.auto = a] \in Objects
           /\ [o EXCEPT !.total = t] \in Objects
           /\ Closed(o) \in Objects
<1>1. NoPage \in Page
  BY SizesAssumption DEF NoPage, Page
<1>. QED
  BY <1>1 DEF Closed, Objects

LEMMA GeneratorTypes ==
    ASSUME NEW g \in Generators, NEW n \in Nat, NEW b \in BOOLEAN,
           NEW e \in {"none", "done", "aborted", "raised"}
    PROVE  /\ [g EXCEPT !.base = n] \in Generators
           /\ [g EXCEPT !.r = n] \in Generators
           /\ [g EXCEPT !.on = b] \in Generators
           /\ [g EXCEPT !.ended = e] \in Generators
           /\ [[g EXCEPT !.on = b] EXCEPT !.ended = e] \in Generators
           /\ [g EXCEPT !.on = TRUE, !.r = g.r + 1, !.rowi = g.rowi + 1, !.row = n] \in Generators
           /\ [g EXCEPT !.base = n, !.auto = b] \in Generators
<1>1. g.r + 1 \in Nat /\ g.rowi + 1 \in Nat
  BY DEF Generators
<1>2. [g EXCEPT !.on = TRUE, !.r = g.r + 1, !.rowi = g.rowi + 1, !.row = n] \in Generators
  BY <1>1 DEF Generators
<1>3. [g EXCEPT !.base = n, !.auto = b] \in Generators
  BY DEF Generators
<1>4. /\ [g EXCEPT !.base = n] \in Generators
      /\ [g EXCEPT !.r = n] \in Generators
      /\ [g EXCEPT !.on = b] \in Generators
  BY DEF Generators
<1>5. /\ [g EXCEPT !.ended = e] \in Generators
      /\ [[g EXCEPT !.on = b] EXCEPT !.ended = e] \in Generators
  BY DEF Generators
<1>. QED
  BY <1>2, <1>3, <1>4, <1>5

\* One object or one generator is assigned.
LEMMA Assigned ==
    ASSUME TypeOK, NEW q \in Queries
    PROVE  /\ \A o \in Objects : [obj EXCEPT ![q] = o] \in [Queries -> Objects]
           /\ \A g \in Generators : [gen EXCEPT ![q] = g] \in [Queries -> Generators]
           /\ obj[q] \in Objects /\ gen[q] \in Generators
  BY DEF TypeOK

LEMMA MethodTypes ==
    ASSUME TypeOK, MethodSound, NEW q \in Queries,
           UNCHANGED <<obj, copyCti, stmts, abandoned>>,
           gen' \in [Queries -> Generators], me' \in Queries, step' \in Steps
    PROVE  TypeOK'
  BY DEF TypeOK

\* One case for each action: what it assigns has its type.
LEMMA TypeStep == IInv /\ [Next]_vars => TypeOK'
<1>. SUFFICES ASSUME IInv, [Next]_vars PROVE TypeOK'
  OBVIOUS
<1>. DEFINE Typed(o, g) == o \in [Queries -> Objects] /\ g \in [Queries -> Generators]
<1>1. /\ TypeOK /\ MethodSound /\ StatementsOwned
      /\ \A q \in Queries : ObjectSound(q)
  BY DEF IInv, Sound
<1>2. /\ Typed(obj, gen) /\ me \in Queries /\ step \in Steps
      /\ copyCti \in {0} \cup Slots
      /\ stmts \in [Slots -> 0..(Total + 1)]
      /\ abandoned \subseteq Slots
  BY <1>1 DEF TypeOK
<1>3. \A q \in Queries :
         /\ obj[q] \in Objects /\ gen[q] \in Generators
         /\ \A o \in Objects : [obj EXCEPT ![q] = o] \in [Queries -> Objects]
         /\ \A g \in Generators : [gen EXCEPT ![q] = g] \in [Queries -> Generators]
  BY <1>1, Assigned
<1>4. ASSUME NEW q \in Queries, New(q) PROVE TypeOK'
  <2>1. PICK offset \in Offsets, limit \in Limits :
           obj' = [obj EXCEPT ![q] = NewObject(offset, limit, FALSE)]
    BY <1>4 DEF New
  <2>2. NewObject(offset, limit, FALSE) \in Objects
    BY NewTypes, ArgumentsAssumption
  <2>3. Typed(obj', gen')
    BY <1>3, <1>4, <2>1, <2>2, NoTypes DEF New
  <2>. QED
    BY <1>2, <1>4, <2>3 DEF New, TypeOK
<1>5. ASSUME NEW q \in Queries, NEW p \in Queries, Copy(q, p) PROVE TypeOK'
  <2>1. PICK offset \in CopyOffsets :
           obj' = [obj EXCEPT ![p] = NewObject(offset, obj[q].limit, obj[q].count)]
    BY <1>5 DEF Copy
  <2>2. NewObject(offset, obj[q].limit, obj[q].count) \in Objects
    <3>1. obj[q].limit \in Nat /\ obj[q].count \in BOOLEAN
      BY <1>3 DEF Objects
    <3>. QED
      BY <3>1, NewTypes, ArgumentsAssumption
  <2>3. Typed(obj', gen')
    BY <1>3, <1>5, <2>1, <2>2, NoTypes DEF Copy
  <2>. QED
    BY <1>2, <1>5, <2>3 DEF Copy, TypeOK
<1>6. ASSUME NEW q \in Queries, Iterate(q) PROVE TypeOK'
  <2>1. obj[q].gqo.first \in Nat /\ obj[q].auto \in BOOLEAN
    BY <1>3 DEF Objects, Page
  <2>2. /\ [NoGenerator EXCEPT !.base = obj[q].gqo.first, !.auto = obj[q].auto] \in Generators
        /\ [NoGenerator EXCEPT !.ended = "raised"] \in Generators
    BY <2>1, NoTypes, GeneratorTypes
  <2>3. gen' \in [Queries -> Generators]
    BY <1>3, <1>6, <2>2, NoTypes DEF Iterate
  <2>4. me' \in Queries /\ step' \in Steps
    BY <1>6 DEF Iterate, Begin, Steps
  <2>. QED
    BY <1>2, <1>6, <2>3, <2>4 DEF Iterate, TypeOK
<1>7. CASE Exec
  <2>1. PICK page \in Page, c \in {0} \cup Slots :
           /\ stmts' \in [Slots -> 0..(Total + 1)]
           /\ obj' = [obj EXCEPT ![me] = [@ EXCEPT
                         !.gqi = TRUE, !.gqo = page, !.cti = c, !.auto = FALSE,
                         !.count = Counting(me),
                         !.total = IF step = "exec" THEN NoTotal ELSE page.total]]
           /\ step = "exec" => gen' = [gen EXCEPT ![me].base = page.first]
    BY <1>1, <1>7, Executes
  <2>2. Counting(me) \in BOOLEAN
    BY DEF Counting
  <2>3. (IF step = "exec" THEN NoTotal ELSE page.total) \in {NoTotal, 0, Total}
    BY DEF Page
  <2>4. obj' \in [Queries -> Objects]
    BY <1>2, <1>3, <2>1, <2>2, <2>3, ObjectTypes
  <2>5. page.first \in Nat
    BY DEF Page
  <2>6. gen' \in [Queries -> Generators]
    <3>1. [gen[me] EXCEPT !.base = page.first] \in Generators
      BY <1>2, <1>3, <2>5 DEF Generators
    <3>2. step = "exec" \/ gen' = gen
      BY <1>7 DEF Exec
    <3>. QED
      BY <1>2, <1>3, <2>1, <3>1, <3>2
  <2>7. step' \in Steps
    BY <1>7 DEF Exec, Goto, Steps
  <2>. QED
    BY <1>2, <1>7, <2>1, <2>4, <2>6, <2>7 DEF Exec, TypeOK
<1>8. CASE ExecFails
  <2>1. Counting(me) \in BOOLEAN /\ obj[me] \in Objects
    BY <1>2, <1>3 DEF Counting
  <2>2. [[[obj[me] EXCEPT !.gqi = TRUE] EXCEPT !.count = Counting(me)] EXCEPT !.auto = FALSE]
            \in Objects
    BY <2>1 DEF Objects
  <2>3. [obj EXCEPT ![me].gqi = TRUE, ![me].count = Counting(me), ![me].auto = FALSE]
            \in [Queries -> Objects]
    BY <1>2, <1>3, <2>2
  <2>4. obj' \in [Queries -> Objects]
    BY <1>2, <1>8, <2>3 DEF ExecFails
  <2>5. [[gen[me] EXCEPT !.on = FALSE] EXCEPT !.ended = "raised"] \in Generators
    BY <1>2, <1>3 DEF Generators
  <2>6. gen' \in [Queries -> Generators]
    BY <1>2, <1>3, <1>8, <2>5 DEF ExecFails, Raise
  <2>7. step' \in Steps
    BY <1>8 DEF ExecFails, Raise, Goto, Steps
  <2>. QED
    BY <1>2, <1>8, <2>4, <2>6, <2>7 DEF ExecFails, TypeOK
<1>9. CASE Yield
  <2>1. obj[me].gqo.first + gen[me].r \in Nat
    BY <1>2, <1>3 DEF Objects, Page, Generators
  <2>2. gen' \in [Queries -> Generators]
    <3>. DEFINE g == [gen[me] EXCEPT
                            !.on = TRUE, !.r = gen[me].r + 1, !.rowi = gen[me].rowi + 1,
                            !.row = obj[me].gqo.first + gen[me].r]
    <3>1. g \in Generators
      BY <1>2, <1>3, <2>1, GeneratorTypes
    <3>2. gen' = [gen EXCEPT ![me] = g]
      BY <1>9 DEF Yield
    <3>. HIDE DEF g
    <3>. QED
      BY <1>2, <1>3, <3>1, <3>2
  <2>3. step' \in Steps
    BY <1>9 DEF Yield, Goto, Steps
  <2>. QED
    BY <1>2, <1>9, <2>2, <2>3 DEF Yield, TypeOK
<1>10. CASE \E q \in Queries : Resume(q) \/ Abandon(q)
  <2>1. PICK q \in Queries : Resume(q) \/ Abandon(q)
    BY <1>10
  <2>2. /\ [gen[q] EXCEPT !.on = FALSE] \in Generators
        /\ [[gen[q] EXCEPT !.on = FALSE] EXCEPT !.ended = "aborted"] \in Generators
    BY <1>3 DEF Generators
  <2>3. gen' \in [Queries -> Generators]
    BY <1>3, <2>1, <2>2 DEF Resume, Abandon
  <2>4. /\ me' \in Queries /\ step' \in Steps
        /\ UNCHANGED <<obj, copyCti, stmts, abandoned>>
    BY <2>1 DEF Resume, Abandon, Begin, Steps, ClosingSteps
  <2>. QED
    BY <1>2, <2>3, <2>4 DEF TypeOK
<1>11. CASE StopAtLimit \/ EndOfPage \/ FetchFails
  <2>1. /\ [gen[me] EXCEPT !.ended = "done"] \in Generators
        /\ [[gen[me] EXCEPT !.on = FALSE] EXCEPT !.ended = "raised"] \in Generators
    BY <1>2, <1>3 DEF Generators
  <2>2. gen' \in [Queries -> Generators]
    BY <1>2, <1>3, <1>11, <2>1 DEF StopAtLimit, EndOfPage, FetchFails, Raise
  <2>3. step' \in Steps /\ UNCHANGED <<obj, me, copyCti, stmts, abandoned>>
    BY <1>11 DEF StopAtLimit, EndOfPage, FetchFails, Raise, Goto, Steps, ClosingSteps
  <2>. QED
    BY <1>2, <2>2, <2>3 DEF TypeOK
<1>12. CASE Fetch
  <2>1. obj[me].cti # 0
    BY <1>1, <1>12 DEF Fetch, MethodSound
  <2>2. stmts[obj[me].cti] # 0
    BY <1>1, <1>2, <2>1 DEF StatementsOwned
  <2>3. PICK page \in Page, c \in {0, obj[me].cti} :
           /\ stmts' \in [Slots -> 0..(Total + 1)]
           /\ obj' = [obj EXCEPT ![me].gqo = page, ![me].cti = c]
    BY <1>1, <1>12, <2>1, <2>2, Fetching
  <2>4. c \in {0} \cup Slots
    BY <1>2, <1>3 DEF Objects
  <2>5. [[obj[me] EXCEPT !.gqo = page] EXCEPT !.cti = c] \in Objects
    BY <1>2, <1>3, <2>4 DEF Objects
  <2>6. obj' \in [Queries -> Objects]
    BY <1>2, <1>3, <2>3, <2>5
  <2>7. [gen[me] EXCEPT !.r = 0] \in Generators
    BY <1>2, <1>3 DEF Generators
  <2>8. gen' \in [Queries -> Generators] /\ step' \in Steps
    BY <1>2, <1>3, <1>12, <2>7 DEF Fetch, Goto, Steps
  <2>. QED
    BY <1>2, <1>12, <2>3, <2>6, <2>8 DEF Fetch, TypeOK
<1>13. CASE \E q \in Queries : Close(q) \/ Drop(q)
  BY <1>2, <1>13 DEF Close, Drop, Begin, TypeOK, Steps, ClosingSteps
<1>14. CASE CloseNothing
  <2>1. Finished(obj[me]) \in Objects
    BY <1>2, <1>3, NoTypes DEF Finished
  <2>2. obj' \in [Queries -> Objects]
    BY <1>2, <1>3, <1>14, <2>1 DEF CloseNothing
  <2>. QED
    BY <1>2, <1>14, <2>2 DEF CloseNothing, Goto, TypeOK, Steps
<1>15. CASE CloseFetch
  <2>1. /\ obj[me].cti \in Slots /\ obj[me].count \in BOOLEAN
    BY <1>2, <1>3, <1>15 DEF CloseFetch, Objects
  <2>2. stmts' \in [Slots -> 0..(Total + 1)]
    BY <1>1, <1>15, <2>1, Closing DEF CloseFetch
  <2>3. [obj[me] EXCEPT !.auto = TRUE] \in Objects
    BY <1>2, <1>3 DEF Objects
  <2>4. Closed([obj[me] EXCEPT !.auto = TRUE]) \in Objects
    BY <2>3, NoTypes, ClosedType
  <2>5. obj' \in [Queries -> Objects]
    BY <1>2, <1>3, <1>15, <2>4, NoTypes DEF CloseFetch, Finished
  <2>. QED
    BY <1>2, <1>15, <2>2, <2>5 DEF CloseFetch, Goto, TypeOK, Steps
<1>16. CASE CloseFails
  <2>1. [obj[me] EXCEPT !.auto = TRUE] \in Objects
    BY <1>2, <1>3 DEF Objects
  <2>6. obj[me].cti \in Slots
    BY <1>2, <1>3, <1>16 DEF Objects, CloseFails
  <2>2. obj' \in [Queries -> Objects] /\ abandoned' \subseteq Slots
    BY <1>2, <1>3, <1>16, <2>1, <2>6, NoTypes DEF CloseFails, Finished
  <2>3. [[gen[me] EXCEPT !.on = FALSE] EXCEPT !.ended = "raised"] \in Generators
    BY <1>2, <1>3 DEF Generators
  <2>4. gen' \in [Queries -> Generators] /\ step' \in Steps
    BY <1>2, <1>3, <1>16, <2>3 DEF CloseFails, Raise, Goto, Steps
  <2>. QED
    BY <1>2, <1>16, <2>2, <2>4 DEF CloseFails, TypeOK
<1>17. ASSUME NEW q \in Queries, TotalRows(q) PROVE TypeOK'
  <2>1. [obj[q] EXCEPT !.total = obj[q].gqo.total] \in Objects
    BY <1>3 DEF Objects, Page
  <2>2. obj' \in [Queries -> Objects]
    BY <1>2, <1>3, <1>17, <2>1 DEF TotalRows
  <2>3. me' \in Queries /\ step' \in Steps
    BY <1>17 DEF TotalRows, Begin, Steps
  <2>. QED
    BY <1>2, <1>17, <2>2, <2>3 DEF TotalRows, TypeOK
<1>18. CASE CountExec
  <2>1. PICK c \in {0} \cup Slots :
           /\ stmts' \in [Slots -> 0..(Total + 1)]
           /\ copyCti' = c
           /\ obj' = [obj EXCEPT ![me].total = Total]
    BY <1>1, <1>18, Counted
  <2>2. [obj[me] EXCEPT !.total = Total] \in Objects
    BY <1>2, <1>3 DEF Objects
  <2>3. obj' \in [Queries -> Objects]
    BY <1>2, <1>3, <2>1, <2>2
  <2>. QED
    BY <1>2, <1>18, <2>1, <2>3 DEF CountExec, Goto, TypeOK, Steps
<1>19. CASE CountExecFails \/ CountCloseFails
  BY <1>2, <1>19 DEF CountExecFails, CountCloseFails, Goto, TypeOK, Steps
<1>20. CASE CountClose
  <2>1. stmts' \in [Slots -> 0..(Total + 1)]
    <3>1. CASE copyCti = 0 /\ UNCHANGED stmts
      BY <1>2, <3>1
    <3>2. CASE copyCti > 0 /\ Fetches(copyCti, TRUE, PageAt(stmts[copyCti], MaxSqlRows, TRUE), 0)
      <4>1. copyCti \in Slots /\ TRUE \in BOOLEAN
        BY <1>2, <3>2
      <4>. QED
        BY <1>1, <3>2, <4>1, Closing
    <3>. QED
      BY <1>20, <3>1, <3>2 DEF CountClose
  <2>. QED
    BY <1>2, <1>20, <2>1 DEF CountClose, Goto, TypeOK, Steps
<1>21. CASE UNCHANGED vars
  BY <1>2, <1>21 DEF vars, TypeOK
<1>. QED
  BY <1>4, <1>5, <1>6, <1>7, <1>8, <1>9, <1>10, <1>11, <1>12, <1>13, <1>14, <1>15, <1>16,
     <1>17, <1>18, <1>19, <1>20, <1>21
     DEF Next, Running, Answered, Using

-----------------------------------------------------------------------------
\* What every step leaves as it is.

LEMMA Fields ==
    /\ \A g \in Generators :
          g.r \in Nat /\ g.rowi \in Nat /\ g.row \in Nat /\ g.base \in Nat
    /\ \A o \in Objects :
          /\ o.offset \in Nat /\ o.limit \in Nat /\ o.cti \in {0} \cup Slots
          /\ o.gqo \in Page /\ o.gqo.first \in Nat /\ o.gqo.rows \in Nat
    /\ 0 \notin Slots
  BY SizesAssumption DEF Generators, Objects, Page, Slots

\* An object, and its iteration, no step is about.
LEMMA ObjectKept ==
    ASSUME NEW q \in Queries, ObjectSound(q), obj'[q] = obj[q],
           obj[q].cti # 0 => stmts'[obj[q].cti] = stmts[obj[q].cti]
    PROVE  ObjectSound(q)'
<1>1. Miscounted(q)' <=> Miscounted(q)
  BY DEF Miscounted
<1>2. (HasPage(q)' <=> HasPage(q)) /\ (Executed(q)' <=> Executed(q))
  BY DEF HasPage, Executed
<1>3. PageSound(q) => PageSound(q)'
  BY <1>1 DEF PageSound
<1>. QED
  BY <1>1, <1>2, <1>3 DEF ObjectSound

LEMMA IterationKept ==
    ASSUME NEW q \in Queries, IterationSound(q), obj'[q] = obj[q], gen'[q] = gen[q]
    PROVE  IterationSound(q)'
<1>1. (Miscounted(q)' <=> Miscounted(q)) /\ Wanted(q)' = Wanted(q)
  BY DEF Miscounted, Wanted
<1>2. InPage(q) => InPage(q)'
  BY DEF InPage, HasPage
<1>. QED
  BY <1>1, <1>2 DEF IterationSound

LEMMA Others ==
    ASSUME NEW q \in Queries, ObjectSound(q), IterationSound(q),
           obj'[q] = obj[q], gen'[q] = gen[q],
           obj[q].cti # 0 => stmts'[obj[q].cti] = stmts[obj[q].cti]
    PROVE  ObjectSound(q)' /\ IterationSound(q)'
  BY ObjectKept, IterationKept

\* A step that opens and closes nothing.
LEMMA OwnedKept ==
    ASSUME Sound, TypeOK,
           \A q \in Queries : /\ obj'[q].cti = obj[q].cti
                              /\ obj[q].alive /\ obj[q].cti # 0 => obj'[q].alive,
           stmts' = stmts, copyCti' = copyCti, abandoned' = abandoned
    PROVE  StatementsOwned'
<1>1. /\ \A s \in Slots : stmts[s] # 0 =>
            \/ \E q \in Queries : obj[q].alive /\ obj[q].cti = s
            \/ copyCti = s
            \/ s \in abandoned
      /\ \A q \in Queries : obj[q].cti # 0 =>
            /\ stmts[obj[q].cti] # 0
            /\ obj[q].cti # copyCti
            /\ \A p \in Queries \ {q} : obj[p].cti # obj[q].cti
  BY DEF Sound, StatementsOwned
<1>2. ASSUME NEW s \in Slots, stmts'[s] # 0
      PROVE  \/ \E q \in Queries : obj'[q].alive /\ obj'[q].cti = s
             \/ copyCti' = s
             \/ s \in abandoned'
  <2>1. stmts[s] # 0 /\ s # 0
    BY <1>2, Fields
  <2>2. ASSUME NEW q \in Queries, obj[q].alive, obj[q].cti = s
        PROVE  obj'[q].alive /\ obj'[q].cti = s
    BY <2>1, <2>2
  <2>. QED
    BY <1>1, <2>1, <2>2
<1>3. ASSUME NEW q \in Queries, obj'[q].cti # 0
      PROVE  /\ stmts'[obj'[q].cti] # 0
             /\ obj'[q].cti # copyCti'
             /\ \A p \in Queries \ {q} : obj'[p].cti # obj'[q].cti
  <2>1. /\ obj'[q].cti = obj[q].cti
        /\ \A p \in Queries \ {q} : obj'[p].cti = obj[p].cti
    OBVIOUS
  <2>. QED
    BY <1>1, <1>3, <2>1
<1>. QED
  BY <1>2, <1>3 DEF StatementsOwned

-----------------------------------------------------------------------------
\* The invariant under each action.

\* New and Copy: a fresh object.
LEMMA FreshSound ==
    ASSUME IInv, NEW q \in Queries, NEW offset \in Offsets \cup CopyOffsets,
           NEW limit \in Nat, NEW count,
           CopiesFromStart => ~(count /\ offset > 0),
           step = "idle", ~obj[q].alive,
           obj' = [obj EXCEPT ![q] = NewObject(offset, limit, count)],
           gen' = [gen EXCEPT ![q] = NoGenerator],
           UNCHANGED <<me, step, copyCti, stmts, abandoned>>
    PROVE  Sound'
<1>1. TypeOK /\ Sound /\ obj[q].cti = 0
  BY DEF IInv, Sound, ObjectSound
<1>2. /\ obj'[q] = NewObject(offset, limit, count) /\ gen'[q] = NoGenerator
      /\ \A p \in Queries : p # q => obj'[p] = obj[p] /\ gen'[p] = gen[p]
  BY <1>1 DEF TypeOK
<1>3. /\ obj'[q].alive /\ obj'[q].cti = 0 /\ obj'[q].offset = offset /\ obj'[q].count = count
      /\ obj'[q].gqo = NoPage /\ obj'[q].total = NoTotal
  BY <1>2 DEF NewObject
<1>4. ~gen'[q].on /\ gen'[q].rowi = 0 /\ gen'[q].ended = "none"
  BY <1>2 DEF NoGenerator
<1>5. StatementsOwned'
  <2>1. \A p \in Queries : /\ obj'[p].cti = obj[p].cti
                           /\ obj[p].alive /\ obj[p].cti # 0 => obj'[p].alive
    BY <1>1, <1>2, <1>3
  <2>. QED
    BY <1>1, <2>1, OwnedKept
<1>6. CopySound' /\ MethodSound'
  BY <1>1 DEF Sound, CopySound, MethodSound
<1>7. ObjectSound(q)'
  BY <1>3 DEF ObjectSound, HasPage, Miscounted
<1>8. IterationSound(q)'
  <2>1. obj'[q].limit = limit
    BY <1>2 DEF NewObject
  <2>. QED
    BY <1>3, <1>4, <2>1 DEF IterationSound
<1>9. ASSUME NEW p \in Queries, p # q PROVE ObjectSound(p)' /\ IterationSound(p)'
  BY <1>1, <1>2, <1>9, Others DEF Sound
<1>. QED
  BY <1>5, <1>6, <1>7, <1>8, <1>9 DEF Sound

\* Steps that change no object, and one generator at most.
LEMMA ObjectsKept ==
    ASSUME IInv, UNCHANGED <<obj, copyCti, stmts, abandoned>>, NEW q \in Queries,
           \A p \in Queries : p # q => gen'[p] = gen[p],
           step = "countclose" => copyCti = 0,
           MethodSound', IterationSound(q)'
    PROVE  Sound'
<1>1. TypeOK /\ Sound
  BY DEF IInv
<1>2. StatementsOwned'
  <2>1. \A p \in Queries : /\ obj'[p].cti = obj[p].cti
                           /\ obj[p].alive /\ obj[p].cti # 0 => obj'[p].alive
    OBVIOUS
  <2>. QED
    BY <1>1, <2>1, OwnedKept
<1>3. CopySound'
  BY <1>1 DEF Sound, CopySound
<1>4. ASSUME NEW p \in Queries PROVE ObjectSound(p)'
  BY <1>1, ObjectKept DEF Sound
<1>5. ASSUME NEW p \in Queries, p # q PROVE IterationSound(p)'
  BY <1>1, <1>5, IterationKept DEF Sound
<1>. QED
  BY <1>2, <1>3, <1>4, <1>5 DEF Sound

\* A new generator begins with the page the object has, or with none.
LEMMA IterateSound == ASSUME IInv, NEW q \in Queries, Iterate(q) PROVE Sound'
<1>1. /\ TypeOK /\ MethodSound /\ ObjectSound(q) /\ CopySound
      /\ obj[q] \in Objects /\ gen \in [Queries -> Generators]
  BY DEF IInv, Sound, TypeOK
<1>2. /\ UNCHANGED <<obj, copyCti, stmts, abandoned>> /\ me' = q
      /\ obj[q].alive /\ step = "idle"
      /\ \A p \in Queries : p # q => gen'[p] = gen[p]
  BY <1>1 DEF Iterate, Begin
<1>3. CASE ~Executed(q) /\ gen'[q] = NoGenerator /\ step' = "exec"
  <2>1. ~gen'[q].on /\ gen'[q].rowi = 0 /\ gen'[q].ended = "none"
    BY <1>3 DEF NoGenerator
  <2>2. IterationSound(q)'
    BY <1>1, <1>2, <2>1, Fields DEF IterationSound
  <2>3. MethodSound'
    BY <1>2, <1>3, <2>1 DEF MethodSound, Executed
  <2>. QED
    BY <1>2, <2>2, <2>3, ObjectsKept
<1>4. CASE /\ Executed(q) /\ HasPage(q) /\ step' = "rows"
           /\ gen'[q] = [NoGenerator EXCEPT !.base = obj[q].gqo.first, !.auto = obj[q].auto]
  <2>1. /\ ~gen'[q].on /\ gen'[q].rowi = 0 /\ gen'[q].r = 0 /\ gen'[q].ended = "none"
        /\ gen'[q].base = obj[q].gqo.first /\ gen'[q].auto = obj[q].auto
    BY <1>4 DEF NoGenerator
  <2>2. IterationSound(q)'
    BY <1>1, <1>2, <2>1, Fields DEF IterationSound
  <2>3. obj[q].gqo.first \in Nat /\ obj[q].gqo.first # 0 /\ obj[q].gqo.rows \in Nat
    BY <1>1, <1>4, Fields, ArgumentsAssumption DEF ObjectSound, PageSound, Firsts
  <2>4. InPage(q)'
    BY <1>2, <1>4, <2>1, <2>3 DEF InPage, HasPage
  <2>5. MethodSound'
    BY <1>2, <1>4, <2>1, <2>4 DEF MethodSound
  <2>. QED
    BY <1>2, <2>2, <2>5, ObjectsKept
<1>5. CASE step' = "idle" /\ gen'[q] = [NoGenerator EXCEPT !.ended = "raised"]
  <2>1. ~gen'[q].on /\ gen'[q].rowi = 0 /\ gen'[q].ended = "raised"
    BY <1>5 DEF NoGenerator
  <2>2. IterationSound(q)'
    BY <1>1, <1>2, <2>1, Fields DEF IterationSound
  <2>3. MethodSound'
    BY <1>5 DEF MethodSound
  <2>. QED
    BY <1>2, <2>2, <2>3, ObjectsKept
<1>. QED
  BY <1>1, <1>3, <1>4, <1>5 DEF Iterate, Begin

\* A step in which object q exchanges its statement, if any, for statement c.
LEMMA OwnedExchanged ==
    ASSUME IInv, NEW q \in Queries, NEW c \in {0} \cup Slots,
           obj'[q].cti = c, c # 0 => obj'[q].alive,
           \A p \in Queries : p # q => obj'[p] = obj[p],
           copyCti' = copyCti, abandoned' = abandoned,
           \A s \in Slots : s # c /\ s # obj[q].cti => stmts'[s] = stmts[s],
           c # 0 => stmts'[c] # 0 /\ (c = obj[q].cti \/ stmts[c] = 0),
           obj[q].cti # 0 /\ obj[q].cti # c => stmts'[obj[q].cti] = 0
    PROVE  /\ StatementsOwned'
           /\ copyCti # 0 => stmts'[copyCti] # 0
           /\ \A p \in Queries : p # q /\ obj[p].cti # 0 =>
                 stmts'[obj[p].cti] = stmts[obj[p].cti]
<1>1. /\ \A s \in Slots : stmts[s] # 0 =>
            \/ \E p \in Queries : obj[p].alive /\ obj[p].cti = s
            \/ copyCti = s
            \/ s \in abandoned
      /\ \A p \in Queries : obj[p].cti # 0 =>
            /\ stmts[obj[p].cti] # 0
            /\ obj[p].cti # copyCti
            /\ \A r \in Queries \ {p} : obj[r].cti # obj[p].cti
      /\ copyCti # 0 => stmts[copyCti] # 0
  BY DEF IInv, Sound, StatementsOwned, CopySound
<1>2. /\ \A p \in Queries : obj[p].cti \in {0} \cup Slots
      /\ copyCti \in {0} \cup Slots /\ 0 \notin Slots
  BY Fields DEF IInv, TypeOK
<1>3. ASSUME NEW p \in Queries, p # q, obj[p].cti # 0
      PROVE  obj[p].cti # c /\ stmts'[obj[p].cti] = stmts[obj[p].cti]
  <2>1. obj[p].cti # obj[q].cti
    BY <1>1, <1>3
  <2>2. obj[p].cti # c
    BY <1>1, <1>3, <2>1
  <2>. QED
    BY <1>2, <1>3, <2>1, <2>2
<1>4. ASSUME copyCti # 0
      PROVE  copyCti # c /\ copyCti # obj[q].cti /\ stmts'[copyCti] = stmts[copyCti]
  <2>1. copyCti # obj[q].cti
    BY <1>1, <1>4
  <2>2. copyCti # c
    BY <1>1, <1>4, <2>1
  <2>. QED
    BY <1>2, <1>4, <2>1, <2>2
<1>5. ASSUME NEW s \in Slots, stmts'[s] # 0
      PROVE  \/ \E p \in Queries : obj'[p].alive /\ obj'[p].cti = s
             \/ copyCti' = s
             \/ s \in abandoned'
  <2>1. CASE s = c
    BY <1>2, <2>1
  <2>2. CASE s # c
    <3>1. s # obj[q].cti /\ stmts[s] # 0
      BY <1>2, <1>5, <2>2
    <3>. QED
      BY <1>1, <3>1
  <2>. QED
    BY <2>1, <2>2
<1>6. ASSUME NEW p \in Queries, obj'[p].cti # 0
      PROVE  /\ stmts'[obj'[p].cti] # 0
             /\ obj'[p].cti # copyCti'
             /\ \A r \in Queries \ {p} : obj'[r].cti # obj'[p].cti
  <2>1. CASE p = q
    <3>1. c # 0 /\ stmts'[c] # 0 /\ c # copyCti
      BY <1>4, <1>6, <2>1
    <3>2. ASSUME NEW r \in Queries, r # q PROVE obj'[r].cti # c
      BY <1>3, <3>1, <3>2
    <3>. QED
      BY <2>1, <3>1, <3>2
  <2>2. CASE p # q
    <3>1. obj'[p].cti = obj[p].cti /\ obj[p].cti # 0
      BY <1>6, <2>2
    <3>2. stmts'[obj[p].cti] # 0 /\ obj[p].cti # c /\ obj[p].cti # copyCti
      BY <1>1, <1>3, <2>2, <3>1
    <3>3. ASSUME NEW r \in Queries, r # p PROVE obj'[r].cti # obj[p].cti
      <4>1. obj[r].cti # obj[p].cti
        BY <1>1, <3>1, <3>3
      <4>. QED
        BY <3>2, <4>1
    <3>. QED
      BY <3>1, <3>2, <3>3
  <2>. QED
    BY <2>1, <2>2
<1>7. StatementsOwned'
  BY <1>5, <1>6 DEF StatementsOwned
<1>. QED
  BY <1>1, <1>3, <1>4, <1>7

\* The first page: it is the last one too, or the statement goes on behind it.
LEMMA ExecSound == ASSUME IInv, TypeOK', Exec PROVE Sound'
<1>1. /\ TypeOK /\ ObjectSound(me) /\ IterationSound(me) /\ MethodSound /\ CopySound
      /\ me \in Queries /\ step \in {"exec", "totalexec"}
      /\ obj[me] \in Objects /\ gen[me] \in Generators
      /\ obj \in [Queries -> Objects] /\ gen \in [Queries -> Generators]
  BY DEF IInv, Sound, TypeOK, Exec
<1>2. /\ obj[me].alive /\ ~gen[me].on /\ ~Executed(me) /\ ~HasPage(me) /\ obj[me].cti = 0
      /\ step = "exec" => gen[me] = NoGenerator
      /\ step = "totalexec" => obj[me].offset = 0
  BY <1>1 DEF MethodSound, ObjectSound
<1>3. PICK page \in Page, c \in {0} \cup Slots :
              /\ page.first = obj[me].offset + 1
              /\ page.rows > 0 => After(page) <= Total + 1
              /\ Counting(me) => page.total = Total
              /\ c = 0 /\ ~(Counting(me) /\ obj[me].offset > 0) => After(page) > Total
              /\ stmts' \in [Slots -> 0..(Total + 1)]
              /\ \A s \in Slots : s # c => stmts'[s] = stmts[s]
              /\ c # 0 => stmts[c] = 0 /\ stmts'[c] = After(page) /\ stmts'[c] # 0
              /\ obj' = [obj EXCEPT ![me] = [@ EXCEPT
                            !.gqi = TRUE, !.gqo = page, !.cti = c, !.auto = FALSE,
                            !.count = Counting(me),
                            !.total = IF step = "exec" THEN NoTotal ELSE page.total]]
              /\ step = "exec" => gen' = [gen EXCEPT ![me].base = page.first]
  BY <1>1, Executes
<1>4. /\ obj'[me].alive /\ obj'[me].offset = obj[me].offset /\ obj'[me].limit = obj[me].limit
      /\ obj'[me].gqi = TRUE /\ obj'[me].gqo = page /\ obj'[me].cti = c
      /\ obj'[me].auto = FALSE /\ obj'[me].count = Counting(me)
      /\ obj'[me].total = IF step = "exec" THEN NoTotal ELSE page.total
      /\ \A p \in Queries : p # me => obj'[p] = obj[p]
  BY <1>1, <1>2, <1>3 DEF Objects
<1>5. /\ me' = me /\ copyCti' = copyCti /\ abandoned' = abandoned
      /\ \A p \in Queries : p # me => gen'[p] = gen[p]
      /\ \/ step = "exec" /\ step' = "rows"
         \/ step = "totalexec" /\ step' = "idle" /\ gen' = gen
  BY <1>1, <1>3 DEF Exec, Goto
<1>6. /\ StatementsOwned'
      /\ \A p \in Queries : p # me /\ obj[p].cti # 0 => stmts'[obj[p].cti] = stmts[obj[p].cti]
  BY <1>1, <1>2, <1>3, <1>4, <1>5, OwnedExchanged
<1>7. CopySound'
  BY <1>1, <1>5 DEF CopySound
<1>8. obj[me].offset \in Nat /\ page.rows \in Nat
      /\ page.first \in Nat /\ page.first # 0 /\ page # NoPage
  BY <1>1, <1>3, Fields DEF Page, NoPage
<1>9. ObjectSound(me)'
  <2>1. obj[me].offset \in Offsets \cup CopyOffsets
    BY <1>1, <1>2 DEF ObjectSound
  <2>2. page.first \in Firsts
    BY <1>3, <2>1 DEF Firsts
  <2>3. Miscounted(me)' <=> (Counting(me) /\ obj[me].offset > 0)
    BY <1>4, <1>5 DEF Miscounted
  <2>4. PageSound(me)'
    BY <1>3, <1>4, <1>5, <2>2, <2>3 DEF PageSound
  <2>5. CopiesFromStart => ~Miscounted(me)'
    BY <1>1, <1>8, <2>3 DEF ObjectSound, Miscounted, Counting
  <2>6. obj'[me].total \in {NoTotal, Total}
    BY <1>2, <1>3, <1>4, <1>5 DEF Counting
  <2>. QED
    BY <1>2, <1>4, <1>5, <1>8, <2>1, <2>4, <2>5, <2>6 DEF ObjectSound, HasPage, Executed
<1>10. ASSUME step = "exec" PROVE MethodSound' /\ IterationSound(me)'
  <2>1. gen'[me] = [NoGenerator EXCEPT !.base = page.first]
    BY <1>1, <1>2, <1>3, <1>10
  <2>2. /\ ~gen'[me].on /\ gen'[me].r = 0 /\ gen'[me].rowi = 0 /\ gen'[me].base = page.first
        /\ gen'[me].auto = FALSE /\ gen'[me].ended = "none"
    BY <2>1 DEF NoGenerator
  <2>3. IterationSound(me)'
    BY <1>1, <1>4, <1>5, <2>2, Fields DEF IterationSound
  <2>4. InPage(me)'
    <3>1. gen'[me].auto = obj'[me].auto /\ obj'[me].alive
      BY <1>4, <2>2
    <3>2. /\ gen'[me].base # 0
          /\ gen'[me].base + gen'[me].rowi = obj'[me].gqo.first + gen'[me].r
          /\ gen'[me].r <= obj'[me].gqo.rows
      BY <1>4, <1>8, <2>2
    <3>. QED
      BY <1>4, <1>5, <1>8, <2>2, <3>1, <3>2 DEF InPage, HasPage
  <2>5. MethodSound'
    BY <1>4, <1>5, <1>10, <2>2, <2>4 DEF MethodSound
  <2>. QED
    BY <2>3, <2>5
<1>11. ASSUME step = "totalexec" PROVE MethodSound' /\ IterationSound(me)'
  <2>1. MethodSound'
    BY <1>5, <1>11 DEF MethodSound
  <2>2. gen'[me] = gen[me] /\ Wanted(me)' = Wanted(me)
    BY <1>4, <1>5, <1>11 DEF Wanted
  <2>3. ~Miscounted(me)
    BY <1>2, <1>8, <1>11 DEF Miscounted
  <2>4. IterationSound(me)'
    BY <1>1, <1>2, <1>4, <1>5, <2>2, <2>3 DEF IterationSound
  <2>. QED
    BY <2>1, <2>4
<1>12. MethodSound' /\ IterationSound(me)'
  BY <1>1, <1>10, <1>11
<1>13. ASSUME NEW p \in Queries, p # me PROVE ObjectSound(p)' /\ IterationSound(p)'
  BY <1>4, <1>5, <1>6, <1>13, Others DEF IInv, Sound
<1>. QED
  BY <1>5, <1>6, <1>7, <1>9, <1>12, <1>13 DEF Sound

\* An object whose execution failed has no page, now or later.
LEMMA ExecFailsSound == ASSUME IInv, ExecFails PROVE Sound'
<1>1. /\ TypeOK /\ Sound /\ ObjectSound(me) /\ IterationSound(me) /\ MethodSound /\ CopySound
      /\ me \in Queries /\ step \in {"exec", "totalexec"}
      /\ obj[me] \in Objects /\ gen[me] \in Generators
      /\ obj \in [Queries -> Objects] /\ gen \in [Queries -> Generators]
  BY DEF IInv, Sound, TypeOK, ExecFails
<1>2. /\ obj[me].alive /\ ~gen[me].on /\ ~HasPage(me) /\ obj[me].cti = 0
      /\ step = "exec" => gen[me] = NoGenerator
      /\ step = "totalexec" => obj[me].offset = 0
      /\ obj[me].offset \in Nat /\ obj[me].limit \in Nat
  BY <1>1, Fields DEF MethodSound, ObjectSound
<1>3. /\ me' = me /\ copyCti' = copyCti /\ stmts' = stmts /\ abandoned' = abandoned
      /\ step' = "idle"
      /\ \A p \in Queries : p # me => gen'[p] = gen[p]
      /\ step = "exec" => gen'[me] = [NoGenerator EXCEPT !.on = FALSE, !.ended = "raised"]
      /\ step = "totalexec" => gen'[me] = gen[me]
  BY <1>1, <1>2 DEF ExecFails, Raise, Goto
<1>4. /\ obj'[me].alive = obj[me].alive
      /\ obj'[me].count = obj[me].count \/ obj'[me].count = Counting(me)
  BY <1>1 DEF ExecFails, Objects
<1>5. /\ obj'[me].offset = obj[me].offset /\ obj'[me].limit = obj[me].limit
      /\ obj'[me].gqo = obj[me].gqo /\ obj'[me].cti = obj[me].cti
      /\ obj'[me].total = obj[me].total
      /\ \A p \in Queries : p # me => obj'[p] = obj[p]
  BY <1>1 DEF ExecFails, Objects
<1>6. StatementsOwned'
  <2>1. \A p \in Queries : /\ obj'[p].cti = obj[p].cti
                           /\ obj[p].alive /\ obj[p].cti # 0 => obj'[p].alive
    BY <1>4, <1>5
  <2>. QED
    BY <1>1, <1>3, <2>1, OwnedKept
<1>7. CopySound' /\ MethodSound'
  BY <1>1, <1>3 DEF CopySound, MethodSound
<1>8. ~HasPage(me)'
  BY <1>2, <1>3, <1>5 DEF HasPage
<1>9. Miscounted(me)' => Miscounted(me)
  <2>1. obj'[me].count => obj[me].count \/ obj[me].offset = 0
    BY <1>4 DEF Counting
  <2>2. obj[me].offset > 0 => obj[me].offset # 0
    BY <1>2
  <2>. QED
    BY <1>3, <1>5, <2>1, <2>2 DEF Miscounted
<1>10. ObjectSound(me)'
  BY <1>1, <1>2, <1>3, <1>4, <1>5, <1>8, <1>9 DEF ObjectSound
<1>11. IterationSound(me)'
  <2>1. CASE step = "exec"
    <3>1. ~gen'[me].on /\ gen'[me].rowi = 0 /\ gen'[me].ended = "raised"
      BY <1>3, <2>1 DEF NoGenerator
    <3>. QED
      BY <1>2, <1>3, <1>5, <3>1 DEF IterationSound
  <2>2. CASE step = "totalexec"
    <3>1. Wanted(me)' = Wanted(me) /\ ~Miscounted(me) /\ gen'[me] = gen[me]
      BY <1>2, <1>3, <1>5, <2>2 DEF Wanted, Miscounted
    <3>. QED
      BY <1>1, <1>2, <1>3, <1>4, <1>5, <3>1 DEF IterationSound
  <2>. QED
    BY <1>1, <2>1, <2>2
<1>12. ASSUME NEW p \in Queries, p # me PROVE ObjectSound(p)' /\ IterationSound(p)'
  BY <1>1, <1>3, <1>5, <1>12, Others DEF Sound
<1>. QED
  BY <1>3, <1>6, <1>7, <1>10, <1>11, <1>12 DEF Sound

LEMMA YieldSound == ASSUME IInv, Yield PROVE Sound'
<1>1. /\ ObjectSound(me) /\ IterationSound(me) /\ InPage(me)
      /\ me \in Queries /\ gen \in [Queries -> Generators]
      /\ obj[me] \in Objects /\ gen[me] \in Generators
  BY DEF IInv, Sound, TypeOK, Yield, MethodSound
<1>2. /\ UNCHANGED <<obj, me, copyCti, stmts, abandoned>> /\ step = "rows" /\ step' = "idle"
      /\ gen' = [gen EXCEPT ![me] = [@ EXCEPT
                    !.on = TRUE, !.r = gen[me].r + 1, !.rowi = gen[me].rowi + 1,
                    !.row = obj[me].gqo.first + gen[me].r]]
      /\ gen[me].r < obj[me].gqo.rows /\ ~LimitReached(me)
  BY DEF Yield, Goto
<1>3. /\ gen'[me].r = gen[me].r + 1 /\ gen'[me].rowi = gen[me].rowi + 1
      /\ gen'[me].row = obj[me].gqo.first + gen[me].r
      /\ gen'[me].base = gen[me].base /\ gen'[me].ended = gen[me].ended
      /\ gen'[me].auto = gen[me].auto
      /\ \A p \in Queries : p # me => gen'[p] = gen[p]
  BY <1>1, <1>2 DEF Generators
<1>4. /\ gen[me].r \in Nat /\ gen[me].rowi \in Nat /\ gen[me].base \in Nat
      /\ obj[me].gqo.first \in Nat /\ obj[me].gqo.rows \in Nat /\ obj[me].limit \in Nat
  BY <1>1, Fields
<1>5. InPage(me)'
  <2>1. gen'[me].auto = obj'[me].auto
    BY <1>1, <1>2, <1>3 DEF InPage
  <2>2. /\ gen'[me].base + gen'[me].rowi = obj'[me].gqo.first + gen'[me].r
        /\ gen'[me].r <= obj'[me].gqo.rows
    BY <1>1, <1>2, <1>3, <1>4 DEF InPage
  <2>. QED
    BY <1>1, <1>2, <1>3, <2>1, <2>2 DEF InPage, HasPage
<1>6. obj[me].gqo.first + obj[me].gqo.rows <= Total + 1
  BY <1>1, <1>2, <1>4 DEF ObjectSound, InPage, PageSound, After
<1>7. /\ gen'[me].row = gen'[me].base + gen'[me].rowi - 1
      /\ gen'[me].base + gen'[me].rowi <= Total + 1
      /\ gen'[me].rowi > 0
  BY <1>1, <1>2, <1>3, <1>4, <1>6, SizesAssumption DEF InPage
<1>8. obj'[me].limit # 0 => gen'[me].rowi <= obj'[me].limit
  BY <1>2, <1>3, <1>4 DEF LimitReached
<1>9. IterationSound(me)'
  BY <1>1, <1>2, <1>3, <1>5, <1>7, <1>8 DEF IterationSound, InPage
<1>10. MethodSound'
  BY <1>2 DEF MethodSound
<1>. QED
  BY <1>1, <1>2, <1>3, <1>9, <1>10, ObjectsKept

\* What an iteration has yielded when it ends: all rows, or as many as its limit.
LEMMA AllRows ==
    ASSUME NEW q \in Queries, gen[q] \in Generators, obj[q] \in Objects,
           obj[q].alive, IterationSound(q),
           \/ LimitReached(q) /\ gen[q].base + gen[q].rowi <= Total + 1
           \/ gen[q].base + gen[q].rowi > Total
    PROVE  gen[q].rowi = Wanted(q)
<1>. DEFINE b == gen[q].base
            n == gen[q].rowi
            l == obj[q].limit
<1>1. b \in Nat /\ n \in Nat /\ l \in Nat
  BY Fields
<1>2. (n > 0 => b + n <= Total + 1) /\ (l # 0 => n <= l)
  BY DEF IterationSound
<1>3. \/ l # 0 /\ n >= l /\ b + n <= Total + 1
      \/ b + n > Total
  BY DEF LimitReached
<1>. HIDE DEF b, n, l
<1>4. n = LET m == IF b > Total THEN 0 ELSE Total + 1 - b IN IF l # 0 /\ l < m THEN l ELSE m
  BY <1>1, <1>2, <1>3, SizesAssumption
<1>. QED
  BY <1>4 DEF Wanted, RowsFrom, b, n, l

\* An iteration that ends with a row of its page left, or with the page.
LEMMA EndSound == ASSUME IInv, StopAtLimit \/ EndOfPage PROVE Sound'
<1>1. /\ TypeOK /\ ObjectSound(me) /\ IterationSound(me) /\ InPage(me) /\ MethodSound
      /\ CopySound /\ me \in Queries /\ gen \in [Queries -> Generators]
      /\ obj[me] \in Objects /\ gen[me] \in Generators
  BY DEF IInv, Sound, TypeOK, StopAtLimit, EndOfPage, MethodSound
<1>2. UNCHANGED <<obj, me, copyCti, stmts, abandoned>> /\ step = "rows"
  BY DEF StopAtLimit, EndOfPage
<1>3. obj[me].alive /\ ~gen[me].on
  BY <1>1, <1>2 DEF MethodSound
<1>4. /\ gen[me].r \in Nat /\ gen[me].rowi \in Nat /\ gen[me].base \in Nat
      /\ obj[me].gqo.first \in Nat /\ obj[me].gqo.rows \in Nat /\ obj[me].limit \in Nat
      /\ obj[me].cti \in Nat
  BY <1>1, Fields DEF Slots
<1>5. ASSUME gen' = [gen EXCEPT ![me].ended = "done"], step' = "ending",
             ~obj[me].auto /\ ~Miscounted(me) => gen[me].rowi = Wanted(me)
      PROVE  Sound'
  <2>1. /\ gen'[me].on = gen[me].on /\ gen'[me].rowi = gen[me].rowi
        /\ gen'[me].row = gen[me].row /\ gen'[me].base = gen[me].base
        /\ gen'[me].auto = gen[me].auto
        /\ \A p \in Queries : p # me => gen'[p] = gen[p]
    BY <1>1, <1>5 DEF Generators
  <2>2. Wanted(me)' = Wanted(me) /\ (Miscounted(me)' <=> Miscounted(me))
    BY <1>2, <2>1 DEF Wanted, Miscounted
  <2>3. ~gen[me].auto => ~obj[me].auto
    BY <1>1 DEF InPage
  <2>4. IterationSound(me)'
    BY <1>1, <1>2, <1>3, <1>5, <2>1, <2>2, <2>3 DEF IterationSound
  <2>5. MethodSound'
    BY <1>2, <1>3, <1>5, <2>1 DEF MethodSound
  <2>. QED
    BY <1>1, <1>2, <2>1, <2>4, <2>5, ObjectsKept
<1>6. CASE StopAtLimit
  <2>1. obj[me].gqo.first + obj[me].gqo.rows <= Total + 1 /\ gen[me].r < obj[me].gqo.rows
    BY <1>1, <1>4, <1>6 DEF StopAtLimit, ObjectSound, InPage, PageSound, After
  <2>2. LimitReached(me) /\ gen[me].base + gen[me].rowi <= Total + 1
    BY <1>1, <1>4, <1>6, <2>1, SizesAssumption DEF InPage, StopAtLimit
  <2>3. gen[me].rowi = Wanted(me)
    BY <1>1, <1>3, <2>2, AllRows
  <2>. QED
    BY <1>5, <1>6, <2>3 DEF StopAtLimit, Goto
<1>7. CASE EndOfPage /\ (obj[me].cti <= 0 \/ LimitReached(me))
  <2>1. gen[me].base + gen[me].rowi = After(obj[me].gqo)
    BY <1>1, <1>4, <1>7 DEF InPage, EndOfPage, After
  <2>2. CASE LimitReached(me)
    <3>1. gen[me].rowi > 0
      BY <1>4, <2>2 DEF LimitReached
    <3>2. gen[me].rowi = Wanted(me)
      BY <1>1, <1>3, <2>2, <3>1, AllRows DEF IterationSound
    <3>. QED
      BY <1>2, <1>4, <1>5, <1>7, <2>2, <3>2 DEF EndOfPage, Goto
  <2>3. CASE obj[me].cti <= 0
    <3>1. obj[me].cti = 0
      BY <1>4, <2>3
    <3>2. ASSUME ~obj[me].auto, ~Miscounted(me) PROVE gen[me].rowi = Wanted(me)
      <4>1. gen[me].base + gen[me].rowi > Total
        BY <1>1, <2>1, <3>1, <3>2 DEF ObjectSound, InPage, PageSound
      <4>. QED
        BY <1>1, <1>3, <4>1, AllRows
    <3>3. gen' = [gen EXCEPT ![me].ended = "done"] /\ step' = "ending"
      BY <1>7, <3>1 DEF EndOfPage, Goto
    <3>. QED
      BY <1>5, <3>2, <3>3
  <2>. QED
    BY <1>7, <2>2, <2>3
<1>8. CASE EndOfPage /\ ~(obj[me].cti <= 0 \/ LimitReached(me))
  <2>1. gen' = gen /\ step' = "fetch" /\ obj[me].cti # 0 /\ ~LimitReached(me)
    BY <1>4, <1>8 DEF EndOfPage, Goto
  <2>2. gen[me].r = obj[me].gqo.rows
    BY <1>1, <1>4, <1>8 DEF EndOfPage, InPage
  <2>3. InPage(me)' /\ IterationSound(me)'
    BY <1>1, <1>2, <2>1, IterationKept DEF InPage, HasPage
  <2>4. MethodSound'
    BY <1>2, <1>3, <2>1, <2>2, <2>3 DEF MethodSound, LimitReached
  <2>. QED
    BY <1>1, <1>2, <2>1, <2>3, <2>4, ObjectsKept
<1>. QED
  BY <1>6, <1>7, <1>8

\* next() on a suspended generator, or its end by GeneratorExit.
LEMMA ResumeSound == ASSUME IInv, NEW q \in Queries, Resume(q) \/ Abandon(q) PROVE Sound'
<1>1. /\ TypeOK /\ IterationSound(q) /\ CopySound /\ gen[q] \in Generators
      /\ gen \in [Queries -> Generators]
  BY DEF IInv, Sound, TypeOK
<1>2. /\ UNCHANGED <<obj, copyCti, stmts, abandoned>> /\ me' = q /\ step = "idle"
      /\ gen[q].on /\ InPage(q)
  BY <1>1 DEF Resume, Abandon, Begin, IterationSound
<1>3. /\ ~gen'[q].on /\ gen'[q].rowi = gen[q].rowi /\ gen'[q].row = gen[q].row
      /\ gen'[q].base = gen[q].base /\ gen'[q].r = gen[q].r
      /\ gen'[q].auto = gen[q].auto
      /\ \A p \in Queries : p # q => gen'[p] = gen[p]
  BY <1>1 DEF Generators, Resume, Abandon
<1>4. \/ step' = "rows" /\ gen'[q].ended = gen[q].ended
      \/ step' = "ending" /\ gen'[q].ended = "aborted"
  BY <1>1 DEF Generators, Resume, Abandon, Begin
<1>5. IterationSound(q)'
  BY <1>1, <1>2, <1>3, <1>4 DEF IterationSound, InPage
<1>6. step' = "rows" => InPage(q)'
  BY <1>2, <1>3, <1>4 DEF InPage, HasPage
<1>7. MethodSound'
  BY <1>2, <1>3, <1>4, <1>6 DEF MethodSound, InPage
<1>. QED
  BY <1>1, <1>2, <1>3, <1>5, <1>7, ObjectsKept

\* close() and __del__ begin.
LEMMA CloseSound == ASSUME IInv, NEW q \in Queries, Close(q) \/ Drop(q) PROVE Sound'
<1>1. IterationSound(q) /\ CopySound
  BY DEF IInv, Sound
<1>2. /\ UNCHANGED <<obj, gen, copyCti, stmts, abandoned>> /\ me' = q /\ step = "idle"
      /\ step' \in {"closing", "dropping"} /\ obj[q].alive /\ ~gen[q].on
  BY DEF Close, Drop, Begin
<1>3. IterationSound(q)'
  BY <1>1, <1>2, IterationKept
<1>4. MethodSound'
  BY <1>2 DEF MethodSound
<1>. QED
  BY <1>2, <1>3, <1>4, ObjectsKept

\* A fetch within an iteration fails.
LEMMA FetchFailsSound == ASSUME IInv, FetchFails PROVE Sound'
<1>1. /\ IterationSound(me) /\ MethodSound /\ me \in Queries
      /\ gen[me] \in Generators /\ gen \in [Queries -> Generators]
  BY DEF IInv, Sound, TypeOK
<1>2. /\ UNCHANGED <<obj, me, copyCti, stmts, abandoned>> /\ step = "fetch" /\ step' = "idle"
      /\ gen' = [gen EXCEPT ![me].on = FALSE, ![me].ended = "raised"]
  BY DEF FetchFails, Raise, Goto
<1>3. /\ ~gen'[me].on /\ gen'[me].rowi = gen[me].rowi /\ gen'[me].row = gen[me].row
      /\ gen'[me].base = gen[me].base /\ gen'[me].ended = "raised"
      /\ \A p \in Queries : p # me => gen'[p] = gen[p]
  BY <1>1, <1>2 DEF Generators
<1>4. IterationSound(me)'
  BY <1>1, <1>2, <1>3 DEF IterationSound
<1>5. MethodSound'
  BY <1>2 DEF MethodSound
<1>. QED
  BY <1>1, <1>2, <1>3, <1>4, <1>5, ObjectsKept

\* The next page begins where the statement stands, behind the page before.
LEMMA FetchSound == ASSUME IInv, TypeOK', Fetch PROVE Sound'
<1>1. /\ TypeOK /\ ObjectSound(me) /\ IterationSound(me) /\ MethodSound /\ CopySound
      /\ me \in Queries /\ StatementsOwned
      /\ obj[me] \in Objects /\ gen[me] \in Generators
      /\ obj \in [Queries -> Objects] /\ gen \in [Queries -> Generators]
      /\ stmts \in [Slots -> 0..(Total + 1)]
  BY DEF IInv, Sound, TypeOK
<1>2. step = "fetch" /\ step' = "rows" /\ UNCHANGED <<me, copyCti, abandoned>>
      /\ gen' = [gen EXCEPT ![me].r = 0]
  BY DEF Fetch, Goto
<1>3. /\ obj[me].alive /\ ~gen[me].on /\ InPage(me) /\ HasPage(me) /\ Executed(me)
      /\ obj[me].cti # 0 /\ gen[me].r = obj[me].gqo.rows /\ ~LimitReached(me)
      /\ PageSound(me)
  BY <1>1, <1>2 DEF MethodSound, ObjectSound
<1>4. /\ obj[me].cti \in Slots /\ 0 \notin Slots
      /\ stmts[obj[me].cti] # 0 /\ stmts[obj[me].cti] = After(obj[me].gqo)
      /\ stmts[obj[me].cti] \in 1..(Total + 1)
  BY <1>1, <1>3, Fields, SizesAssumption DEF PageSound, StatementsOwned
<1>5. PICK page \in Page, c \in {0, obj[me].cti} :
              /\ page.first = stmts[obj[me].cti]
              /\ page.rows > 0 => After(page) <= Total + 1
              /\ obj[me].count => page.total = Total
              /\ c = 0 /\ ~obj[me].auto => After(page) > Total
              /\ stmts' \in [Slots -> 0..(Total + 1)]
              /\ \A s \in Slots : s # obj[me].cti => stmts'[s] = stmts[s]
              /\ c = 0 => stmts'[obj[me].cti] = 0
              /\ c # 0 => stmts'[c] = After(page) /\ stmts'[c] # 0
              /\ obj' = [obj EXCEPT ![me].gqo = page, ![me].cti = c]
  BY <1>1, <1>3, <1>4, Fetching
<1>6. /\ obj'[me].alive = obj[me].alive /\ obj'[me].count = obj[me].count
      /\ obj'[me].auto = obj[me].auto /\ obj'[me].gqi = obj[me].gqi
  BY <1>1, <1>5 DEF Objects
<1>7. /\ obj'[me].offset = obj[me].offset /\ obj'[me].limit = obj[me].limit
      /\ obj'[me].gqo = page /\ obj'[me].cti = c /\ obj'[me].total = obj[me].total
      /\ \A p \in Queries : p # me => obj'[p] = obj[p]
  BY <1>1, <1>5 DEF Objects
<1>8. /\ gen'[me].on = gen[me].on /\ gen'[me].r = 0 /\ gen'[me].rowi = gen[me].rowi
      /\ gen'[me].row = gen[me].row /\ gen'[me].base = gen[me].base
      /\ gen'[me].auto = gen[me].auto /\ gen'[me].ended = gen[me].ended
      /\ \A p \in Queries : p # me => gen'[p] = gen[p]
  BY <1>1, <1>2 DEF Generators
<1>9. c \in {0} \cup Slots
  BY <1>4, <1>5
<1>10. /\ StatementsOwned'
       /\ \A p \in Queries : p # me /\ obj[p].cti # 0 => stmts'[obj[p].cti] = stmts[obj[p].cti]
  BY <1>1, <1>2, <1>3, <1>4, <1>5, <1>6, <1>7, <1>9, OwnedExchanged
<1>11. CopySound'
  BY <1>1, <1>2 DEF CopySound
<1>12. /\ page.first \in Nat /\ page.rows \in Nat /\ page.first # 0 /\ page # NoPage
       /\ page.first \in Firsts
  BY <1>4, <1>5, Fields DEF Page, NoPage, Firsts
<1>13. Miscounted(me)' <=> Miscounted(me)
  BY <1>2, <1>6, <1>7 DEF Miscounted
<1>14. PageSound(me)'
  BY <1>2, <1>4, <1>5, <1>6, <1>7, <1>12 DEF PageSound
<1>15. ObjectSound(me)'
  BY <1>1, <1>2, <1>3, <1>6, <1>7, <1>12, <1>13, <1>14 DEF ObjectSound, HasPage, Executed
<1>16. Wanted(me)' = Wanted(me)
  BY <1>2, <1>7, <1>8 DEF Wanted
<1>17. IterationSound(me)'
  BY <1>1, <1>2, <1>3, <1>6, <1>7, <1>8, <1>13, <1>16 DEF IterationSound
<1>18. InPage(me)'
  <2>1. gen'[me].auto = obj'[me].auto
    BY <1>3, <1>6, <1>8 DEF InPage
  <2>2. /\ gen'[me].base + gen'[me].rowi = obj'[me].gqo.first + gen'[me].r
        /\ gen'[me].r <= obj'[me].gqo.rows
    <3>1. gen[me].base + gen[me].rowi = obj[me].gqo.first + obj[me].gqo.rows
      BY <1>3 DEF InPage
    <3>2. page.first = obj[me].gqo.first + obj[me].gqo.rows
      BY <1>4, <1>5 DEF After
    <3>. QED
      BY <1>7, <1>8, <1>12, <3>1, <3>2
  <2>. QED
    BY <1>2, <1>3, <1>6, <1>7, <1>8, <1>12, <2>1, <2>2 DEF InPage, HasPage
<1>19. MethodSound'
  BY <1>2, <1>3, <1>6, <1>8, <1>18 DEF MethodSound
<1>20. ASSUME NEW p \in Queries, p # me PROVE ObjectSound(p)' /\ IterationSound(p)'
  BY <1>7, <1>8, <1>10, <1>20, Others DEF IInv, Sound
<1>. QED
  BY <1>2, <1>10, <1>11, <1>15, <1>17, <1>19, <1>20 DEF Sound

-----------------------------------------------------------------------------
\* An object that went away.
LEMMA GoneSound ==
    ASSUME NEW q \in Queries, TypeOK, obj'[q] = NoObject, gen'[q] = gen[q], ~gen[q].on,
           IterationSound(q)
    PROVE  ObjectSound(q)' /\ IterationSound(q)'
<1>1. /\ ~obj'[q].alive /\ ~obj'[q].count /\ obj'[q].cti = 0
      /\ obj'[q].gqo = NoPage /\ obj'[q].total = NoTotal
  BY DEF NoObject, NewObject
<1>2. ObjectSound(q)'
  BY <1>1 DEF ObjectSound, HasPage, Miscounted
<1>3. IterationSound(q)'
  BY <1>1 DEF IterationSound
<1>. QED
  BY <1>2, <1>3

\* An object whose iteration is over, whatever closing it did to the rest.
LEMMA OverSound ==
    ASSUME NEW q \in Queries, IterationSound(q), ~gen'[q].on,
           gen'[q].rowi = gen[q].rowi, gen'[q].row = gen[q].row, gen'[q].base = gen[q].base,
           gen'[q].auto = gen[q].auto, gen'[q].ended \in {gen[q].ended, "raised"},
           obj'[q].alive = obj[q].alive, obj'[q].limit = obj[q].limit,
           obj'[q].count = obj[q].count, obj'[q].offset = obj[q].offset
    PROVE  IterationSound(q)'
<1>1. (Miscounted(q)' <=> Miscounted(q)) /\ Wanted(q)' = Wanted(q)
  BY DEF Miscounted, Wanted
<1>. QED
  BY <1>1 DEF IterationSound

\* Nothing to close.
LEMMA CloseNothingSound == ASSUME IInv, CloseNothing PROVE Sound'
<1>1. /\ TypeOK /\ Sound /\ ObjectSound(me) /\ IterationSound(me) /\ MethodSound /\ CopySound
      /\ me \in Queries /\ obj \in [Queries -> Objects]
  BY DEF IInv, Sound, TypeOK
<1>2. /\ UNCHANGED <<gen, me, copyCti, stmts, abandoned>> /\ step' = "idle"
      /\ step \in ClosingSteps /\ obj[me].cti = 0
      /\ obj'[me] \in {obj[me], NoObject}
      /\ \A p \in Queries : p # me => obj'[p] = obj[p]
  BY <1>1 DEF CloseNothing, Goto, Finished
<1>3. ~gen[me].on
  BY <1>1, <1>2 DEF MethodSound, ClosingSteps
<1>4. obj'[me].cti = 0
  BY <1>2 DEF NoObject, NewObject
<1>5. StatementsOwned'
  <2>1. \A p \in Queries : /\ obj'[p].cti = obj[p].cti
                           /\ obj[p].alive /\ obj[p].cti # 0 => obj'[p].alive
    BY <1>2, <1>4
  <2>. QED
    BY <1>1, <1>2, <2>1, OwnedKept
<1>6. CopySound' /\ MethodSound'
  BY <1>1, <1>2 DEF CopySound, MethodSound, ClosingSteps
<1>7. ObjectSound(me)' /\ IterationSound(me)'
  <2>1. CASE obj'[me] = obj[me]
    BY <1>1, <1>2, <2>1, Others
  <2>2. CASE obj'[me] = NoObject
    BY <1>1, <1>2, <1>3, <2>2, GoneSound
  <2>. QED
    BY <1>2, <2>1, <2>2
<1>8. ASSUME NEW p \in Queries, p # me PROVE ObjectSound(p)' /\ IterationSound(p)'
  BY <1>1, <1>2, <1>8, Others DEF Sound
<1>. QED
  BY <1>2, <1>5, <1>6, <1>7, <1>8 DEF Sound

\* The statement is closed: no object has it any more.
LEMMA CloseFetchSound == ASSUME IInv, CloseFetch PROVE Sound'
<1>1. /\ TypeOK /\ Sound /\ ObjectSound(me) /\ IterationSound(me) /\ MethodSound /\ CopySound
      /\ me \in Queries /\ obj \in [Queries -> Objects] /\ obj[me] \in Objects
  BY DEF IInv, Sound, TypeOK
<1>2. /\ UNCHANGED <<gen, me, copyCti, abandoned>> /\ step' = "idle"
      /\ step \in ClosingSteps /\ obj[me].cti > 0
      /\ obj' = [obj EXCEPT ![me] = Finished(Closed([@ EXCEPT !.auto = TRUE]))]
      /\ Fetches(obj[me].cti, TRUE, PageAt(stmts[obj[me].cti], MaxSqlRows, obj[me].count), 0)
  BY DEF CloseFetch, Goto
<1>3. ~gen[me].on /\ obj[me].alive
  BY <1>1, <1>2 DEF MethodSound, ClosingSteps
<1>4. obj[me].cti \in Slots /\ obj[me].cti # 0 /\ obj[me].count \in BOOLEAN /\ 0 \notin Slots
  BY <1>1, <1>2, Fields DEF Objects
<1>5. /\ \A s \in Slots : s # obj[me].cti => stmts'[s] = stmts[s]
      /\ stmts'[obj[me].cti] = 0
  BY <1>1, <1>2, <1>4, Closing
<1>6. \A p \in Queries : p # me => obj'[p] = obj[p]
  BY <1>1, <1>2
<1>7. \/ obj'[me] = NoObject
      \/ obj'[me] = Closed([obj[me] EXCEPT !.auto = TRUE])
  BY <1>1, <1>2 DEF Finished
<1>8. /\ Closed([obj[me] EXCEPT !.auto = TRUE]).cti = 0
      /\ Closed([obj[me] EXCEPT !.auto = TRUE]).gqo = NoPage
      /\ Closed([obj[me] EXCEPT !.auto = TRUE]).total = obj[me].total
      /\ Closed([obj[me] EXCEPT !.auto = TRUE]).offset = obj[me].offset
      /\ Closed([obj[me] EXCEPT !.auto = TRUE]).limit = obj[me].limit
      /\ Closed([obj[me] EXCEPT !.auto = TRUE]).alive = obj[me].alive
      /\ Closed([obj[me] EXCEPT !.auto = TRUE]).count = obj[me].count
  BY <1>1 DEF Closed, Objects
<1>9. obj'[me].cti = 0
  BY <1>7, <1>8 DEF NoObject, NewObject
<1>10. /\ StatementsOwned'
       /\ \A p \in Queries : p # me /\ obj[p].cti # 0 => stmts'[obj[p].cti] = stmts[obj[p].cti]
  <2>1. 0 \in {0} \cup Slots
    OBVIOUS
  <2>. QED
    BY <1>1, <1>2, <1>4, <1>5, <1>6, <1>9, <2>1, OwnedExchanged
<1>11. CopySound' /\ MethodSound'
  BY <1>1, <1>2 DEF CopySound, MethodSound, ClosingSteps
<1>12. ObjectSound(me)' /\ IterationSound(me)'
  <2>1. CASE obj'[me] = NoObject
    BY <1>1, <1>2, <1>3, <2>1, GoneSound
  <2>2. CASE obj'[me] = Closed([obj[me] EXCEPT !.auto = TRUE])
    <3>1. Miscounted(me)' <=> Miscounted(me)
      BY <1>2, <1>8, <2>2 DEF Miscounted
    <3>2. ObjectSound(me)'
      BY <1>1, <1>2, <1>3, <1>8, <2>2, <3>1 DEF ObjectSound, HasPage
    <3>3. IterationSound(me)'
      BY <1>1, <1>2, <1>3, <1>8, <2>2, OverSound
    <3>. QED
      BY <3>2, <3>3
  <2>. QED
    BY <1>7, <2>1, <2>2
<1>13. ASSUME NEW p \in Queries, p # me PROVE ObjectSound(p)' /\ IterationSound(p)'
  BY <1>1, <1>2, <1>6, <1>10, <1>13, Others DEF Sound
<1>. QED
  BY <1>2, <1>10, <1>11, <1>12, <1>13 DEF Sound

\* The statement stays open; after __del__ it is nobody's.
LEMMA CloseFailsSound == ASSUME IInv, CloseFails PROVE Sound'
<1>1. /\ TypeOK /\ Sound /\ ObjectSound(me) /\ IterationSound(me) /\ MethodSound /\ CopySound
      /\ me \in Queries /\ obj \in [Queries -> Objects] /\ obj[me] \in Objects
      /\ gen \in [Queries -> Generators] /\ gen[me] \in Generators
  BY DEF IInv, Sound, TypeOK
<1>2. /\ UNCHANGED <<me, copyCti, stmts>> /\ step' = "idle"
      /\ step \in ClosingSteps /\ obj[me].cti > 0
      /\ obj' = [obj EXCEPT ![me] = Finished([@ EXCEPT !.auto = TRUE])]
      /\ abandoned' = IF step = "dropping" THEN abandoned \cup {obj[me].cti} ELSE abandoned
      /\ gen' \in {gen, [gen EXCEPT ![me].on = FALSE, ![me].ended = "raised"]}
      /\ step = "dropping" => gen' = gen
  BY DEF CloseFails, Goto, Raise
<1>3. ~gen[me].on /\ obj[me].alive
  BY <1>1, <1>2 DEF MethodSound, ClosingSteps
<1>4. obj[me].cti \in Slots /\ obj[me].cti # 0
  BY <1>1, <1>2, Fields
<1>5. \A p \in Queries : p # me => obj'[p] = obj[p] /\ gen'[p] = gen[p]
  BY <1>1, <1>2
<1>6. /\ ~gen'[me].on
      /\ gen'[me].rowi = gen[me].rowi /\ gen'[me].row = gen[me].row
      /\ gen'[me].base = gen[me].base /\ gen'[me].auto = gen[me].auto
      /\ gen'[me].ended \in {gen[me].ended, "raised"}
  <2>1. CASE gen' = gen
    BY <1>3, <2>1
  <2>2. CASE gen' = [gen EXCEPT ![me].on = FALSE, ![me].ended = "raised"]
    BY <1>1, <2>2 DEF Generators
  <2>. QED
    BY <1>2, <2>1, <2>2
<1>7. CopySound' /\ MethodSound'
  BY <1>1, <1>2 DEF CopySound, MethodSound, ClosingSteps
<1>8. ASSUME NEW p \in Queries, p # me PROVE ObjectSound(p)' /\ IterationSound(p)'
  BY <1>1, <1>2, <1>5, <1>8, Others DEF Sound
<1>9. CASE step # "dropping"
  <2>1. obj'[me] = [obj[me] EXCEPT !.auto = TRUE] /\ abandoned' = abandoned
    BY <1>1, <1>2, <1>9 DEF Finished
  <2>2. /\ obj'[me].cti = obj[me].cti /\ obj'[me].gqo = obj[me].gqo
        /\ obj'[me].total = obj[me].total /\ obj'[me].offset = obj[me].offset
        /\ obj'[me].limit = obj[me].limit
    BY <1>1, <2>1 DEF Objects
  <2>3. /\ obj'[me].alive = obj[me].alive /\ obj'[me].gqi = obj[me].gqi
        /\ obj'[me].count = obj[me].count
    BY <1>1, <2>1 DEF Objects
  <2>4. StatementsOwned'
    <3>1. \A p \in Queries : /\ obj'[p].cti = obj[p].cti
                             /\ obj[p].alive /\ obj[p].cti # 0 => obj'[p].alive
      BY <1>5, <2>2, <2>3
    <3>. QED
      BY <1>1, <1>2, <2>1, <3>1, OwnedKept
  <2>5. Miscounted(me)' <=> Miscounted(me)
    BY <1>2, <2>2, <2>3 DEF Miscounted
  <2>6. PageSound(me) => PageSound(me)'
    BY <1>2, <1>4, <2>2, <2>3 DEF PageSound
  <2>7. (HasPage(me)' <=> HasPage(me)) /\ (Executed(me)' <=> Executed(me))
    BY <1>2, <2>2, <2>3 DEF HasPage, Executed
  <2>8. ObjectSound(me)'
    BY <1>1, <1>2, <1>3, <2>2, <2>3, <2>5, <2>6, <2>7 DEF ObjectSound
  <2>9. IterationSound(me)'
    BY <1>1, <1>2, <1>6, <2>2, <2>3, OverSound
  <2>. QED
    BY <1>2, <1>7, <1>8, <2>4, <2>8, <2>9 DEF Sound
<1>10. CASE step = "dropping"
  <2>1. obj'[me] = NoObject /\ gen' = gen /\ abandoned' = abandoned \cup {obj[me].cti}
    BY <1>1, <1>2, <1>10 DEF Finished
  <2>2. obj'[me].cti = 0
    BY <2>1 DEF NoObject, NewObject
  <2>3. ObjectSound(me)' /\ IterationSound(me)'
    BY <1>1, <1>2, <1>3, <2>1, GoneSound
  <2>4. /\ \A s \in Slots : stmts[s] # 0 =>
              \/ \E p \in Queries : obj[p].alive /\ obj[p].cti = s
              \/ copyCti = s
              \/ s \in abandoned
        /\ \A p \in Queries : obj[p].cti # 0 =>
              /\ stmts[obj[p].cti] # 0
              /\ obj[p].cti # copyCti
              /\ \A r \in Queries \ {p} : obj[r].cti # obj[p].cti
    BY <1>1 DEF Sound, StatementsOwned
  <2>5. ASSUME NEW s \in Slots, stmts'[s] # 0
        PROVE  \/ \E p \in Queries : obj'[p].alive /\ obj'[p].cti = s
               \/ copyCti' = s
               \/ s \in abandoned'
    <3>1. CASE s = obj[me].cti
      BY <2>1, <3>1
    <3>2. CASE s # obj[me].cti
      BY <1>2, <1>5, <2>1, <2>4, <2>5, <3>2
    <3>. QED
      BY <3>1, <3>2
  <2>6. ASSUME NEW p \in Queries, obj'[p].cti # 0
        PROVE  /\ stmts'[obj'[p].cti] # 0
               /\ obj'[p].cti # copyCti'
               /\ \A r \in Queries \ {p} : obj'[r].cti # obj'[p].cti
    <3>1. p # me /\ obj'[p] = obj[p]
      BY <1>5, <2>2, <2>6
    <3>2. ASSUME NEW r \in Queries \ {p} PROVE obj'[r].cti # obj'[p].cti
      BY <1>5, <2>2, <2>4, <2>6, <3>1
    <3>. QED
      BY <1>2, <2>4, <2>6, <3>1, <3>2
  <2>7. StatementsOwned'
    BY <2>5, <2>6 DEF StatementsOwned
  <2>. QED
    BY <1>2, <1>7, <1>8, <2>3, <2>7 DEF Sound
<1>. QED
  BY <1>9, <1>10

-----------------------------------------------------------------------------
\* total_rows().

\* A step that sets the total of one object, if anything of it.
LEMMA TotalSound ==
    ASSUME NEW q \in Queries, TypeOK, ObjectSound(q), IterationSound(q),
           gen'[q] = gen[q],
           obj[q].cti # 0 => stmts'[obj[q].cti] = stmts[obj[q].cti],
           NEW t \in {NoTotal, Total}, obj'[q] = [obj[q] EXCEPT !.total = t]
    PROVE  ObjectSound(q)' /\ IterationSound(q)'
<1>1. obj[q] \in Objects
  BY DEF TypeOK
<1>2. /\ obj'[q].gqo = obj[q].gqo /\ obj'[q].offset = obj[q].offset
      /\ obj'[q].limit = obj[q].limit /\ obj'[q].cti = obj[q].cti /\ obj'[q].total = t
  BY <1>1 DEF Objects
<1>3. /\ obj'[q].alive = obj[q].alive /\ obj'[q].count = obj[q].count
      /\ obj'[q].auto = obj[q].auto /\ obj'[q].gqi = obj[q].gqi
  BY <1>1 DEF Objects
<1>4. /\ Miscounted(q)' <=> Miscounted(q)
      /\ HasPage(q)' <=> HasPage(q)
      /\ Executed(q)' <=> Executed(q)
  BY <1>2, <1>3 DEF Miscounted, HasPage, Executed
<1>5. PageSound(q) => PageSound(q)'
  BY <1>2, <1>3, <1>4 DEF PageSound
<1>6. ObjectSound(q)'
  BY <1>2, <1>3, <1>4, <1>5 DEF ObjectSound
<1>7. Wanted(q)' = Wanted(q)
  BY <1>2 DEF Wanted
<1>8. InPage(q) => InPage(q)'
  BY <1>2, <1>3, <1>4 DEF InPage
<1>9. IterationSound(q)'
  BY <1>2, <1>3, <1>4, <1>7, <1>8 DEF IterationSound
<1>. QED
  BY <1>6, <1>9

\* The count comes from the page at hand, or two other ways are taken.
LEMMA TotalRowsSound == ASSUME IInv, NEW q \in Queries, TotalRows(q) PROVE Sound'
<1>1. /\ TypeOK /\ Sound /\ ObjectSound(q) /\ IterationSound(q) /\ CopySound
      /\ obj \in [Queries -> Objects] /\ obj[q] \in Objects
  BY DEF IInv, Sound, TypeOK
<1>2. /\ UNCHANGED <<gen, copyCti, stmts, abandoned>> /\ me' = q /\ step = "idle"
      /\ obj[q].alive
  BY DEF TotalRows, Begin
<1>3. CASE obj' = obj /\ step' \in {"totalexec", "countexec"}
  <2>1. step' = "totalexec" => ~Executed(q) /\ obj[q].offset = 0
    BY <1>3 DEF TotalRows, Begin
  <2>2. ~Executed(q) => ~gen[q].on
    BY <1>1 DEF IterationSound, InPage, ObjectSound
  <2>3. MethodSound'
    BY <1>2, <1>3, <2>1, <2>2 DEF MethodSound, Executed
  <2>4. IterationSound(q)'
    BY <1>1, <1>2, <1>3, IterationKept
  <2>. QED
    BY <1>1, <1>2, <1>3, <2>3, <2>4, ObjectsKept
<1>4. CASE /\ obj[q].count /\ HasPage(q) /\ step' = "idle"
           /\ obj' = [obj EXCEPT ![q].total = obj[q].gqo.total]
  <2>1. obj[q].gqo.total = Total
    BY <1>1, <1>4 DEF ObjectSound, PageSound
  <2>2. /\ obj'[q] = [obj[q] EXCEPT !.total = Total]
        /\ \A p \in Queries : p # q => obj'[p] = obj[p]
    BY <1>1, <1>4, <2>1
  <2>3. ObjectSound(q)' /\ IterationSound(q)'
    <3>1. Total \in {NoTotal, Total} /\ gen'[q] = gen[q] /\ stmts' = stmts
      BY <1>2
    <3>. QED
      BY <1>1, <2>2, <3>1, TotalSound
  <2>4. obj'[q].cti = obj[q].cti /\ obj'[q].alive = obj[q].alive
    BY <1>1, <2>2 DEF Objects
  <2>5. StatementsOwned'
    <3>1. \A p \in Queries : /\ obj'[p].cti = obj[p].cti
                             /\ obj[p].alive /\ obj[p].cti # 0 => obj'[p].alive
      BY <2>2, <2>4
    <3>. QED
      BY <1>1, <1>2, <3>1, OwnedKept
  <2>6. CopySound' /\ MethodSound'
    BY <1>1, <1>2, <1>4 DEF CopySound, MethodSound
  <2>7. ASSUME NEW p \in Queries, p # q PROVE ObjectSound(p)' /\ IterationSound(p)'
    BY <1>1, <1>2, <2>2, <2>7, Others DEF Sound
  <2>. QED
    BY <2>3, <2>5, <2>6, <2>7 DEF Sound
<1>. QED
  BY <1>3, <1>4 DEF TotalRows, Begin

\* The query of its own that counts: no object holds its statement.
LEMMA CountExecSound == ASSUME IInv, CountExec PROVE Sound'
<1>1. /\ TypeOK /\ Sound /\ ObjectSound(me) /\ IterationSound(me) /\ CopySound
      /\ me \in Queries /\ obj \in [Queries -> Objects] /\ obj[me] \in Objects
  BY DEF IInv, Sound, TypeOK
<1>2. UNCHANGED <<gen, me, abandoned>> /\ step = "countexec" /\ step' = "countclose"
  BY DEF CountExec, Goto
<1>3. obj[me].alive /\ copyCti = 0
  BY <1>1, <1>2 DEF Sound, MethodSound, CopySound
<1>4. PICK c \in {0} \cup Slots :
         /\ \A s \in Slots : s # c => stmts'[s] = stmts[s]
         /\ c # 0 => stmts[c] = 0 /\ stmts'[c] # 0
         /\ copyCti' = c
         /\ obj' = [obj EXCEPT ![me].total = Total]
  BY <1>1, Counted
<1>5. /\ obj'[me] = [obj[me] EXCEPT !.total = Total]
      /\ \A p \in Queries : p # me => obj'[p] = obj[p]
  BY <1>1, <1>4
<1>6. \A p \in Queries : obj'[p].cti = obj[p].cti /\ obj'[p].alive = obj[p].alive
  BY <1>1, <1>5 DEF Objects
<1>7. /\ \A s \in Slots : stmts[s] # 0 =>
            \/ \E p \in Queries : obj[p].alive /\ obj[p].cti = s
            \/ copyCti = s
            \/ s \in abandoned
      /\ \A p \in Queries : obj[p].cti # 0 =>
            /\ stmts[obj[p].cti] # 0
            /\ obj[p].cti # copyCti
            /\ \A r \in Queries \ {p} : obj[r].cti # obj[p].cti
  BY <1>1 DEF Sound, StatementsOwned
<1>8. \A p \in Queries : obj[p].cti \in {0} \cup Slots
  BY <1>1, Fields DEF TypeOK
<1>9. ASSUME NEW p \in Queries, obj[p].cti # 0
      PROVE  obj[p].cti # c /\ stmts'[obj[p].cti] = stmts[obj[p].cti]
  <2>1. obj[p].cti # c
    BY <1>4, <1>7, <1>9
  <2>. QED
    BY <1>4, <1>8, <1>9, <2>1
<1>10. StatementsOwned'
  <2>1. ASSUME NEW s \in Slots, stmts'[s] # 0
        PROVE  \/ \E p \in Queries : obj'[p].alive /\ obj'[p].cti = s
               \/ copyCti' = s
               \/ s \in abandoned'
    <3>1. CASE s = c
      BY <1>4, <3>1
    <3>2. CASE s # c
      <4>1. stmts[s] # 0 /\ s # copyCti
        BY <1>3, <1>4, <2>1, <3>2, Fields
      <4>2. (\E p \in Queries : obj[p].alive /\ obj[p].cti = s) \/ s \in abandoned
        BY <1>7, <4>1
      <4>. QED
        BY <1>2, <1>6, <4>2
    <3>. QED
      BY <3>1, <3>2
  <2>2. ASSUME NEW p \in Queries, obj'[p].cti # 0
        PROVE  /\ stmts'[obj'[p].cti] # 0
               /\ obj'[p].cti # copyCti'
               /\ \A r \in Queries \ {p} : obj'[r].cti # obj'[p].cti
    <3>1. obj'[p].cti = obj[p].cti /\ obj[p].cti # 0
      BY <1>6, <2>2
    <3>2. ASSUME NEW r \in Queries \ {p} PROVE obj'[r].cti # obj'[p].cti
      BY <1>6, <1>7, <3>1
    <3>. QED
      BY <1>4, <1>7, <1>9, <3>1, <3>2
  <2>. QED
    BY <2>1, <2>2 DEF StatementsOwned
<1>11. CopySound'
  BY <1>2, <1>4 DEF CopySound
<1>12. MethodSound'
  BY <1>2, <1>3, <1>6, <1>1 DEF MethodSound
<1>13. ObjectSound(me)' /\ IterationSound(me)'
  <2>1. /\ Total \in {NoTotal, Total} /\ gen'[me] = gen[me]
        /\ obj[me].cti # 0 => stmts'[obj[me].cti] = stmts[obj[me].cti]
    BY <1>1, <1>2, <1>9
  <2>2. me' = me
    BY <1>2
  <2>. QED
    BY <1>1, <1>5, <2>1, <2>2, TotalSound
<1>14. ASSUME NEW p \in Queries, p # me PROVE ObjectSound(p)' /\ IterationSound(p)'
  BY <1>1, <1>2, <1>5, <1>9, <1>14, Others DEF Sound
<1>. QED
  BY <1>2, <1>10, <1>11, <1>12, <1>13, <1>14 DEF Sound

\* The statement of the temporary copy is closed, or left behind.
LEMMA CountCloseSound == ASSUME IInv, CountClose \/ CountCloseFails PROVE Sound'
<1>1. /\ TypeOK /\ Sound /\ CopySound /\ copyCti \in {0} \cup Slots /\ 0 \notin Slots
  BY Fields DEF IInv, Sound, TypeOK
<1>2. UNCHANGED <<obj, gen, me>> /\ copyCti' = 0 /\ step' = "idle"
  BY DEF CountClose, CountCloseFails, Goto
<1>3. /\ \A s \in Slots : s # copyCti => stmts'[s] = stmts[s]
      /\ \/ copyCti # 0 => stmts'[copyCti] = 0
         \/ copyCti \in abandoned'
      /\ abandoned \subseteq abandoned'
  <2>1. CASE CountClose /\ copyCti = 0
    BY <1>1, <2>1 DEF CountClose
  <2>2. CASE CountClose /\ copyCti > 0
    <3>1. copyCti \in Slots /\ TRUE \in BOOLEAN
      BY <1>1, <2>2
    <3>2. Fetches(copyCti, TRUE, PageAt(stmts[copyCti], MaxSqlRows, TRUE), 0)
      <4>1. copyCti # 0
        BY <1>1, <3>1
      <4>. QED
        BY <2>2, <4>1 DEF CountClose
    <3>. QED
      BY <1>1, <2>2, <3>1, <3>2, Closing DEF CountClose
  <2>3. CASE CountCloseFails
    BY <2>3 DEF CountCloseFails
  <2>4. copyCti = 0 \/ copyCti > 0
    BY <1>1 DEF Slots
  <2>. QED
    BY <2>1, <2>2, <2>3, <2>4
<1>4. /\ \A s \in Slots : stmts[s] # 0 =>
            \/ \E p \in Queries : obj[p].alive /\ obj[p].cti = s
            \/ copyCti = s
            \/ s \in abandoned
      /\ \A p \in Queries : obj[p].cti # 0 =>
            /\ stmts[obj[p].cti] # 0
            /\ obj[p].cti # copyCti
            /\ \A r \in Queries \ {p} : obj[r].cti # obj[p].cti
  BY <1>1 DEF Sound, StatementsOwned
<1>5. \A p \in Queries : obj[p].cti \in {0} \cup Slots
  BY <1>1, Fields DEF TypeOK
<1>6. \A p \in Queries : obj[p].cti # 0 => stmts'[obj[p].cti] = stmts[obj[p].cti]
  BY <1>3, <1>4, <1>5
<1>7. ASSUME NEW s \in Slots, stmts'[s] # 0
      PROVE  \/ \E p \in Queries : obj[p].alive /\ obj[p].cti = s
             \/ s \in abandoned'
  <2>1. CASE s = copyCti
    BY <1>1, <1>3, <1>7, <2>1
  <2>2. CASE s # copyCti
    BY <1>3, <1>4, <1>7, <2>2
  <2>. QED
    BY <2>1, <2>2
<1>8. StatementsOwned'
  <2>1. ASSUME NEW p \in Queries, obj'[p].cti # 0
        PROVE  /\ stmts'[obj'[p].cti] # 0
               /\ obj'[p].cti # copyCti'
               /\ \A r \in Queries \ {p} : obj'[r].cti # obj'[p].cti
    BY <1>2, <1>4, <1>6, <2>1
  <2>. QED
    BY <1>2, <1>7, <2>1 DEF StatementsOwned
<1>9. CopySound' /\ MethodSound'
  BY <1>2 DEF CopySound, MethodSound
<1>10. ASSUME NEW p \in Queries PROVE ObjectSound(p)' /\ IterationSound(p)'
  BY <1>1, <1>2, <1>6, Others DEF Sound
<1>. QED
  BY <1>8, <1>9, <1>10 DEF Sound

\* The query that counts is not executed.
LEMMA CountExecFailsSound == ASSUME IInv, CountExecFails PROVE Sound'
<1>1. IterationSound(me) /\ me \in Queries
  BY DEF IInv, Sound, TypeOK
<1>2. UNCHANGED <<obj, gen, me, copyCti, stmts, abandoned>> /\ step = "countexec" /\ step' = "idle"
  BY DEF CountExecFails, Goto
<1>3. IterationSound(me)'
  BY <1>1, <1>2, IterationKept
<1>4. MethodSound'
  BY <1>2 DEF MethodSound
<1>. QED
  BY <1>1, <1>2, <1>3, <1>4, ObjectsKept

\* A new object.
LEMMA NewSound == ASSUME IInv, NEW q \in Queries, New(q) PROVE Sound'
<1>1. PICK offset \in Offsets, limit \in Limits :
         obj' = [obj EXCEPT ![q] = NewObject(offset, limit, FALSE)]
  BY DEF New
<1>2. offset \in Offsets \cup CopyOffsets /\ limit \in Nat
  BY ArgumentsAssumption
<1>. QED
  BY <1>1, <1>2, FreshSound DEF New

LEMMA CopyIsSound == ASSUME IInv, NEW q \in Queries, NEW p \in Queries, Copy(q, p) PROVE Sound'
<1>1. PICK offset \in CopyOffsets :
         obj' = [obj EXCEPT ![p] = NewObject(offset, obj[q].limit, obj[q].count)]
  BY DEF Copy
<1>2. offset \in Offsets \cup CopyOffsets /\ (CopiesFromStart => ~(offset > 0))
  BY DEF CopiesFromStart
<1>3. obj[q].limit \in Nat
  BY Fields DEF IInv, TypeOK
<1>. QED
  BY <1>1, <1>2, <1>3, FreshSound DEF Copy

LEMMA InitSound == Init => IInv
<1>. SUFFICES ASSUME Init PROVE IInv
  OBVIOUS
<1>1. \A q \in Queries : /\ obj[q] = NoObject /\ gen[q] = NoGenerator
  BY DEF Init
<1>2. /\ ~NoObject.alive /\ ~NoObject.count /\ NoObject.cti = 0
      /\ NoObject.gqo = NoPage /\ NoObject.total = NoTotal
  BY DEF NoObject, NewObject
<1>3. ~NoGenerator.on /\ NoGenerator.rowi = 0
  BY DEF NoGenerator
<1>4. ASSUME NEW q \in Queries PROVE ObjectSound(q) /\ IterationSound(q)
  BY <1>1, <1>2, <1>3 DEF ObjectSound, IterationSound, HasPage, Miscounted
<1>5. StatementsOwned
  BY <1>1, <1>2 DEF Init, StatementsOwned
<1>6. CopySound /\ MethodSound
  BY DEF Init, CopySound, MethodSound
<1>. QED
  BY <1>4, <1>5, <1>6, InitTypes DEF IInv, Sound

LEMMA StutterSound == ASSUME IInv, UNCHANGED vars PROVE Sound'
<1>1. Sound /\ me \in Queries /\ UNCHANGED <<obj, gen, me, step, copyCti, stmts, abandoned>>
  BY DEF IInv, TypeOK, vars
<1>2. ASSUME NEW q \in Queries PROVE ObjectSound(q)' /\ IterationSound(q)'
  BY <1>1, Others DEF Sound
<1>3. StatementsOwned' /\ CopySound'
  BY <1>1 DEF Sound, StatementsOwned, CopySound
<1>4. MethodSound'
  BY <1>1 DEF Sound, MethodSound, InPage, HasPage, Executed, LimitReached
<1>. QED
  BY <1>2, <1>3, <1>4 DEF Sound

\* The invariant is inductive.
LEMMA NextInv == IInv /\ [Next]_vars => IInv'
<1>. SUFFICES ASSUME IInv, [Next]_vars PROVE IInv'
  OBVIOUS
<1>1. TypeOK'
  BY TypeStep
<1>2. CASE Running
  BY <1>1, <1>2, ExecSound, ExecFailsSound, YieldSound, EndSound, FetchSound, FetchFailsSound,
     CloseNothingSound, CloseFetchSound, CloseFailsSound, CountExecSound, CountExecFailsSound,
     CountCloseSound
     DEF Running, Answered, IInv
<1>3. CASE \E q \in Queries : Using(q)
  BY <1>1, <1>3, NewSound, IterateSound, ResumeSound, CloseSound, TotalRowsSound DEF Using, IInv
<1>4. CASE \E q, p \in Queries : Copy(q, p)
  BY <1>1, <1>4, CopyIsSound DEF IInv
<1>5. CASE UNCHANGED vars
  BY <1>1, <1>5, StutterSound DEF IInv
<1>. QED
  BY <1>2, <1>3, <1>4, <1>5 DEF Next

LEMMA Invariant == Spec => []IInv
  BY InitSound, NextInv, PTL DEF Spec

-----------------------------------------------------------------------------
\* What the rule that uses Query objects can rely on.

\* Objects, generators and statements keep their types; a page has at most
\* MaxSqlRows rows.
THEOREM TypeCorrect == Spec => []TypeOK
<1>1. IInv => TypeOK
  BY DEF IInv
<1>. QED
  BY <1>1, Invariant, PTL

\* Every open statement has an owner, and a continue index is an open statement
\* no other object has, whatever call of a microservice fails (_fetch(), close()
\* and __del__).
THEOREM StatementsAreOwned == Spec => []StatementsOwned
<1>1. IInv => StatementsOwned
  BY DEF IInv, Sound
<1>. QED
  BY <1>1, Invariant, PTL

\* The generator of Query.__iter__ yields consecutive rows across its pages.
THEOREM RowsOrdered == Spec => []RowsInOrder
<1>1. IInv => RowsInOrder
  BY DEF IInv, Sound, IterationSound, RowsInOrder
<1>. QED
  BY <1>1, Invariant, PTL

\* An iteration that ends by itself has yielded all the rows it had to, when no
\* copy is asked for with an offset: RETURN_TOTAL_ROW_COUNT comes along with
\* copy(), and the server gives no rows for it and an offset.
THEOREM RowsAllYielded == CopiesFromStart => (Spec => []RowsComplete)
<1>1. CASE CopiesFromStart
  <2>1. IInv => RowsComplete
    BY <1>1 DEF IInv, Sound, IterationSound, ObjectSound, RowsComplete
  <2>. QED
    BY <2>1, Invariant, PTL
<1>. QED
  BY <1>1

\* The same of every object by itself, copies at an offset or not: only one that
\* asks for a row count and an offset at once may end before its rows.
THEOREM RowsYielded ==
    Spec => [](\A q \in Queries :
        (obj[q].alive /\ gen[q].ended = "done" /\ ~gen[q].auto /\ ~Miscounted(q)) =>
            gen[q].rowi = Wanted(q))
<1>1. IInv => \A q \in Queries :
                 (obj[q].alive /\ gen[q].ended = "done" /\ ~gen[q].auto /\ ~Miscounted(q)) =>
                     gen[q].rowi = Wanted(q)
  BY DEF IInv, Sound, IterationSound
<1>. QED
  BY <1>1, Invariant, PTL

\* total_rows() gives the number of rows that match, by any of its three ways.
THEOREM TotalRowsRight == Spec => []TotalRowsExact
<1>1. IInv => TotalRowsExact
  BY DEF IInv, Sound, ObjectSound, TotalRowsExact
<1>. QED
  BY <1>1, Invariant, PTL

-----------------------------------------------------------------------------
\* Iterations make a plain stream of rows (RowStream).

StopRow(q) == IF Stage(q) = "none" THEN 0 ELSE gen[q].base + Wanted(q)

\* What a step of GenQuery1 means for the stream of object q.
Kept(q) == /\ Stage(q)' = Stage(q)
           /\ NextRow(q)' = NextRow(q)
           /\ StopRow(q)' = StopRow(q)

Begins(q) == /\ Stage(q) # "on" /\ Stage(q)' = "on"
             /\ NextRow(q)' \in Firsts /\ StopRow(q)' \in Firsts
             /\ NextRow(q)' <= StopRow(q)'

Takes(q) == /\ Stage(q) = "on" /\ Stage(q)' = "on"
            /\ NextRow(q) < StopRow(q)
            /\ NextRow(q)' = NextRow(q) + 1
            /\ StopRow(q)' = StopRow(q)

Ends(q) == /\ Stage(q) = "on"
           /\ \/ Stage(q)' = "done" /\ NextRow(q) = StopRow(q)
              \/ Stage(q)' = "broken"
           /\ NextRow(q)' = NextRow(q)
           /\ StopRow(q)' = StopRow(q)

Forgets(q) == /\ Stage(q) # "on" /\ Stage(q)' = "none"
              /\ NextRow(q)' = 0 /\ StopRow(q)' = 0

LEMMA StreamStep ==
    ASSUME NEW q \in Queries, \A p \in Queries : p # q => Kept(p),
           Kept(q) \/ Begins(q) \/ Takes(q) \/ Ends(q) \/ Forgets(q)
    PROVE  [Stream!Next]_(Stream!vars)
<1>. DEFINE state == [p \in Queries |-> Stage(p)]
            next == [p \in Queries |-> NextRow(p)]
            stop == [p \in Queries |-> StopRow(p)]
<1>1. \A p \in Queries : state[p] = Stage(p) /\ next[p] = NextRow(p) /\ stop[p] = StopRow(p)
  OBVIOUS
<1>2. CASE Kept(q)
  <2>1. \A p \in Queries : Kept(p)
    BY <1>2
  <2>2. state' = state /\ next' = next /\ stop' = stop
    BY <2>1 DEF Kept
  <2>. QED
    BY <2>2 DEF Stream!vars, StopRow
<1>3. CASE Begins(q)
  <2>1. /\ state' = [state EXCEPT ![q] = "on"]
        /\ next' = [next EXCEPT ![q] = NextRow(q)']
        /\ stop' = [stop EXCEPT ![q] = StopRow(q)']
    BY <1>3 DEF Kept, Begins
  <2>2. Stream!Begin(q)
    BY <1>1, <1>3, <2>1 DEF Begins, Stream!Begin, Stream!Move, StopRow, Firsts
  <2>. QED
    BY <2>2 DEF Stream!Next
<1>4. CASE Takes(q)
  <2>1. state' = state /\ next' = [next EXCEPT ![q] = NextRow(q) + 1] /\ stop' = stop
    BY <1>4 DEF Kept, Takes
  <2>2. Stream!Take(q)
    BY <1>1, <1>4, <2>1 DEF Takes, Stream!Take, StopRow
  <2>. QED
    BY <2>2 DEF Stream!Next
<1>5. CASE Ends(q)
  <2>1. state' = [state EXCEPT ![q] = Stage(q)'] /\ next' = next /\ stop' = stop
    BY <1>5 DEF Kept, Ends
  <2>2. Stream!Finish(q) \/ Stream!Break(q)
    BY <1>1, <1>5, <2>1 DEF Ends, Stream!Finish, Stream!Break, Stream!Move, StopRow
  <2>. QED
    BY <2>2 DEF Stream!Next
<1>6. CASE Forgets(q)
  <2>1. /\ state' = [state EXCEPT ![q] = "none"]
        /\ next' = [next EXCEPT ![q] = 0]
        /\ stop' = [stop EXCEPT ![q] = 0]
    BY <1>6 DEF Kept, Forgets
  <2>2. Stream!Forget(q)
    BY <1>1, <1>6, <2>1 DEF Forgets, Stream!Forget, Stream!Move, StopRow
  <2>. QED
    BY <2>2 DEF Stream!Next
<1>. QED
  BY <1>2, <1>3, <1>4, <1>5, <1>6

\* An object whose rows, and place in them, a step leaves as they are.
LEMMA StreamKept ==
    ASSUME NEW q \in Queries,
           obj'[q].alive <=> obj[q].alive, obj'[q].limit = obj[q].limit,
           gen'[q].base = gen[q].base, gen'[q].rowi = gen[q].rowi, gen'[q].row = gen[q].row,
           Iterating(q)' <=> Iterating(q),
           Iterating(q) \/ (gen'[q].ended = gen[q].ended /\ (gen'[q].auto <=> gen[q].auto))
    PROVE  Kept(q)
<1>1. Wanted(q)' = Wanted(q)
  BY DEF Wanted
<1>2. Stage(q)' = Stage(q)
  BY DEF Stage
<1>. QED
  BY <1>1, <1>2 DEF Kept, NextRow, StopRow

\* An object that is not the one whose method runs, before or after.
LEMMA StreamOthers ==
    ASSUME NEW q \in Queries, obj'[q] = obj[q], gen'[q] = gen[q],
           q = me => step \notin {"rows", "fetch", "ending"},
           q = me' => step' \notin {"rows", "fetch", "ending"}
    PROVE  Kept(q)
<1>1. Iterating(q)' <=> Iterating(q)
  BY DEF Iterating
<1>. QED
  BY <1>1, StreamKept

\* The row an iteration yields next.
LEMMA NextIs ==
    ASSUME IInv, NEW q \in Queries, Stage(q) # "none"
    PROVE  NextRow(q) = gen[q].base + gen[q].rowi /\ StopRow(q) = gen[q].base + Wanted(q)
<1>1. IterationSound(q) /\ gen[q] \in Generators
  BY DEF IInv, Sound, TypeOK
<1>2. gen[q].base \in Nat /\ gen[q].rowi \in Nat
  BY <1>1, Fields
<1>3. gen[q].rowi > 0 => gen[q].row = gen[q].base + gen[q].rowi - 1
  BY <1>1 DEF IterationSound
<1>. QED
  BY <1>2, <1>3 DEF NextRow, StopRow

\* An iteration that has rows to begin with.
LEMMA StreamBegins ==
    ASSUME NEW q \in Queries, TypeOK', Stage(q) # "on",
           obj'[q].alive, gen'[q].base \in Firsts, gen'[q].rowi = 0, Iterating(q)'
    PROVE  Begins(q)
<1>1. gen'[q].base \in Nat /\ gen'[q].base # 0
  BY SizesAssumption, ArgumentsAssumption DEF Firsts
<1>2. obj'[q].limit \in Nat
  BY Fields DEF TypeOK
<1>3. Stage(q)' = "on"
  BY <1>1 DEF Stage
<1>4. NextRow(q)' = gen'[q].base /\ StopRow(q)' = gen'[q].base + Wanted(q)'
  BY <1>3 DEF NextRow, StopRow
<1>5. \/ Wanted(q)' = 0
      \/ Wanted(q)' \in Nat /\ gen'[q].base + Wanted(q)' <= Total + 1
  BY <1>1, <1>2, SizesAssumption DEF Wanted, RowsFrom
<1>6. gen'[q].base + Wanted(q)' \in Firsts /\ gen'[q].base <= gen'[q].base + Wanted(q)'
  BY <1>1, <1>5, SizesAssumption DEF Firsts
<1>. QED
  BY <1>3, <1>4, <1>6 DEF Begins

\* An iteration that is over when a method returns.
LEMMA StreamEnds ==
    ASSUME IInv, CopiesFromStart, NEW q \in Queries, Iterating(q), ~Iterating(q)',
           obj[q].alive, obj'[q].alive, obj'[q].limit = obj[q].limit,
           gen'[q].base = gen[q].base, gen'[q].rowi = gen[q].rowi, gen'[q].row = gen[q].row,
           \/ gen'[q].ended = gen[q].ended /\ (gen'[q].auto <=> gen[q].auto)
           \/ gen'[q].ended = "raised"
    PROVE  Kept(q) \/ Ends(q)
<1>1. Wanted(q)' = Wanted(q)
  BY DEF Wanted
<1>2. CASE gen[q].base = 0
  BY <1>2 DEF Kept, Stage, NextRow, StopRow
<1>3. CASE gen[q].base # 0
  <2>1. Stage(q) = "on" /\ Stage(q)' \in {"done", "broken"}
    BY <1>3 DEF Stage
  <2>2. NextRow(q)' = NextRow(q) /\ StopRow(q)' = StopRow(q)
    BY <1>1, <2>1 DEF NextRow, StopRow
  <2>3. ASSUME Stage(q)' = "done" PROVE NextRow(q) = StopRow(q)
    <3>1. gen[q].ended = "done" /\ ~gen[q].auto
      BY <1>3, <2>3 DEF Stage
    <3>2. gen[q].rowi = Wanted(q)
      BY <3>1 DEF IInv, Sound, IterationSound, ObjectSound
    <3>. QED
      BY <2>1, <3>2, NextIs
  <2>. QED
    BY <2>1, <2>2, <2>3 DEF Ends
<1>. QED
  BY <1>2, <1>3

\* No iteration is in progress, and the object goes away or begins anew.
LEMMA StreamForgets ==
    ASSUME NEW q \in Queries, ~Iterating(q), ~obj'[q].alive \/ gen'[q].base = 0
    PROVE  Forgets(q)
BY DEF Forgets, Stage, NextRow, StopRow

\* A call of the rule.
LEMMA UsingStreams ==
    ASSUME IInv, IInv', NEW q \in Queries, Using(q) PROVE [Stream!Next]_(Stream!vars)
<1>1. /\ TypeOK /\ TypeOK' /\ ObjectSound(q) /\ ObjectSound(q)'
      /\ gen \in [Queries -> Generators] /\ obj \in [Queries -> Objects]
  BY DEF IInv, Sound, TypeOK
<1>2. /\ step = "idle"
      /\ \A p \in Queries : p # q => obj'[p] = obj[p] /\ gen'[p] = gen[p]
      /\ q = me' \/ step' = "idle"
  BY <1>1 DEF Using, New, Iterate, Resume, Abandon, Close, Drop, TotalRows, Begin
<1>3. ASSUME NEW p \in Queries, p # q PROVE Kept(p)
  <2>1. p = me' => step' = "idle"
    BY <1>2, <1>3
  <2>. QED
    BY <1>2, <1>3, <2>1, StreamOthers
<1>4. CASE New(q)
  <2>1. gen'[q] = NoGenerator
    BY <1>1, <1>4 DEF New
  <2>2. gen'[q].base = 0 /\ ~obj[q].alive
    BY <1>4, <2>1 DEF New, NoGenerator
  <2>3. Kept(q)
    BY <2>2 DEF Kept, Stage, NextRow, StopRow
  <2>. QED
    BY <1>3, <2>3, StreamStep
<1>5. CASE Iterate(q)
  <2>1. /\ ~Iterating(q) /\ obj[q].alive /\ obj' = obj /\ me' = q
        /\ \/ gen'[q] = NoGenerator
           \/ /\ HasPage(q) /\ step' = "rows"
              /\ gen'[q] = [NoGenerator EXCEPT !.base = obj[q].gqo.first, !.auto = obj[q].auto]
           \/ gen'[q] = [NoGenerator EXCEPT !.ended = "raised"]
    BY <1>1, <1>2, <1>5 DEF Iterate, Iterating, Begin
  <2>2. CASE gen'[q].base = 0
    BY <1>3, <2>1, <2>2, StreamForgets, StreamStep
  <2>3. CASE gen'[q].base # 0
    <3>1. /\ HasPage(q) /\ step' = "rows"
          /\ gen'[q].base = obj[q].gqo.first /\ gen'[q].rowi = 0
      <4>1. /\ NoGenerator.base = 0
            /\ [NoGenerator EXCEPT !.ended = "raised"].base = 0
        BY DEF NoGenerator
      <4>2. /\ HasPage(q) /\ step' = "rows"
            /\ gen'[q] = [NoGenerator EXCEPT !.base = obj[q].gqo.first, !.auto = obj[q].auto]
        BY <2>1, <2>3, <4>1
      <4>. QED
        BY <4>2 DEF NoGenerator
    <3>2. obj[q].gqo.first \in Firsts
      BY <1>1, <3>1 DEF ObjectSound, PageSound
    <3>3. Iterating(q)' /\ Stage(q) # "on"
      BY <2>1, <3>1 DEF Iterating, Stage
    <3>4. Begins(q)
      BY <1>1, <2>1, <3>1, <3>2, <3>3, StreamBegins
    <3>. QED
      BY <1>3, <3>4, StreamStep
  <2>. QED
    BY <2>2, <2>3
<1>6. CASE Resume(q) \/ Abandon(q)
  <2>1. /\ gen'[q].base = gen[q].base /\ gen'[q].rowi = gen[q].rowi /\ gen'[q].row = gen[q].row
        /\ obj' = obj /\ me' = q /\ gen[q].on /\ step' \in {"rows", "ending"}
    BY <1>1, <1>6 DEF Resume, Abandon, Begin, Generators
  <2>2. Iterating(q) /\ Iterating(q)'
    BY <2>1 DEF Iterating
  <2>3. Kept(q)
    BY <2>1, <2>2, StreamKept
  <2>. QED
    BY <1>3, <2>3, StreamStep
<1>7. CASE Close(q) \/ Drop(q) \/ TotalRows(q)
  <2>1. /\ gen' = gen /\ obj'[q].alive = obj[q].alive /\ obj'[q].limit = obj[q].limit
        /\ step' \notin {"rows", "fetch", "ending"}
    BY <1>1, <1>7 DEF Close, Drop, TotalRows, Begin, Objects
  <2>2. Iterating(q)' <=> Iterating(q)
    BY <1>2, <2>1 DEF Iterating
  <2>3. Kept(q)
    BY <2>1, <2>2, StreamKept
  <2>. QED
    BY <1>3, <2>3, StreamStep
<1>. QED
  BY <1>4, <1>5, <1>6, <1>7 DEF Using

LEMMA CopyStreams ==
    ASSUME IInv, NEW q \in Queries, NEW p \in Queries, Copy(q, p)
    PROVE  [Stream!Next]_(Stream!vars)
<1>1. gen \in [Queries -> Generators] /\ obj \in [Queries -> Objects]
  BY DEF IInv, TypeOK
<1>2. /\ step = "idle" /\ step' = "idle" /\ me' = me /\ ~obj[p].alive
      /\ \A r \in Queries : r # p => obj'[r] = obj[r] /\ gen'[r] = gen[r]
      /\ gen'[p] = NoGenerator
  BY <1>1 DEF Copy
<1>3. ASSUME NEW r \in Queries, r # p PROVE Kept(r)
  BY <1>2, <1>3, StreamOthers
<1>4. gen'[p].base = 0
  BY <1>2 DEF NoGenerator
<1>5. Kept(p)
  BY <1>2, <1>4 DEF Kept, Stage, NextRow, StopRow
<1>. QED
  BY <1>3, <1>5, StreamStep

\* A step of a method of object q.
LEMMA RunningStreams ==
    ASSUME IInv, IInv', CopiesFromStart, NEW q \in Queries, q = me, Running
    PROVE  [Stream!Next]_(Stream!vars)
<1>1. /\ TypeOK /\ TypeOK' /\ MethodSound /\ ObjectSound(q) /\ ObjectSound(q)'
      /\ IterationSound(q)
      /\ gen \in [Queries -> Generators] /\ obj \in [Queries -> Objects]
      /\ gen[q] \in Generators /\ obj[q] \in Objects
  BY DEF IInv, Sound, TypeOK
<1>2. me' = q
  BY DEF Running, Answered, Exec, ExecFails, Yield, StopAtLimit, EndOfPage, Fetch,
         CloseNothing, CloseFetch, CountExec, CountExecFails, CountClose, FetchFails,
         CloseFails, CountCloseFails
<1>3. \A p \in Queries : p # q => gen'[p] = gen[p]
  BY <1>1 DEF Running, Answered, Exec, ExecFails, Raise, Yield, StopAtLimit, EndOfPage, Fetch,
         CloseNothing, CloseFetch, CountExec, CountExecFails, CountClose, FetchFails,
         CloseFails, CountCloseFails
<1>4. \A p \in Queries : p # q => obj'[p] = obj[p]
  BY <1>1 DEF Running, Answered, Exec, ExecFails, Raise, Yield, StopAtLimit, EndOfPage, Fetch,
         CloseNothing, CloseFetch, CountExec, CountExecFails, CountClose, FetchFails,
         CloseFails, CountCloseFails
<1>5. ASSUME NEW p \in Queries, p # q PROVE Kept(p)
  BY <1>2, <1>3, <1>4, <1>5, StreamOthers
<1>6. SUFFICES Kept(q) \/ Begins(q) \/ Takes(q) \/ Ends(q) \/ Forgets(q)
  BY <1>5, StreamStep
<1>7. CASE Exec
  <2>1. PICK page \in Page : /\ page.first = obj[q].offset + 1
                             /\ step = "exec" => gen' = [gen EXCEPT ![q].base = page.first]
    BY <1>1, <1>7, Executes
  <2>2. obj'[q].alive = obj[q].alive /\ obj'[q].limit = obj[q].limit
    BY <1>1, <1>7 DEF Exec, Objects
  <2>3. CASE step = "exec"
    <3>1. gen[q] = NoGenerator /\ obj[q].alive
      BY <1>1, <2>3 DEF MethodSound
    <3>2. gen'[q].base = page.first /\ gen'[q].rowi = 0 /\ step' = "rows"
      BY <1>1, <1>7, <2>1, <2>3, <3>1 DEF Exec, Goto, NoGenerator
    <3>3. obj[q].offset + 1 \in Firsts
      BY <1>1, <3>1 DEF ObjectSound, Firsts
    <3>4. Iterating(q)' /\ Stage(q) # "on"
      BY <1>2, <3>1, <3>2 DEF Iterating, Stage, NoGenerator
    <3>. QED
      BY <1>1, <2>1, <2>2, <3>1, <3>2, <3>3, <3>4, StreamBegins
  <2>4. CASE step = "totalexec"
    <3>1. gen' = gen /\ step' = "idle"
      BY <1>7, <2>4 DEF Exec, Goto
    <3>2. Iterating(q)' <=> Iterating(q)
      BY <1>2, <2>4, <3>1 DEF Iterating
    <3>. QED
      BY <2>2, <3>1, <3>2, StreamKept
  <2>. QED
    BY <1>7, <2>3, <2>4 DEF Exec
<1>8. CASE ExecFails
  <2>1. obj'[q].alive = obj[q].alive /\ obj'[q].limit = obj[q].limit
    BY <1>1, <1>8 DEF ExecFails, Objects
  <2>2. CASE step = "exec"
    <3>1. gen[q] = NoGenerator
      BY <1>1, <2>2 DEF MethodSound
    <3>2. gen[q].base = 0 /\ gen'[q].base = 0
      BY <1>1, <1>8, <2>2, <3>1 DEF ExecFails, Raise, NoGenerator
    <3>. QED
      BY <3>2 DEF Kept, Stage, NextRow, StopRow
  <2>3. CASE step = "totalexec"
    <3>1. gen' = gen /\ step' = "idle"
      BY <1>8, <2>3 DEF ExecFails, Goto
    <3>2. Iterating(q)' <=> Iterating(q)
      BY <1>2, <2>3, <3>1 DEF Iterating
    <3>. QED
      BY <2>1, <3>1, <3>2, StreamKept
  <2>. QED
    BY <1>8, <2>2, <2>3 DEF ExecFails
<1>9. CASE Yield
  <2>1. /\ gen'[q].base = gen[q].base /\ gen'[q].rowi = gen[q].rowi + 1
        /\ gen'[q].row = obj[q].gqo.first + gen[q].r
    BY <1>1, <1>9 DEF Yield, Generators
  <2>2. gen'[q].on
    BY <1>1, <1>9 DEF Yield, Generators
  <2>3. /\ obj' = obj /\ step = "rows"
        /\ gen[q].r < obj[q].gqo.rows /\ ~LimitReached(q)
    BY <1>9 DEF Yield
  <2>4. /\ InPage(q) /\ PageSound(q)
        /\ gen[q].base \in Nat /\ gen[q].rowi \in Nat /\ gen[q].r \in Nat
        /\ obj[q].gqo.first \in Nat /\ obj[q].gqo.rows \in Nat /\ obj[q].limit \in Nat
    BY <1>1, <2>3, Fields DEF MethodSound, ObjectSound, InPage
  <2>5. /\ gen[q].base + gen[q].rowi = obj[q].gqo.first + gen[q].r
        /\ gen[q].base + gen[q].rowi < Total + 1
        /\ obj[q].alive /\ gen[q].base # 0
    BY <2>3, <2>4, SizesAssumption DEF InPage, PageSound, After
  <2>6. Wanted(q) \in Nat /\ gen[q].rowi < Wanted(q) /\ Wanted(q)' = Wanted(q)
    BY <2>1, <2>3, <2>4, <2>5, SizesAssumption DEF Wanted, RowsFrom, LimitReached
  <2>7. Stage(q) = "on" /\ Stage(q)' = "on"
    BY <2>1, <2>2, <2>3, <2>5 DEF Stage, Iterating
  <2>8. /\ NextRow(q) = gen[q].base + gen[q].rowi
        /\ StopRow(q) = gen[q].base + Wanted(q)
    BY <2>7, NextIs
  <2>9. /\ NextRow(q)' = obj[q].gqo.first + gen[q].r + 1
        /\ StopRow(q)' = gen[q].base + Wanted(q)
    BY <2>1, <2>4, <2>6, <2>7 DEF NextRow, StopRow
  <2>. QED
    BY <2>4, <2>5, <2>6, <2>7, <2>8, <2>9 DEF Takes
<1>10. CASE StopAtLimit \/ EndOfPage \/ Fetch
  <2>1. obj'[q].alive = obj[q].alive /\ obj'[q].limit = obj[q].limit
    BY <1>1, <1>10 DEF StopAtLimit, EndOfPage, Fetch, Objects
  <2>2. gen'[q].base = gen[q].base /\ gen'[q].rowi = gen[q].rowi /\ gen'[q].row = gen[q].row
    BY <1>1, <1>10 DEF StopAtLimit, EndOfPage, Fetch, Generators
  <2>3. Iterating(q) /\ Iterating(q)'
    BY <1>2, <1>10 DEF StopAtLimit, EndOfPage, Fetch, Goto, Iterating
  <2>. QED
    BY <2>1, <2>2, <2>3, StreamKept
<1>11. CASE CountExec \/ CountExecFails \/ CountClose \/ CountCloseFails
  <2>1. obj'[q].alive = obj[q].alive /\ obj'[q].limit = obj[q].limit /\ gen' = gen
    BY <1>1, <1>11 DEF CountExec, CountExecFails, CountClose, CountCloseFails, Objects
  <2>2. Iterating(q)' <=> Iterating(q)
    BY <1>2, <1>11, <2>1
       DEF CountExec, CountExecFails, CountClose, CountCloseFails, Goto, Iterating
  <2>. QED
    BY <2>1, <2>2, StreamKept
<1>12. CASE FetchFails \/ CloseNothing \/ CloseFetch \/ CloseFails
  <2>1. ~gen[q].on /\ obj[q].alive /\ step' = "idle"
    BY <1>1, <1>12 DEF FetchFails, CloseNothing, CloseFetch, CloseFails, ClosingSteps,
                       MethodSound, Raise, Goto
  <2>2. /\ gen'[q].base = gen[q].base /\ gen'[q].rowi = gen[q].rowi /\ gen'[q].row = gen[q].row
        /\ \/ gen'[q] = gen[q]
           \/ gen'[q].ended = "raised" /\ step \in {"fetch", "ending"}
        /\ ~gen'[q].on
    <3>1. \/ gen' = gen
          \/ /\ step \in {"fetch", "ending"}
             /\ gen' = [gen EXCEPT ![q].on = FALSE, ![q].ended = "raised"]
      BY <1>12 DEF FetchFails, CloseNothing, CloseFetch, CloseFails, Raise
    <3>2. CASE gen' = gen
      BY <2>1, <3>2
    <3>3. CASE /\ step \in {"fetch", "ending"}
               /\ gen' = [gen EXCEPT ![q].on = FALSE, ![q].ended = "raised"]
      BY <1>1, <3>3 DEF Generators
    <3>. QED
      BY <3>1, <3>2, <3>3
  <2>4. CASE step = "dropping"
    <3>1. obj'[q] = NoObject
      BY <1>1, <1>12, <2>4 DEF FetchFails, CloseNothing, CloseFetch, CloseFails, Finished
    <3>2. ~obj'[q].alive /\ ~Iterating(q)
      BY <2>1, <2>4, <3>1 DEF NoObject, NewObject, Iterating
    <3>. QED
      BY <3>2, StreamForgets
  <2>5. CASE step # "dropping"
    <3>1. obj'[q].alive = obj[q].alive /\ obj'[q].limit = obj[q].limit
      BY <1>1, <1>12, <2>5
         DEF FetchFails, CloseNothing, CloseFetch, CloseFails, Finished, Closed, Objects
    <3>2. ~Iterating(q)'
      BY <2>1, <2>2 DEF Iterating
    <3>3. CASE Iterating(q)
      BY <2>1, <2>2, <3>1, <3>2, <3>3, StreamEnds
    <3>4. CASE ~Iterating(q)
      <4>1. gen'[q] = gen[q]
        BY <2>2, <3>4 DEF Iterating
      <4>. QED
        BY <2>2, <3>1, <3>2, <3>4, <4>1, StreamKept
    <3>. QED
      BY <3>3, <3>4
  <2>. QED
    BY <2>4, <2>5
<1>. QED
  BY <1>7, <1>8, <1>9, <1>10, <1>11, <1>12 DEF Running, Answered

\* Query objects implement RowStream, when no copy is asked for with an offset:
\* pages, continue indices, statements and closing are not seen through them.
THEOREM RowsMakeAStream == CopiesFromStart => (Spec => Streams)
<1>1. CASE CopiesFromStart
  <2>1. Init => Stream!Init
    <3>. SUFFICES ASSUME Init PROVE Stream!Init
      OBVIOUS
    <3>1. ASSUME NEW q \in Queries PROVE Stage(q) = "none" /\ NextRow(q) = 0
      BY DEF Init, Stage, NextRow, NoObject, NewObject
    <3>. QED
      BY <3>1 DEF Stream!Init
  <2>2. IInv /\ IInv' /\ [Next]_vars => [Stream!Next]_(Stream!vars)
    <3>. SUFFICES ASSUME IInv, IInv', [Next]_vars PROVE [Stream!Next]_(Stream!vars)
      OBVIOUS
    <3>1. CASE Running
      <4>1. PICK q \in Queries : q = me
        BY DEF IInv, TypeOK
      <4>. QED
        BY <1>1, <3>1, <4>1, RunningStreams
    <3>2. CASE \E q \in Queries : Using(q)
      BY <3>2, UsingStreams
    <3>3. CASE \E q, p \in Queries : Copy(q, p)
      BY <3>3, CopyStreams
    <3>4. CASE UNCHANGED vars
      <4>1. ASSUME NEW q \in Queries PROVE Kept(q)
        BY <3>4 DEF vars, Kept, Stage, NextRow, StopRow, Iterating, Wanted
      <4>2. me \in Queries
        BY DEF IInv, TypeOK
      <4>. QED
        BY <4>1, <4>2, StreamStep
    <3>. QED
      BY <3>1, <3>2, <3>3, <3>4 DEF Next
  <2>. QED
    BY <2>1, <2>2, Invariant, PTL DEF Spec, Streams, Stream!Spec
<1>. QED
  BY <1>1
=============================================================================
