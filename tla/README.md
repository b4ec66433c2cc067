# Verification of the iRODS Python rule engine plug-in

The plug-in embeds one CPython interpreter in an iRODS agent. The server calls it to run policy written in Python;
the policy calls microservices and rules of other engines through `callback`, and those may call the plug-in again.
This directory holds TLA+ models of its parts, TLC runs that check them on small instances, and TLAPS proofs of the
properties that matter most.

## Inventory

| part | state it keeps | operations | what makes it correct |
|---|---|---|---|
| interpreter access (`src/src/main.cpp`) | `python_mutex`, the GIL, `ts_main`, and per thread `ts_thread`, `ts_thread_refct` | `start`, `stop`, the lock and scope of every operation | Python runs under both locks; they cannot deadlock; nested scopes do not disturb outer ones; everything is given back |
| rule execution (`src/src/main.cpp`) | `builtins.irods_rule_vars`, `__main__`, `rsComm->rError` | `exec_rule`, `exec_rule_text`, `exec_rule_expression`, `rule_exists`, `list_rules`, `RuleCallWrapper::call`, `py_remote` | the code of a failure reaches the caller; a rule sees its own variables; messages of dynamic PEPs are cleared; only administrators run texts |
| `Query`, GenQuery1 (`src/genquery.py`) | options, `gqi`, `gqo`, `cti`, `_total`; a generator's place; the server's statements | constructor, `copy`, iteration, `first`, `close`, `__del__`, `total_rows` | rows in order, each once, up to the limit; no statement leaks; exact row counts |
| `Query`, GenQuery2 (`src/genquery.py`) | `gq2_handle`, `order_by` | the same | the same, and the order asked for |
| `paged_iterator`, `row_iterator` (`src/genquery.py`) | a generator, `rows_per_page` | `next`, `set_rows_per_page` | pages partition the rows |
| static policies (`src/core.py.template`) | the catalog, through microservices | `acCreateUser`, `acDeleteUser`, `acRenameLocalZone`, ... | the catalog is consistent after every commit |
| argument marshalling (`src/include/irods/private/re/python.hpp`, `src/src/main.cpp`) | `rule_arguments_python`; `strings` and `msParams` of a callback | `object_from_any`, `update_argument`, `msParam_from_object`, `object_from_msParam` | the callee gets every argument; what conforms of what it left comes back, each in its place; nothing else is written |
| C arrays as sequences (`.../types/array_ref.hpp`, `array_indexing_suite.hpp`) | place and length of each view, the cells they share | index, slice, assignment | slices have the cells Python means; assignments stay inside them or change nothing |
| struct construction (`.../types/init_struct.hpp`, `raw_constructor.hpp`, `type_sequence.hpp`) | `index`, `index_into_array`, `iter`, shared by the calls of `populate_helper` | constructors | every argument reaches its member, or the constructor raises |
| bindings (`src/src/types/**`, `irods_types.cpp`, `irods_errors.cpp`) | the C structs | attributes read and assigned | an attribute shows the member of its name |
| `session_vars.py` | none | `get_map` | it reads nothing that is absent or not bound, and a value is missing only if its object is |

How they interact: the server calls an operation; the operation takes `python_mutex`, opens a
`python_thread_state_scope` (which takes the GIL when it is the thread's outermost) and runs Python code; that code
calls `callback.<name>(...)`, which goes to the server without releasing either lock and may come back as another
operation on the same thread. Arguments are converted on both ways, and written back on the return. `Query` objects live
in that Python code and talk to the server only through `callback`; so do structs, which a rule constructs or gets from the
server and which `session_vars.get_map` reads.

The hard behaviours: two locks whose order matters, one of which CPython hands over in the middle of a rule; nested
operations of one thread; an error code that travels as text through Python exceptions; microservices that fail
between two assignments; server statements whose life is tied to generators and `__del__`; policies that change the
catalog in several steps before one commit; arguments written back one by one from a list the rule may have changed;
constructors whose calls find their argument by counters alone. `PROJECT.json` lists each hazard at its line.

## Modules

**`PythonInterpreter`** (main.cpp 102-121, 278-305, 411-733). An operation of a thread is a walk through the stages
`lock -> enter [-> wantgil] -> python -> leave -> unlock`; each stage is an action named for what happens at its end.
`mutexOwner`/`mutexCount` are the recursive mutex, `refct[t]` is `ts_thread_refct`, `live[t]` counts the thread states
the thread owns. `CallBack` nests an operation, `Yield`/`Regain` are CPython's hand-over of the GIL (`yielded`
threads wait inside the evaluation loop). `start()` is `Start`, `StartLock`, `StartPython | StartRaises`,
`StartUnlock`, `Configure`; a start that raises keeps the GIL, as the code does. The host starts and stops the plug-in
when no operation is in progress. `PyThreadState_Swap` is left out: it stores the state that is current already.

**`ExclusiveInterpreter`** is what this is for: once open, one thread at a time inside, nested. `PythonInterpreter`
implements it with `level <- refct`, `open <- plugin = "running"` (`Serialised`).

**`RuleExecution`** (main.cpp 157-190, 246-276, 318-383, 638-1033). Since operations are serialised and nested, the
state is one stack of frames. The action `Begin...` of each kind of operation does what the code does up to the call of
the Python function: the import, the lookup that may raise, the overwriting of `irods_rule_vars`, the definition of
`main`. The formatted traceback is abstracted to the first error code in it, since that is all `exec_rule` reads;
`origin` and `straight` in an exception are there for the property only. A rule that fails may go on in except and finally
clauses (`RuleHandles`, left by `RuleHandled` or `RuleReraises`), in which it runs as anywhere else and may call back:
`handled` are the exceptions whose clauses it is in, `around` is what its caller was handling. An exception raised meanwhile
is `Chained` to the one being handled, and the text that `traceback.format_exception` makes of both begins with the latter.
`ReturnCode` is `to_irods_error_object` together with what `RuleCallWrapper::call` of the enclosing rule makes of the
result. `ClearErrors` is the `at_scope_exit` of `exec_rule`.

**`GenQuery1`** (genquery.py 120-411). `obj[q]` are the attributes of a `Query`, `gen[q]` the generator of its latest
iteration (`r`, `row_i`). Each microservice call is a step of its own with a failing variant (`ExecFails`,
`FetchFails`, `CloseFails`, `CountExecFails`, `CountCloseFails`); between the steps of one method nothing else runs,
because a rule is one thread, but a suspended generator and methods of other objects interleave freely. `Opens`,
`Fetches`, `FirstPage` and `PageAt` are the server (external): a table of statements, pages of at most `MaxSqlRows`
rows, a continue index that is positive while a statement is open. Whether the server closes a statement whose last
page was full is left open, both happen. `copy` passes `RETURN_TOTAL_ROW_COUNT` on in `self.options` as the code does; with
an offset of its own such a copy counts no rows, which the comment in `total_rows()` says of the server.

**`RowStream`** is what an iteration promises, whatever the parser: it has a first row and an end, takes the rows
between them one by one, and says that it is done at the end only; otherwise it is broken. `GenQuery1` and `GenQuery2`
implement it with the mapping in their `Stream` (an iteration that `AUTO_CLOSE` cut short maps to broken).

**`GenQuery2`** (genquery.py 120-411, the branches for `Parser.GENQUERY2`). The same frame as `GenQuery1`; the server
keeps a whole result under a handle, `NextRow` moves its cursor and `Column` reads one column, each with a failing
variant. `order` is whether `order_by` is set; `Released` forgets it, as genquery.py:361 does.

**`PagedIterator`** (genquery.py 430-503). `next` fills a page by one of two loops, which differ in where the end of the
generator shows; `TakeRow`, `RowFails`, `PageFull`, `PageEnds` are the steps of both, `Return` is what the caller gets,
`SetRowsPerPage` may come between any two pages. The generator is a count of rows and may raise at any of them. `PageInit`,
`PageNext` and `PageSpec` are named so that one module can prove about this one and `GenQuery2`, and `MCIteration` check both.

**`ArrayRef`** (array_ref.hpp, array_indexing_suite.hpp). `mem` is the array member of a C struct, `view[v]` the place and
length of an `array_ref` object. `Attribute` reads the struct's attribute, `Slice` makes one view from another, the
`Assign...` actions are Python's assignments; a statement that raises leaves `mem` as it is. `Clamp` is Boost's
`indexing_suite` (external). `None` is an end of a slice that is left out.

**`CorePolicy`** (core.py.template 25-124). A policy is a sequence of microservices (`Plan`); a step succeeds, misses
(`CAT_NO_ROWS_FOUND`, the only failure the Python code can see in `ret['status']`) or raises. `saved` is the committed
catalog and `work` the open transaction.

**`UserCatalog`** is what the policies promise of the committed catalog: it changes by a whole user, who comes with everything
or goes with it, or by a whole zone. `CorePolicy` implements it with `saved` for `catalog`; every other step is a stutter.

**`Marshalling`** (python.hpp 51-439, main.cpp 318-383 and 638-689). One call with its arguments. It is the server's or a
rule's (`ServerCalls`, `RuleCalls`). `PassString` and `PassParam` are the turns of the loop over a rule's arguments
(`CppFromObject` is `msParam_from_object`, or a `std::string*`): the object goes into the list of its kind, and the C++ argument is
the address of that list element. So `strings` and `params` hold argument numbers, and what the element holds is what
the argument with that number points at, before and after the callee has written to it. A microservice or a rule answers. `BeginRule` makes `rule_arguments_python` (`ObjectFromAny`), the rule does to that list what it likes and may
write through a `c_string`, and `Update`/`UpdateRaises` are the turns of the loop that writes it back: only what a
non-const pointer points at is written, and only if its type can be extracted from the object (`Updated`); if it cannot,
nothing happens. `Extracts` is `extract<T>.check()`, which is true of an object of the type and of what Boost.Python
converts to it (`Implicit`: an int for a float, a bool for an int, bytes for a string). `msParam_from_object` asks for one
type after the other and takes the first. `AnswerString` and `AnswerParam` are the
turns of the loop that makes `ret["arguments"]` out of two queues. The forms of an argument are those the templates
distinguish (`value`, `pointer`, `const`, `double`, `const char*`, `char*`, `void`, `serialized`); values and types are model
values. The return code is `RuleExecution`'s: the two modules are two views of one call, and `exec_rule` has in both the
same stages.

**`InitStruct`** (init_struct.hpp, raw_constructor.hpp, type_sequence.hpp). `member` and `element` say which call of
`populate_helper` is next, an order that C++ fixes by expanding the type sequence; `index`, `index_into_array` and `iter`
are the code's, and only these lead to an argument. `Missing`, `Single`, `ArrayElement` and `Refuse` are the overloads and
their failures. `Layout` gives the classes, so that the module and its proofs are for any of them.

**`StructTables`** (src/src/types/**). The 66 classes with a constructor: the members in the order of the constructor, the
form of each, the attribute it is bound to and by what means (`Value`, `Writable`, `Array`, `CString`, `Reference`, ...). A
member bound under another name than its own, or under none, is listed as such (`As`, `Hidden`, `Raising`).

**`StructBindings`** adds to `InitStruct` what happens to an object afterwards: `Receive` is an object of the server, with any
subset of its pointers null, `Assign` is `def_readwrite` and `make_setter`, `AssignElement` an item of an `array_ref`.
`Pointee` is what reading a pointer member gives.

**`SessionVars`** (session_vars.py). `GetMap` reads a `RuleExecInfo` of `StructBindings`, whose classes are those of
`StructTables`; a read of an absent object, or of a name its class does not bind, is `Raised`. `Unbacked` are the
`KeyValPair`s a rule made with a positive `len`: their arrays can be nothing but null pointers, and `array_ref` reads `len`
pointers from there (`Undefined`).

`MC*` modules give values to constants and symmetry sets; definitions headed `Variant:` are deliberately broken forms
of the one that follows and take part in no specification.

## Runs

| run | bounds | what it shows |
|---|---|---|
| `MCPythonInterpreter_protocol` | 3 threads, nesting 3 | `PythonNeedsLocks`, `GilNeverContended`, `NothingHeldWhenIdle`, `TypeOK` (at most one thread state per thread), `OuterScopeSurvives`; `Serialised`, the refinement; `MutexReleased` under `FairSpec` |
| `MCRuleExecution_errors` | nesting 3, 3 operations, one exception handled at a time in each, 2 codes | `CodePropagates`, `PepMessagesCleared`, one exception in flight, in the innermost operation (`TypeOK`) |
| `MCRuleExecution_vars` | nesting 2 | `VarsAreOwn` does not hold (below) |
| `MCGenQuery1_statements` | 2 objects, copies with and without an offset, 3 rows, pages of 2, 2 statements, failing calls | `StatementsOwned`: every open statement has one owner, and a continue index that is kept is the owner's |
| `MCGenQuery1_rows` | 1 object, 7 rows, pages of 3, limits and offsets before, on and after page ends, failing calls | `RowsInOrder`, `RowsComplete`, `TotalRowsExact`; `Streams`, the refinement of `RowStream`; `CallReturns` under `FairSpec` |
| `MCIteration_either` | GenQuery2: 2 objects, 2 rows, 1 column, limits of none and 1, 2 handles, failing calls; or pages: 7 rows, hard limit 3, sizes from below one to above the limit, a generator that may raise | `ResultsOwned` (nobody uses a released handle either), `Streams`, a yielded row has all its columns (`TypeOK`); `NoRowSkipped`, `StopMeansAll`, `ShortPageIsLast`, `PageTypeOK` (a page has room for a row); `NextReturns` under fairness of the loop |
| `MCArrayRef_views` | array of 3, 2 views, indices -4 to 4 | `SlicesAsPython`, `ItemsAgreeWithSlices`, `AssignmentExact`, `OnlyVisibleCells`, `TypeOK` (views within the array) |
| `MCCorePolicy_catalog` | 2 users, 2 zone names; six of the nine steps may miss | `PoliciesWhole`, the refinement of `UserCatalog`, and with it `CatalogConsistent`, given a server that rolls back after a failed policy. Not among the six: creating the home, whose answer the policy overwrites (core.py.template:62-63), and the two deletions, which miss only what is not there |
| `MCCorePolicy_rollback` | 1 user, 1 zone | `FailureRollsBack` does not hold (below) |
| `MCMarshalling_arguments` | 2 arguments, 2 values, every form of argument, lists of up to 3 objects, implicit conversions | `WrittenAsFar`, `ResultsInOrder`, `CallerSeesCallee`; a callback loses no argument (`TypeOK`) |
| `MCMarshalling_written` | 1 argument | `WrittenValuesReturn` does not hold (below) |
| `MCSessionVars_structs` | all classes, arrays of 2, arguments of up to 3 items, 1 assignment, every subset of null pointers | `ConstructedAsGiven`, `MapComplete`, `TypeOK` (every call is for a cell that exists) |

Why the bounds are enough: two threads contend and a third waits behind a waiter; nesting 2 has an inner and an outer
scope and 3 has one that is both. Seven rows in pages of three make a first, a middle and a short last page; the limits
lie below, on and above `MaxSqlRows - 1`, a page end and the end of the result. Two statements for two objects and a
recount make the table overflow; two handles are enough for two `GenQuery2` objects, and `ExecFails` covers none being
free. `MCIteration` puts two modules into one run: they share no variable and no code, and a behaviour exercises
one of them while the other keeps its initial state, so that nothing is lost but the product of their states. An array of three has a first, a middle and a last cell, and the indices go one beyond each end. Three nested
operations have a rule between two others, and an operation called in an except clause may itself call one in an except
clause, so that exceptions are chained across two operations (runs of four operations, and of two exceptions handled within
one another, hold as well and take minutes). Two arguments are enough for one to be written when the next one fails, for a
`char*` to be given the `c_string` of the other, and for strings and parameters to alternate in either order; a list of three
is longer than what was passed. Arrays of two have a first and a last element, and three items are one too many; a class of
two members gets every argument there can be within that, the others those that fit with too few, enough and too many of
them. One assignment is enough to set or clear any pointer that `get_map` tests. Deadlock is not checked in the last three
runs, in which there is one call, or one object with its assignments, and then an end.

Fairness. `PythonInterpreter`: a thread that can take its next step does (the OS schedules threads), CPython gives the
GIL to a waiter when it is free, and a rule body ends (strong fairness of `Finish` at each depth, since the body is
disabled while it calls back or has handed over the GIL). Nothing is assumed of who gets the mutex next, so starvation
of a thread in `lock` is possible and nothing says otherwise. `GenQuery1`: a method that has begun goes on
(`WF_vars(Answered)`); that leaves out the steps in which a fetch or a close fails, so that a loop that would end only
by failing is found. Nothing is assumed of the rule. `PagedIterator`: the loop of `next` goes on (in
`MCIteration`, where the other module runs instead, `EitherSpec` has that fairness and no other).

## What the violated runs say

* `VarsAreOwn`: README.md:137 describes `irods_rule_vars` as the variables of the `INPUT` line. It is one name in
  `builtins`; a text that calls `py_remote` on its own server continues with the inner text's dictionary.
* `FailureRollsBack`: `callback` raises on every error but `CAT_NO_ROWS_FOUND`, so the `msiRollback` lines of the
  template are reached for that code only. The model of the server that does roll back (`HostRollsBack`) shows that
  the policies are then consistent.
* `WrittenValuesReturn`: README.md:47 says of `rule_args` that "the written values will be returned to the caller", and
  README.md:494 that passing any other type than string between rule engines "will result in an error". A rule that leaves
  an integer, or `None`, in the place of a string is ended with success, and its caller finds the string it passed
  (python.hpp:257-260 and 270-273 write only what `extract<T>` accepts, and say nothing otherwise). `WrittenAsFar` and
  `CallerSeesCallee` are therefore about the other places: what conforms comes back, whatever was left beside it.

Some behaviour is in the models and kept out of the properties, by name, most of it because no document promises
otherwise: a copy, with an offset of its own, of a query that has been executed yields no rows, because
`RETURN_TOTAL_ROW_COUNT` comes along and the server then only counts (genquery.py:231 and the comment at 268; with
such copies TLC finds `RowsComplete` violated, although README.md:412-420 gives the constructor and `copy` one
meaning of *offset*), a closed GenQuery2 query has forgotten `order_by` (genquery.py:361), an iteration after a
failed close may be cut short (genquery.py:376), iterating a GenQuery1 query again after its end repeats the last page
(genquery.py:364), and the rows in the list of a page are lost when the generator raises (genquery.py:494). A failure met in
an except or finally clause is reported with the code of the one that was being handled, when that had one: the formatted
text of a chained exception begins with it and main.cpp:697 takes the first code; `CodePropagates` leaves these out
(`straight`).

Found while the tables of `StructTables` were written, and visible in them; no run checks them, since a model that is
translated from the bindings cannot tell a wrong one from a right one:

* attributes that show another member than that of their name: `MsParam.type` shows `label` (msParam.cpp:38),
  `RsComm.reconnAddr` shows `clientAddr`, `ssl_do_accept` and `ssl_do_shutdown` show `ssl_on` (rcConnect.cpp:305, 323-324);
  `TransferStat.len` is bound twice, to `numThreads` and then to `flags` (objInfo.cpp:277-278);
* counted arrays take their length from another member, which the constructor sets while it can give the array nothing but a
  null pointer: reading `key` or `value` of `KeyValPair(2, None, None)`, or an entry of it, reads null
  (array_ref.hpp:561-566, objInfo.cpp:91-96, 263-264). `Undefined` is that of `get_map`, and `MapComplete` says that
  it happens for such a `condInputData` only;
* `key_value_pairs` of `get_map` has `c_string`s for keys, which compare and hash by identity (arrays.cpp:56-60): a `str`
  finds no entry;
* the advice of init_struct.hpp:33-35, to give `None` for a pointer and to assign to the member afterwards, can be followed
  for the members with a `make_setter` only.

## Proofs

Each `...Proofs` module proves about the modules it extends, for every value of the constants that satisfies their named
assumptions. No invariant of a run but the type invariant of `ArrayRef` is inductive as it stands; below is what each one
needs. TLC has checked every strengthened invariant on the constants of the runs.

**`PythonInterpreterProofs`**, for any set of threads and any nesting depth: `TypeCorrect`, `PythonIsLocked`, `GilIsFree`,
`IdleHoldsNothing`, `ScopeSurvives` and `Refinement`. Assumptions: `NoThread` is not a thread, `MaxDepth` is a positive
natural number. `IInv` says which stages hold what: the owner of the mutex is the thread in one of the stages behind the lock
and the count is its depth, adjusted by the stage; the GIL is held exactly in the stages that say so; `refct` is the depth
adjusted by the stage, and a thread state is alive from `enter` to `leave` of the outermost operation; no operation is in
progress before the start has ended. Each action has its lemma, with a step per conjunct it can disturb. The refinement needs
`OthersOutside`: the owner of the mutex is the only thread with a nonzero count.

**`RuleExecutionProofs`**, for any error codes, nesting depth and number of operations: `TypeCorrect`, `CodesPropagate` and
`MessagesCleared`; `MaxHandlers`, which is 1 in the run, is any number here. `SoundStack` says that only the innermost
operation has an exception in flight, and that the first code in its text is the one the failure began with, unless one with a
code was being handled or an operation on the way does not look for it (`Carries`). The same is true of the exceptions that are
handled, which may come into flight again, and `ChainCarries` is the lemma that chaining keeps it. That is what an outer operation gets when the inner one is popped, and so what the host gets in the end. `Pending`
says that a message of a dynamic PEP is in `rError` only while one is in progress: the innermost of them clears it, and an
operation that is no PEP leaves the others on the stack.

**`GenQuery1Proofs`**, for any number of objects, rows, rows in a page and statements, and failing calls: `TypeCorrect`,
`StatementsAreOwned`, `RowsOrdered`, `TotalRowsRight`, `RowsAllYielded`, `RowsYielded` and `RowsMakeAStream`. `PageSound` ties the
page an object has to the statement behind it: the statement goes on where the page ends, and where there is no statement and
no `AUTO_CLOSE` the page is the last. `InPage` ties the generator to the page: the row due is the one at its place in the
page, and as far from the first row as rows have been taken. Where a method is (`MethodSound`) says which of these hold in the middle of
it. `CopySound` gives the statement of the temporary copy in `total_rows()` to that method. `RowsAllYielded` and
`RowsMakeAStream` are under the condition `CopiesFromStart`, that no copy is made with an offset other than 0: the option
`RETURN_TOTAL_ROW_COUNT` comes along with `copy()` (genquery.py:231), and the server gives no rows when asked for both.
`RowsYielded` says it object by object instead: only those that do ask for both are left out. The refinement sorts every step,
for each object, into one that the stream does not see (`Kept`) or that begins, takes a row, ends or forgets (`Begins`, `Takes`,
`Ends`, `Forgets`), and these are `RowStream`'s actions.

**`IterationProofs`** has two parts, `GenQuery2` and `PagedIterator`. For a query in GenQuery2 mode, with any result, offset, limit,
number of objects and failing calls: `TypeCorrect`, `HandlesOwned` and `CursorMakesAStream`, the last without any condition.
`CursorSound`: an object and the result under its handle ask for the same rows, and the cursor is on its way to the last of them.
`InResult`: an iteration is due the row at the cursor, or the one behind it, according to where in `next` it is. `Owned`: no
two objects have one handle, so that nobody else moves the cursor. The refinement goes as that of GenQuery1. For
`paged_iterator`, with any number of rows, any hard limit and any arguments: `PagesTypeCorrect`, `NothingSkipped`, `StopIsComplete`
and `ShortIsLast`. `GeneratorOK` makes them inductive: between two calls the list is empty, a generator that ended
without raising has yielded every row, and after a short page or a `StopIteration` the generator is not running any more.

**`CorePolicyProofs`**, for any users and zone names: `TypeCorrect`, and `CommitsConsistent` and the refinement `CommitsAreWhole` under the condition
`ReliableServer`: the server rolls back after a policy that raised, and the microservices whose answer a policy does not look at
do not miss (the next microservice's answer overwrites theirs; README and tests say nothing of whether they can).
`Progress` says that the open transaction is the committed catalog with exactly what the policy has done so far, so that at
the commit it is all of it, and before that nothing is committed. A commit is therefore one action of `UserCatalog` (`CommitsWhole`),
or a deletion that found nothing and changes nothing.

**`ArrayRefProofs`**, for an array of any length and any integers in the brackets: `TypeCorrect`, `OutsideUntouched`,
`SlicesArePythons`, `ItemsAgree` and `AssignmentsExact`. `TypeOK` is inductive, by `SliceInside` (a slice of a view is a
view) and one lemma per kind of assignment (it writes within its view); the other four follow from it in every state.

**`MarshallingProofs`**, for any values, types and number of arguments: `TypeCorrect` (a callback of a rule reaches the callee with
one `std::string*` or `msParam_t*` per argument), `ArgumentsWritten`, `AnswersInOrder` and `CallerSees`. `Shape` and
`ListOfCallee` say what is there at each stage, and what the list of a rule may hold. `WrittenAsFar` claims nothing of an
argument in whose place something else was left; `Exactly` is the other half, that such an argument stays what it was, and
with it the update is inductive. `Converted`: an argument in the queues could be converted, so that `CppFromObject` is what
the first type makes of it. `ViewsOfTexts`: the `c_string`s in the list the rule starts with are the texts of the server. `QueuesHold`: each of the two queues has exactly the waiting arguments of its kind, in their order, from the first turn of the
loop that fills them to the last of the loop that empties them (`Queued` and `Dequeued` are the lemmas about one turn). The
front of the queue that the type of an argument chooses is therefore that argument. `CallerSees` combines the two ends and that
the update of a callee that succeeded has reached the last argument (`Written`). Assumptions: an object a rule may pass is a type
and a value, none but `None` has the value null, a rule has no `c_string` and no `MsParam` of its own to pass; nothing is
converted to either of these, and conversions give values; strings and `None` are none of the types of an `MsParam`; and what
the server passes is one of the forms, holds a value or null, and is no `c_string`.

**`InitStructProofs`**, for any classes and any arguments: `Constructed`, `TypeCorrect` and `MapsComplete`. The counters need
`Place` (the call that is next is for a cell of the class), `Tracks` (`index` is the number of members that
have had an argument; within an array `index_into_array` and `iter` are the element that is next), `Shaped` and `Stored` (the
cells stored so far are the expected ones). Assumptions: the shape of `Layout` and `Calls`. `MapsComplete` is for any number of assignments (the run makes one),
any tables and any `Unbacked`, and for classes that satisfy `NamesBound`, that they have attributes of the names `get_map` reads
(TLC finds it true of `StructTables`, since a missing one would be `Raised`): proved is, for every key of the map, that it asks no absent part, that its value
is missing exactly if all the objects it may come from are, and that the map is one of the object as it is (`MapOfObject`).

Model-checked only: what depends on fairness (`MutexReleased`, `CallReturns`, `NextReturns`), which the provers do not handle.
Every invariant and every action property of a passing run is stated by a theorem.

## Not modelled

* What reading an attribute shows, except to `get_map`: the bindings are given by `StructTables` (above).
* An explicit limit of 0, which README.md:421 does not allow.
* How long the characters of a `str` live that was given for a `char*` element of a constructor (`SpecificQueryInp.args`):
  the model has the element, the code a pointer into the `str`.
* Null-terminated strings and arrays of them as sequences: they have a length of their own and, in arrays, pointers of their
  own. `Marshalling` has the one use of them that writes arguments, `StructTables` their bindings.
* Methods of classes (`KeyValPair.__getitem__`, `BytesBuf.set_buffer`), enumerations, classes without a constructor.
* How long objects live: the struct behind an `array_ref` (array_ref.hpp:46-48 leaves it to the client), what a
  pointer member was set to, which `with_custodian_and_ward` keeps as long as the Python object the assignment went through
  (irods_re_structs.cpp:62-64), and what an `msParam_t` owns (`clearMsParam`).
* `irods_errors` (a table of constants), static policies that do nothing or call one microservice, sample rules, packaging: no
  state to relate.
* Threads that rules create, several plug-in instances in one process, overlapping iterations of one `Query`, results of
  `rule_exists` and `list_rules`, and the texts of messages; `PROJECT.json` notes the first three under hazards.

## Plan

1. Proofs: an abstract specification of a nested call (what its caller may observe of an operation of the plug-in), with
   `RuleExecution` refining it.
2. Pointer members: objects, wrappers made by reading a pointer member, and who keeps whom, with the property that no
   reachable pointer dangles as long as assignments go through the object that owns the struct.
3. Null-terminated strings and arrays of them, as a second kind of view in `ArrayRef`.
