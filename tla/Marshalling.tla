----------------------------- MODULE Marshalling -----------------------------
(***************************************************************************)
(* Arguments on their way between C++ and Python: exec_rule turns what the *)
(* server passes into the list a rule is called with, and writes back what *)
(* the rule left there; RuleCallWrapper::call turns the arguments of a     *)
(* callback into what the server takes, and what came of them into         *)
(* ret["arguments"].  A rule that calls a rule goes through both.          *)
(*                                                                         *)
(* A C++ argument is what a boost::any holds: a value, a pointer, ... of   *)
(* one of list_of_irods_types; the value is that at the end of the         *)
(* pointers.  Error codes are those of RuleExecution and left out here.    *)
(***************************************************************************)
EXTENDS Integers, SequencesExt

CONSTANTS
    Contents,   \* what an object may hold
    Null,       \* a null pointer
    ParamTypes, \* the types msParam_from_object tries, in that order, and
                \* object_from_msParam knows
    Implicit,   \* what Boost.Python takes for another type: an int for a float, a
                \* bool for an int, bytes for a string, a str for its first char
    CppArgs,    \* what the server may pass to a rule
    PyObjects,  \* what a rule may pass to callback, or put into its list
    MaxArgs     \* bound: arguments of a call

ASSUME ArgsAssumption ==
    /\ MaxArgs \in Nat
    /\ \A o \in PyObjects :
          /\ o = [type |-> o.type, val |-> o.val]
          /\ o.val \in Contents \cup {Null}
          /\ o.type # "c_string" /\ o.type # "msParam"
          /\ o.val = Null => o.type = "NoneType"
    /\ \A c \in Implicit : c.to \notin {"msParam", "c_string"} /\ c.val \in Contents
    /\ ParamTypes \in Seq(Range(ParamTypes))
    /\ Range(ParamTypes) \cap {"string", "NoneType"} = {}
    /\ Null \notin Contents \cup [type : Range(ParamTypes), val : Contents]
    /\ \A a \in CppArgs :
          /\ a = [kind |-> a.kind, type |-> a.type, val |-> a.val]
          /\ a.type # "c_string" /\ a.val \in Contents \cup {Null}

VARIABLES
    caller,     \* who calls: the server, or a rule through callback
    callee,     \* who answers: a rule, or a microservice of the server
    stage,      \* where the call is
    passed,     \* the arguments as the caller passed them
    cpp,        \* the C++ arguments
    py,         \* rule_arguments_python
    at,         \* how many arguments have been written back
    strings, params,    \* the queues RuleCallWrapper::call keeps the arguments in:
                        \* the pointer in cpp[n] is to the element n of one of them
    ret,        \* ret["arguments"]
    error       \* what the callee, or the conversion, ended with

vars == <<caller, callee, stage, passed, cpp, py, at, strings, params, ret, error>>

Object(t, v) == [type |-> t, val |-> v]

PyNone == Object("NoneType", Null)

Init ==
    /\ caller = "server" /\ callee = "none" /\ stage = "idle"
    /\ passed = <<>> /\ cpp = <<>> /\ py = <<>> /\ at = 0
    /\ strings = <<>> /\ params = <<>> /\ ret = <<>>
    /\ error = "none"

-----------------------------------------------------------------------------
\* From C++ to Python.

\* object_from_any throws for what is neither in list_of_irods_types nor can be
\* serialized.
Convertible(a) == a.kind # "unknown"

\* object_from_specific<T> for each form of T, and the dictionary that stands
\* for a serialized argument.  A c_string is no copy: it views argument i.
ObjectFromAny(a, i) ==
    IF a.kind = "void" \/ a.val = Null THEN PyNone
    ELSE CASE a.kind = "const char*" -> Object("string", a.val)
           [] a.kind = "char*"       -> Object("c_string", i)
           [] a.kind = "serialized"  -> Object("dict", a.val)
           [] OTHER                  -> Object(a.type, a.val)

\* The casts of object_from_msParam.
Known(p) == p.val = Null \/ p.type \in Range(ParamTypes)

ObjectFromMsParam(p) == IF p.val = Null THEN PyNone ELSE Object(p.type, p.val)

-----------------------------------------------------------------------------
\* From Python to C++.

\* extract<T>.check(): the object is a T, or there is a conversion to T.
Extracts(o, t) == o.type = t \/ \E c \in Implicit : c.from = o /\ c.to = t

\* What extract<T> makes of it then.
Extracted(o, t) ==
    IF o.type = t THEN o.val ELSE (CHOOSE c \in Implicit : c.from = o /\ c.to = t).val

\* extract<std::string>, which comes before all others.
IsText(o) == Extracts(o, "string")

\* msParam_from_object takes the first type that can be extracted; none of
\* them: it throws.
IsCandidate(o, k) ==
    Extracts(o, ParamTypes[k]) /\ \A j \in 1..(k - 1) : ~Extracts(o, ParamTypes[j])

Accepted(o) == \E k \in DOMAIN ParamTypes : Extracts(o, ParamTypes[k])

TakenAs(o) == ParamTypes[CHOOSE k \in DOMAIN ParamTypes : IsCandidate(o, k)]

StringPointer(v) == [kind |-> "pointer", type |-> "string", val |-> v]
ParamPointer(p) == [kind |-> "pointer", type |-> "msParam", val |-> p]

\* What rule_args_cpp holds for an argument of callback: a std::string*, or
\* an msParam_t* with the type and the value that were extracted.
CppFromObject(o) ==
    IF IsText(o) THEN StringPointer(Extracted(o, "string"))
    ELSE ParamPointer(Object(TakenAs(o), Extracted(o, TakenAs(o))))

\* extract<array_ref<char, true>> raises for anything but a c_string.
Refused(a, o) == a.kind = "char*" /\ o.type # "c_string"

\* Variant: a double pointer is taken for a pointer that needs no update.
UpdatedSingle(a, o, i) ==
    IF a.kind = "pointer" /\ a.val # Null /\ Extracts(o, a.type)
    THEN {[a EXCEPT !.val = Extracted(o, a.type)]}
    ELSE IF a.kind = "char*" /\ a.val # Null /\ o.type = "c_string" /\ o.val # i
    THEN {[a EXCEPT !.val = x] : x \in Contents}
    ELSE {a}

\* update_argument_impl<T> for each form of T: what argument i may be then.
\* Only what non-const pointers point at is written, and only if a T can be
\* extracted from the object; if not, it is ignored without an error.  From the
\* c_string of another argument as many characters are copied as this one has,
\* whatever lies there.
Updated(a, o, i) ==
    IF a.kind \in {"pointer", "double"} /\ a.val # Null /\ Extracts(o, a.type)
    THEN {[a EXCEPT !.val = Extracted(o, a.type)]}
    ELSE IF a.kind = "char*" /\ a.val # Null /\ o.type = "c_string" /\ o.val # i
    THEN {[a EXCEPT !.val = x] : x \in Contents}
    ELSE {a}

-----------------------------------------------------------------------------
\* The server calls a rule.
ServerCalls ==
    /\ stage = "idle"
    /\ caller' = "server"
    /\ stage' = "called"
    /\ cpp' \in SeqOf(CppArgs, MaxArgs) /\ passed' = cpp'
    /\ UNCHANGED <<callee, py, at, strings, params, ret, error>>

\* callback.f(...)
RuleCalls ==
    /\ stage = "idle"
    /\ caller' = "rule"
    /\ stage' = "passing"
    /\ passed' \in SeqOf(PyObjects, MaxArgs)
    /\ UNCHANGED <<callee, cpp, py, at, strings, params, ret, error>>

\* The next argument goes into the queue of its kind and, as a pointer into the
\* queue, to the C++ arguments.
PassString ==
    LET n == Len(cpp) + 1 IN
    /\ stage = "passing" /\ n <= Len(passed)
    /\ IsText(passed[n])
    /\ strings' = Append(strings, n)
    /\ cpp' = Append(cpp, CppFromObject(passed[n]))
    /\ UNCHANGED <<caller, callee, stage, passed, py, at, params, ret, error>>

\* Variant: an argument of an unsupported type ends the loop.
PassParamEnding ==
    LET n == Len(cpp) + 1 IN
    /\ stage = "passing" /\ n <= Len(passed)
    /\ ~IsText(passed[n])
    /\ IF Accepted(passed[n])
       THEN /\ params' = Append(params, n)
            /\ cpp' = Append(cpp, CppFromObject(passed[n]))
            /\ UNCHANGED stage
       ELSE stage' = "called" /\ UNCHANGED <<params, cpp>>
    /\ UNCHANGED <<caller, callee, passed, py, at, strings, ret, error>>

PassParam ==
    LET n == Len(cpp) + 1 IN
    /\ stage = "passing" /\ n <= Len(passed)
    /\ ~IsText(passed[n])
    /\ IF Accepted(passed[n])
       THEN /\ params' = Append(params, n)
            /\ cpp' = Append(cpp, CppFromObject(passed[n]))
            /\ UNCHANGED stage
       ELSE stage' = "raised" /\ UNCHANGED <<params, cpp>>
    /\ UNCHANGED <<caller, callee, passed, py, at, strings, ret, error>>

\* effect_handler is called with all of them.
PassedAll ==
    /\ stage = "passing" /\ Len(cpp) = Len(passed)
    /\ stage' = "called"
    /\ UNCHANGED <<caller, callee, passed, cpp, py, at, strings, params, ret, error>>

\* What an MsParam may hold: of some type, or empty.
MsParams == {o \in PyObjects : o.type # "string"}

\* A microservice of the server may leave anything in its arguments.
Microservice ==
    /\ stage = "called" /\ caller = "rule"
    /\ cpp' \in [DOMAIN cpp -> {StringPointer(v) : v \in Contents}
                               \cup {ParamPointer(p) : p \in MsParams}]
    /\ \A i \in DOMAIN cpp : cpp'[i].type = cpp[i].type
    /\ error' \in {"none", "microservice"}
    /\ stage' = "answered" /\ callee' = "microservice"
    /\ UNCHANGED <<caller, passed, py, at, strings, params, ret>>

\* exec_rule, up to the call of the Python function.
BeginRule ==
    /\ stage = "called" /\ callee' = "rule"
    /\ IF \A i \in DOMAIN cpp : Convertible(cpp[i])
       THEN /\ stage' = "rule"
            /\ py' = [i \in DOMAIN cpp |-> ObjectFromAny(cpp[i], i)]
            /\ UNCHANGED error
       ELSE stage' = "answered" /\ error' = "rule" /\ UNCHANGED py
    /\ UNCHANGED <<caller, passed, cpp, at, strings, params, ret>>

\* The rule assigns to the elements of a c_string.
WriteThrough(i) ==
    /\ stage = "rule" /\ py[i].type = "c_string"
    /\ \E x \in Contents : cpp' = [cpp EXCEPT ![i].val = x]
    /\ UNCHANGED <<caller, callee, stage, passed, py, at, strings, params, ret, error>>

\* The rule returns; it has made of its list what it liked.
RuleReturns ==
    /\ stage = "rule"
    /\ py' \in SeqOf(PyObjects \cup Range(py), MaxArgs + 1)
    /\ stage' = "updating"
    /\ at' = 0
    /\ UNCHANGED <<caller, callee, passed, cpp, strings, params, ret, error>>

RuleRaises ==
    /\ stage = "rule"
    /\ stage' = "answered" /\ error' = "rule"
    /\ UNCHANGED <<caller, callee, passed, cpp, py, at, strings, params, ret>>

\* Variant: the objects are taken off the list instead of by their index.
UpdateFromTheEnd ==
    /\ stage = "updating" /\ at < Len(cpp)
    /\ at < Len(py) /\ ~Refused(cpp[at + 1], py[Len(py) - at])
    /\ \E a \in Updated(cpp[at + 1], py[Len(py) - at], at + 1) :
          cpp' = [cpp EXCEPT ![at + 1] = a]
    /\ at' = at + 1
    /\ UNCHANGED <<caller, callee, stage, passed, py, strings, params, ret, error>>

\* update_argument for the next argument, with rule_arguments_python[i].
Update ==
    /\ stage = "updating" /\ at < Len(cpp)
    /\ at < Len(py) /\ ~Refused(cpp[at + 1], py[at + 1])
    /\ \E a \in Updated(cpp[at + 1], py[at + 1], at + 1) :
          cpp' = [cpp EXCEPT ![at + 1] = a]
    /\ at' = at + 1
    /\ UNCHANGED <<caller, callee, stage, passed, py, strings, params, ret, error>>

\* The list is shorter now, or a char* has become something else: a Python
\* exception, after the rule has run and the arguments before this are written.
UpdateRaises ==
    /\ stage = "updating" /\ at < Len(cpp)
    /\ at < Len(py) => Refused(cpp[at + 1], py[at + 1])
    /\ stage' = "answered" /\ error' = "update"
    /\ UNCHANGED <<caller, callee, passed, cpp, py, at, strings, params, ret>>

\* All are written.  What the rule returned may be a failure nevertheless.
EndRule ==
    /\ stage = "updating" /\ at = Len(cpp)
    /\ stage' = "answered" /\ error' \in {"none", "code"}
    /\ UNCHANGED <<caller, callee, passed, cpp, py, at, strings, params, ret>>

-----------------------------------------------------------------------------
\* RuleCallWrapper::call makes ret_list of what is in its two queues.

IsString(a) == a.type = "string"

\* The type of the next C++ argument tells which queue is next.
Answers(n) == stage = "answered" /\ caller = "rule" /\ n <= Len(cpp)

AnswerString ==
    LET n == Len(ret) + 1 IN
    /\ Answers(n) /\ IsString(cpp[n])
    /\ ret' = Append(ret, Object("string", cpp[Head(strings)].val))
    /\ strings' = Tail(strings)
    /\ UNCHANGED <<caller, callee, stage, passed, cpp, py, at, params, error>>

\* Variant: msParams.pop_front() is forgotten.
AnswerParamAgain ==
    LET n == Len(ret) + 1
        p == cpp[Head(params)].val
    IN  /\ Answers(n) /\ ~IsString(cpp[n])
        /\ IF Known(p)
           THEN ret' = Append(ret, ObjectFromMsParam(p)) /\ UNCHANGED stage
           ELSE stage' = "raised" /\ UNCHANGED ret
        /\ UNCHANGED <<caller, callee, passed, cpp, py, at, strings, params, error>>

\* object_from_msParam throws for a type it does not know, also when the callee
\* failed with a code that is still to be raised.
AnswerParam ==
    LET n == Len(ret) + 1
        p == cpp[Head(params)].val
    IN  /\ Answers(n) /\ ~IsString(cpp[n])
        /\ IF Known(p)
           THEN /\ ret' = Append(ret, ObjectFromMsParam(p))
                /\ params' = Tail(params)
                /\ UNCHANGED stage
           ELSE stage' = "raised" /\ UNCHANGED <<ret, params>>
        /\ UNCHANGED <<caller, callee, passed, cpp, py, at, strings, error>>

\* The calling rule gets its dictionary, or the exception.
Answer ==
    /\ stage = "answered" /\ caller = "rule" /\ Len(ret) = Len(cpp)
    /\ stage' = IF error = "none" THEN "returned" ELSE "raised"
    /\ UNCHANGED <<caller, callee, passed, cpp, py, at, strings, params, ret, error>>

Next ==
    \/ ServerCalls \/ RuleCalls \/ PassString \/ PassParam \/ PassedAll
    \/ Microservice \/ BeginRule
    \/ \E i \in DOMAIN py : WriteThrough(i)
    \/ RuleReturns \/ RuleRaises
    \/ Update \/ UpdateRaises \/ EndRule
    \/ AnswerString \/ AnswerParam \/ Answer

Spec == Init /\ [][Next]_vars

-----------------------------------------------------------------------------
Stages == {"idle", "passing", "called", "rule", "updating", "answered",
           "returned", "raised"}

\* The type invariant.  That a call of a rule with Python arguments reaches the
\* callee with nothing but std::string* and msParam_t* is part of it.
TypeOK ==
    /\ caller \in {"server", "rule"} /\ stage \in Stages
    /\ callee \in {"none", "rule", "microservice"}
    /\ passed \in IF caller = "rule" THEN Seq(PyObjects) ELSE Seq(CppArgs)
    /\ Len(cpp) \in 0..Len(passed)
    /\ stage \notin {"passing", "raised"} => Len(cpp) = Len(passed)
    /\ caller = "rule" => \A i \in DOMAIN cpp :
          /\ cpp[i].kind = "pointer"
          /\ cpp[i].type = IF IsText(passed[i]) THEN "string" ELSE "msParam"
    /\ at \in 0..Len(cpp) /\ Len(ret) \in 0..Len(cpp)
    /\ error \in {"none", "code", "rule", "update", "microservice"}

\* What a rule leaves in its list is of the type of the argument, or is taken for it.
Conforms(i) == Extracts(py[i], cpp[i].type)

\* A non-const pointer to something: what can be written at all.
Writable(a) == a.kind \in {"pointer", "double"} /\ a.val # Null

\* The buffer of a char*, which the rule writes at any time through its c_string.
IsBuffer(a) == a.kind = "char*" /\ a.val # Null

\* Argument i as it was passed.
AsPassed(i) == IF caller = "rule" THEN CppFromObject(passed[i]) ELSE passed[i]

\* The arguments of a Python rule are, for the one who called it, what the rule
\* left in its list as far as they have been written back, and what was passed
\* from there on.  So a rule that raises changes nothing, and one that shortens
\* its list, or fails in between, changes the arguments before that place only;
\* values, constants and null pointers are not written at all, and of the buffers
\* of the server, which change as they are assigned to, is claimed that they are
\* that.  Of an argument that was left an object of another type nothing is
\* claimed: see WrittenValuesReturn.
WrittenAsFar ==
    callee # "microservice" =>
       \A i \in DOMAIN cpp :
          LET a == AsPassed(i) IN
          /\ IsBuffer(a) => \E x \in Contents : cpp[i] = [a EXCEPT !.val = x]
          /\ ~IsBuffer(a) /\ (i > at \/ ~Writable(a)) => cpp[i] = a
          /\ Writable(a) /\ i <= at /\ Conforms(i) =>
                cpp[i] = [a EXCEPT !.val = Extracted(py[i], a.type)]

\* ret["arguments"] has the arguments in the order they were passed in, each as
\* the callee left it, although strings and others come from two queues.
ResultsInOrder ==
    /\ \A i \in DOMAIN ret :
          ret[i] = IF IsString(cpp[i]) THEN Object("string", cpp[i].val)
                   ELSE ObjectFromMsParam(cpp[i].val)
    /\ stage = "returned" => Len(ret) = Len(passed) /\ strings = <<>> /\ params = <<>>

\* From one list to the other: after a callback to a Python rule that succeeded
\* the caller reads in ret["arguments"] what the callee left in rule_args, in every
\* place in which the callee left a string for a string, or an MsParam for anything
\* else; whatever it left in the other places.
CallerSeesCallee ==
    stage = "returned" /\ callee = "rule" =>
       \A i \in DOMAIN passed :
          /\ IsText(passed[i]) /\ IsText(py[i]) =>
                ret[i] = Object("string", Extracted(py[i], "string"))
          /\ ~IsText(passed[i]) /\ py[i].type = "msParam" => ret[i] = py[i].val

\* README.md:47 of the repository: the parameters "may be written to, with the
\* effect that the written values will be returned to the caller"; README.md:494:
\* "Passing any other type [than string] will result in an error".  So after a
\* callback that did not fail a string argument would have the value that the
\* callee left in its place.
WrittenValuesReturn ==
    stage = "returned" /\ callee = "rule" =>
       \A i \in DOMAIN passed : IsText(passed[i]) => ret[i].val = py[i].val
=============================================================================
