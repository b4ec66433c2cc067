---------------------------- MODULE RuleExecution ----------------------------
(***************************************************************************)
(* What one agent's rules do inside the interpreter (main.cpp): exec_rule, *)
(* exec_rule_text in its two forms, exec_rule_expression, and callback.    *)
(* PythonInterpreter shows that one thread at a time is inside, nested as  *)
(* deep as rules call back; so here is one stack of running operations,    *)
(* the interpreter's global names they share, the session's rError, and    *)
(* the way an error finds from a microservice to the outermost caller.     *)
(*                                                                         *)
(* Operations are numbered in the order they begin, and a dictionary of    *)
(* INPUT variables is named by the number of its operation, 0 for none.    *)
(* Of the formatted traceback of an exception only the error code that     *)
(* stands first in it is kept, 0 when it has none.                         *)
(***************************************************************************)
EXTENDS Integers, SequencesExt

CONSTANTS
    Codes,              \* error codes of microservices
    NoRowsFound,        \* CAT_NO_ROWS_FOUND
    RuleEngineError,    \* RULE_ENGINE_ERROR
    NoPrivilege,        \* SYS_NO_API_PRIV
    MaxDepth,           \* bound: nesting of operations
    MaxHandlers,        \* bound: except clauses within one another in an operation
    MaxOperations       \* bound: operations in a behaviour

ASSUME CodesAssumption ==
    /\ \A c \in Codes \cup {NoRowsFound, RuleEngineError, NoPrivilege} :
          c \in Int /\ c < -1
    /\ NoRowsFound \notin Codes
ASSUME BoundsAssumption ==
    MaxDepth \in Nat /\ MaxHandlers \in Nat /\ MaxOperations \in Nat

VARIABLES
    stack,      \* the operations in progress, the innermost last
    begun,      \* how many operations have begun
    privileged, \* is the session's user (and proxy) an administrator?
    ruleVars,   \* builtins.irods_rule_vars
    mainDef,    \* has some rule text defined __main__.main?
    rError,     \* messages in rsComm->rError, by whether a PEP was in progress
    answer      \* what the latest outermost operation returned to the host

vars == <<stack, begun, privileged, ruleVars, mainDef, rError, answer>>

\* "rule": exec_rule; "text": "@external\n..." (irule -F, py_remote);
\* "textrule": "@external rule { ..." (irule on a rule of core.py); "expr":
\* exec_rule_expression (delayed rules).
Kinds == {"rule", "text", "textrule", "expr"}
TextKinds == Kinds \ {"rule"}

\* first: the code that stands first in the traceback.  To state properties:
\* origin, the code it all began with, -1 if there was none; straight, whether
\* none that has a code was being handled when it was raised and no text or
\* expression came between.
NoExc == [first |-> 0, origin |-> 0, straight |-> TRUE]
Raising(c) == [first |-> c, origin |-> c, straight |-> TRUE]
Uncoded == [first |-> 0, origin |-> -1, straight |-> TRUE]
Exceptions == [first : Int, origin : Int, straight : BOOLEAN]

NoAnswer == [code |-> 0, origin |-> 0, straight |-> TRUE]

Top == stack[Len(stack)]

\* The innermost rule runs, an except or a finally clause of it included.
IsRunning == stack # <<>> /\ Top.entered /\ Top.exc = NoExc

IsFailing == stack # <<>> /\ Top.exc # NoExc

\* The exception that is being handled, by the innermost operation or by one that
\* called it in an except clause; NoExc if there is none.
Handled ==
    IF stack = <<>> THEN NoExc
    ELSE IF Top.handled # <<>> THEN Last(Top.handled) ELSE Top.around

\* exc is raised while another is being handled: Python chains them, and the
\* formatted text begins with the other one.
Chained(exc, other) ==
    [first |-> IF other.first # 0 THEN other.first ELSE exc.first,
     origin |-> exc.origin,
     straight |-> exc.straight /\ other.first = 0]

\* Is a dynamic PEP among the operations in progress?
InPep == \E i \in 1..Len(stack) : stack[i].pep

SetTop(f) == [stack EXCEPT ![Len(stack)] = f]

Init ==
    /\ stack = <<>>
    /\ begun = 0
    /\ privileged \in BOOLEAN
    /\ ruleVars = 0
    /\ mainDef = FALSE
    /\ rError = {}
    /\ answer = NoAnswer

-----------------------------------------------------------------------------
\* An operation begins: called by the host, or by the server on behalf of the
\* innermost rule's callback.

\* Variant: a rule goes on with an exception in flight.
MayBeginFailing ==
    /\ begun < MaxOperations
    /\ Len(stack) < MaxDepth
    /\ stack # <<>> => Top.entered

MayBegin ==
    /\ begun < MaxOperations
    /\ Len(stack) < MaxDepth
    /\ stack = <<>> \/ IsRunning

\* pep: the rule's name starts with "pep_"; entered: the code of the rule is
\* reached, else there is an exception before; exc: the exception in flight;
\* handled: those whose except or finally clauses it is in, the innermost last;
\* around: the one its caller is handling.
Frame(kind, pep, entered) ==
    [kind |-> kind, pep |-> pep, id |-> begun + 1, entered |-> entered,
     exc |-> IF entered THEN NoExc ELSE Chained(Uncoded, Handled),
     handled |-> <<>>, around |-> Handled]

Push(frame) ==
    /\ stack' = Append(stack, frame)
    /\ begun' = begun + 1

\* exec_rule: importing core, or finding the function in it, may raise.
BeginRule ==
    /\ MayBegin
    /\ \E pep, found \in BOOLEAN : Push(Frame("rule", pep, found))
    /\ UNCHANGED <<privileged, ruleVars, mainDef, rError, answer>>

\* exec_rule_text with a rule file.  Its text defines main, or raises when it
\* is executed, or defines no main, and then runs the main of an earlier text
\* if there was one.
BeginText ==
    /\ MayBegin
    /\ privileged
    /\ ruleVars' = begun + 1
    /\ \/ /\ mainDef' = TRUE
          /\ Push(Frame("text", FALSE, TRUE))
       \/ /\ UNCHANGED mainDef
          /\ Push(Frame("text", FALSE, mainDef))
       \/ /\ UNCHANGED mainDef
          /\ Push(Frame("text", FALSE, FALSE))
    /\ UNCHANGED <<privileged, rError, answer>>

\* exec_rule_text naming a rule of core.py, which may be missing.
BeginTextRule ==
    /\ MayBegin
    /\ privileged
    /\ ruleVars' = begun + 1
    /\ \E found \in BOOLEAN : Push(Frame("textrule", FALSE, found))
    /\ UNCHANGED <<privileged, mainDef, rError, answer>>

\* exec_rule_expression: the text becomes the body of expressionFcn.
BeginExpression ==
    /\ MayBegin
    /\ privileged
    /\ ruleVars' = begun + 1
    /\ \E compiles \in BOOLEAN : Push(Frame("expr", FALSE, compiles))
    /\ UNCHANGED <<privileged, mainDef, rError, answer>>

\* An exception begins in the innermost rule.
Raise(exc) == stack' = SetTop([Top EXCEPT !.exc = Chained(exc, Handled)])

\* require_privileged_user_for_python_execution refuses before the interpreter
\* is entered.
Refuse ==
    /\ MayBegin
    /\ ~privileged
    /\ begun' = begun + 1
    /\ IF stack = <<>>
       THEN /\ answer' = [code |-> NoPrivilege, origin |-> NoPrivilege, straight |-> TRUE]
            /\ UNCHANGED stack
       ELSE /\ Raise(Raising(NoPrivilege))
            /\ UNCHANGED answer
    /\ UNCHANGED <<privileged, ruleVars, mainDef, rError>>

-----------------------------------------------------------------------------
\* The innermost rule runs.

\* A microservice fails: callback raises RuntimeError with the code, except
\* for CAT_NO_ROWS_FOUND, which the rule finds in the dictionary it is given.
\* The server may leave a message for the client.
MicroserviceFails ==
    /\ IsRunning
    /\ \E c \in Codes : Raise(Raising(c))
    /\ rError' \in {rError, rError \cup {IF InPep THEN "pep" ELSE "other"}}
    /\ UNCHANGED <<begun, privileged, ruleVars, mainDef, answer>>

\* The rule raises an exception of its own.
RuleRaises ==
    /\ IsRunning
    /\ Raise(Uncoded)
    /\ UNCHANGED <<begun, privileged, ruleVars, mainDef, rError, answer>>

\* The rule enters an except or a finally clause, out of those the exception
\* was raised in.
RuleHandles ==
    /\ IsFailing /\ Top.entered
    /\ \E n \in 0..Len(Top.handled) :
          /\ n < MaxHandlers
          /\ stack' = SetTop([Top EXCEPT
                !.exc = NoExc, !.handled = Append(SubSeq(Top.handled, 1, n), Top.exc)])
    /\ UNCHANGED <<begun, privileged, ruleVars, mainDef, rError, answer>>

\* The end of an except clause.
RuleHandled ==
    /\ IsRunning /\ Top.handled # <<>>
    /\ stack' = SetTop([Top EXCEPT !.handled = Front(@)])
    /\ UNCHANGED <<begun, privileged, ruleVars, mainDef, rError, answer>>

\* The end of a finally clause, or raise alone in an except clause.
RuleReraises ==
    /\ IsRunning /\ Top.handled # <<>>
    /\ stack' = SetTop([Top EXCEPT !.exc = Last(Top.handled), !.handled = Front(@)])
    /\ UNCHANGED <<begun, privileged, ruleVars, mainDef, rError, answer>>

-----------------------------------------------------------------------------
\* The innermost operation returns.

\* Variant: the messages are cleared when the PEP returns, not when it fails.
ClearErrorsOnReturn ==
    rError' = IF Top.kind = "rule" /\ Top.pep /\ Top.exc = NoExc THEN {} ELSE rError

\* at_scope_exit of exec_rule: a dynamic PEP clears the session's messages.
ClearErrors == rError' = IF Top.kind = "rule" /\ Top.pep THEN {} ELSE rError

\* The caller is given result code c: the host takes it as the answer; the
\* callback of the enclosing rule raises on an error that is not
\* CAT_NO_ROWS_FOUND.
ReturnCode(c, origin, straight) ==
    LET rest == Front(stack)
        exc == [first |-> c, origin |-> origin, straight |-> straight]
    IN  IF rest = <<>>
        THEN /\ stack' = <<>>
             /\ answer' = [code |-> c, origin |-> origin, straight |-> straight]
        ELSE /\ stack' = IF c >= 0 \/ c = NoRowsFound THEN rest
                         ELSE [rest EXCEPT ![Len(rest)].exc = Chained(exc, Top.around)]
             /\ UNCHANGED answer

\* to_irods_error_object: a negative integer is an error, anything else is not.
Return ==
    /\ IsRunning
    /\ \E c \in {0, NoRowsFound} \cup Codes : ReturnCode(c, c, TRUE)
    /\ ClearErrors
    /\ UNCHANGED <<begun, privileged, ruleVars, mainDef>>

\* Variant: exec_rule does not look for a code.
FailureCodeCoarse == IF Top.kind # "rule" THEN RuleEngineError ELSE -1

\* The code an operation reports for the exception it ends with: exec_rule
\* looks for the first code in the formatted text; the others do not look.
FailureCode ==
    IF Top.kind # "rule" THEN RuleEngineError
    ELSE IF Top.exc.first = 0 THEN -1 ELSE Top.exc.first

Fail ==
    /\ IsFailing
    /\ ReturnCode(FailureCode, Top.exc.origin, Top.exc.straight /\ Top.kind = "rule")
    /\ ClearErrors
    /\ UNCHANGED <<begun, privileged, ruleVars, mainDef>>

-----------------------------------------------------------------------------
Finished ==
    /\ stack = <<>>
    /\ begun = MaxOperations
    /\ UNCHANGED vars

Next ==
    \/ BeginRule \/ BeginText \/ BeginTextRule \/ BeginExpression \/ Refuse
    \/ MicroserviceFails \/ RuleRaises \/ RuleHandles \/ RuleHandled \/ RuleReraises
    \/ Return \/ Fail \/ Finished

Spec == Init /\ [][Next]_vars

-----------------------------------------------------------------------------
Frames ==
    [kind : Kinds, pep : BOOLEAN, id : 1..MaxOperations,
     entered : BOOLEAN, exc : Exceptions, handled : Seq(Exceptions), around : Exceptions]

\* The type invariant, and: an exception is in flight in the innermost
\* operation or nowhere.
TypeOK ==
    /\ stack \in Seq(Frames)
    /\ Len(stack) <= MaxDepth
    /\ \A i \in 1..Len(stack) :
          /\ stack[i].exc # NoExc => i = Len(stack)
          /\ stack[i].entered \/ stack[i].exc # NoExc
          /\ Len(stack[i].handled) <= MaxHandlers
    /\ begun \in 0..MaxOperations
    /\ privileged \in BOOLEAN
    /\ ruleVars \in 0..begun
    /\ mainDef \in BOOLEAN
    /\ rError \subseteq {"pep", "other"}
    /\ answer \in [code : Int, origin : Int, straight : BOOLEAN]

\* The code of a failing microservice, however deep, is the code the host is
\* given, whatever the rules on the way do and call in their except and finally
\* clauses, when every operation between is exec_rule and the failure is not
\* itself met while another with a code is being handled; -1 stands for an
\* exception without a code.
CodePropagates ==
    answer.straight => answer.code = answer.origin

\* When the host has its answer, no message that the server recorded under a
\* dynamic PEP, at any depth, is left for the client.
PepMessagesCleared == stack = <<>> => "pep" \notin rError

\* README.md: irods_rule_vars gives access to the variables of the INPUT line
\* of the rule that reads it.
VarsAreOwn == (IsRunning /\ Top.kind \in TextKinds) => ruleVars = Top.id
=============================================================================
