-------------------------- MODULE MarshallingProofs --------------------------
(***************************************************************************)
(* Proofs about Marshalling, for any types, objects and number of          *)
(* arguments: what is written back to the caller, and what it finds in     *)
(* ret["arguments"].                                                       *)
(***************************************************************************)
EXTENDS Marshalling, WellFoundedInduction, TLAPS

Sequence(s) == Len(s) \in Nat /\ DOMAIN s = 1..Len(s) /\ s = [i \in DOMAIN s |-> s[i]]

Shape ==
    /\ Sequence(cpp) /\ Sequence(passed) /\ Sequence(py) /\ Sequence(ret)
    /\ Len(ret) \in 0..Len(cpp) /\ at <= Len(py)
    /\ stage = "idle" => cpp = <<>> /\ strings = <<>> /\ params = <<>>
    /\ stage = "passing" => caller = "rule"
    /\ stage \in {"idle", "passing", "called"} => py = <<>> /\ callee = "none"
    /\ stage \in {"idle", "passing", "called", "rule"} => at = 0
    /\ stage \in {"rule", "updating"} => callee = "rule"
    /\ stage \notin {"answered", "returned", "raised"} => ret = <<>>

\* What an argument that is no string becomes.
IsParam(p) == p # Null /\ p = Object(p.type, p.val) /\ p.val # Null

\* What is in the list of a rule that a rule has called: strings are copies, and
\* a MsParam object came from an argument.
ListOfCallee ==
    caller = "rule" => \A i \in DOMAIN py :
       /\ py[i].type # "c_string"
       /\ py[i].type = "msParam" => IsParam(py[i].val)

\* WrittenAsFar with the other half, which makes it inductive: an argument that
\* is left an object of another type stays what it was.
Left(i) ==
    LET a == AsPassed(i) IN
    IF Writable(a) /\ Extracts(py[i], a.type)
    THEN [a EXCEPT !.val = Extracted(py[i], a.type)] ELSE a

Exactly ==
    callee # "microservice" =>
       \A i \in DOMAIN cpp :
          IF IsBuffer(AsPassed(i))
          THEN \E x \in Contents : cpp[i] = [AsPassed(i) EXCEPT !.val = x]
          ELSE cpp[i] = IF i <= at THEN Left(i) ELSE AsPassed(i)

\* A rule's arguments are such as could be converted.
Converted ==
    caller = "rule" => \A i \in DOMAIN cpp : IsText(passed[i]) \/ Accepted(passed[i])

\* A queue has the numbers in S, in their order.
Holds(queue, S) ==
    /\ queue \in Seq(Nat)
    /\ \A j, k \in 1..Len(queue) : j < k => queue[j] < queue[k]
    /\ \A j \in 1..Len(queue) : queue[j] \in S
    /\ \A i \in S : \E j \in 1..Len(queue) : queue[j] = i

\* The arguments that are passed and not yet in ret["arguments"].
Waiting == (Len(ret) + 1)..Len(cpp)

\* The queues have them, each those of its kind.
QueuesHold ==
    caller = "rule" /\ stage # "raised" =>
       /\ Holds(strings, {i \in Waiting : IsText(passed[i])})
       /\ Holds(params, {i \in Waiting : ~IsText(passed[i])})

\* A callee that succeeded was a rule whose list has been written back.
Written ==
    /\ stage \in {"answered", "returned"} /\ callee = "rule" /\ error = "none" =>
          at = Len(cpp)
    /\ stage = "returned" => caller = "rule" /\ error = "none"

\* The c_strings in the list a rule starts with are the texts of the server.
ViewsOfTexts ==
    caller = "server" /\ stage = "rule" =>
       DOMAIN py = DOMAIN cpp /\ \A i \in DOMAIN py :
          py[i].type = "c_string" => IsBuffer(passed[i])

Core == TypeOK /\ Shape /\ ListOfCallee /\ ViewsOfTexts /\ Converted /\ Exactly

IInv == Core /\ QueuesHold /\ ResultsInOrder /\ Written

LEMMA InitCore == Init => Core
<1>1. Sequence(<<>>)
  BY DEF Sequence
<1>. QED
  BY <1>1 DEF Init, Core, TypeOK, Stages, Shape, ListOfCallee, ViewsOfTexts, Converted,
             Exactly

LEMMA AppendSequences ==
    ASSUME NEW s, Sequence(s), NEW o
    PROVE  /\ Sequence(Append(s, o)) /\ Len(Append(s, o)) = Len(s) + 1
           /\ \A i \in 1..Len(s) : Append(s, o)[i] = s[i]
           /\ Append(s, o)[Len(s) + 1] = o
<1>. DEFINE S == {s[i] : i \in DOMAIN s} \cup {o}
            r == Append(s, o)
<1>1. s \in Seq(S) /\ o \in S
  BY DEF Sequence
<1>. HIDE DEF S
<1>2. r \in Seq(S) /\ Len(r) = Len(s) + 1
  BY <1>1
<1>3. Sequence(r)
  <2>. HIDE DEF r
  <2>1. r \in [1..Len(r) -> S]
    BY <1>2
  <2>. QED
    BY <1>2, <2>1 DEF Sequence
<1>. QED
  BY <1>1, <1>2, <1>3

LEMMA SeqOfSequences ==
    ASSUME NEW S, NEW n \in Nat, NEW s \in SeqOf(S, n)
    PROVE  Sequence(s) /\ s \in Seq(S)
<1>1. PICK m \in 0..n : s \in [1..m -> S]
  BY DEF SeqOf
<1>. QED
  BY <1>1 DEF Sequence

LEMMA FunctionSequences ==
    ASSUME NEW s, Sequence(s), NEW f, DOMAIN f = DOMAIN s, f = [i \in DOMAIN s |-> f[i]]
    PROVE  Sequence(f) /\ Len(f) = Len(s)
<1>1. f \in Seq({f[i] : i \in DOMAIN s})
  BY DEF Sequence
<1>. QED
  BY <1>1 DEF Sequence

-----------------------------------------------------------------------------
\* The conversions.

LEMMA ExtractedContents ==
    ASSUME NEW o \in PyObjects, NEW t, Extracts(o, t), t # "NoneType"
    PROVE  Extracted(o, t) \in Contents /\ Extracted(o, t) # Null
<1>. USE ArgsAssumption
<1>1. CASE o.type = t
  BY <1>1 DEF Extracted
<1>2. CASE o.type # t
  BY <1>2 DEF Extracts, Extracted
<1>. QED
  BY <1>1, <1>2

\* The search of msParam_from_object ends at a type that can be extracted.
LEMMA TakenAsCandidate ==
    ASSUME NEW o, Accepted(o)
    PROVE  TakenAs(o) \in Range(ParamTypes) /\ Extracts(o, TakenAs(o))
<1>. DEFINE T == {k \in DOMAIN ParamTypes : Extracts(o, ParamTypes[k])}
            R == OpToRel(<, Nat)
<1>1. DOMAIN ParamTypes = 1..Len(ParamTypes) /\ Len(ParamTypes) \in Nat
  BY ArgsAssumption
<1>2. T # {} /\ T \subseteq Nat
  BY <1>1 DEF Accepted
<1>3. PICK k \in T : \A j \in T : ~(<<j, k>> \in R)
  BY <1>2, NatLessThanWellFounded, WFMin
<1>4. ASSUME NEW j \in 1..(k - 1), Extracts(o, ParamTypes[j]) PROVE FALSE
  <2>1. j \in T /\ j \in Nat /\ k \in Nat /\ j < k
    BY <1>1, <1>2, <1>4
  <2>2. <<j, k>> \in R
    BY <2>1 DEF OpToRel
  <2>. QED
    BY <1>3, <2>1, <2>2
<1>5. k \in DOMAIN ParamTypes /\ IsCandidate(o, k)
  BY <1>3, <1>4 DEF IsCandidate
<1>. DEFINE m == CHOOSE i \in DOMAIN ParamTypes : IsCandidate(o, i)
<1>6. m \in DOMAIN ParamTypes /\ IsCandidate(o, m)
  BY <1>5
<1>. HIDE DEF m
<1>7. ParamTypes[m] \in Range(ParamTypes) /\ Extracts(o, ParamTypes[m])
  BY <1>6 DEF IsCandidate, Range
<1>. QED
  BY <1>7 DEF TakenAs, m

\* An argument of callback becomes a pointer to a string or to an MsParam.
LEMMA ConvertedArgument ==
    ASSUME NEW o \in PyObjects, IsText(o) \/ Accepted(o)
    PROVE  LET a == CppFromObject(o) IN
           /\ a = [kind |-> "pointer", type |-> a.type, val |-> a.val]
           /\ a.type = IF IsText(o) THEN "string" ELSE "msParam"
           /\ a.val # Null
           /\ ~IsText(o) => IsParam(a.val)
<1>1. CASE IsText(o)
  <2>1. Extracted(o, "string") # Null
    BY <1>1, ExtractedContents DEF IsText
  <2>. QED
    BY <1>1, <2>1 DEF CppFromObject, StringPointer
<1>2. CASE ~IsText(o)
  <2>. DEFINE t == TakenAs(o)
  <2>1. t \in Range(ParamTypes) /\ Extracts(o, t) /\ t # "NoneType"
    BY <1>2, TakenAsCandidate, ArgsAssumption
  <2>2. Extracted(o, t) \in Contents /\ Extracted(o, t) # Null
    BY <2>1, ExtractedContents
  <2>. DEFINE r == [type |-> t, val |-> Extracted(o, t)]
  <2>3. /\ r \in [type : Range(ParamTypes), val : Contents]
        /\ r = [type |-> r.type, val |-> r.val] /\ r.val # Null
    <3>. HIDE DEF t
    <3>. QED
      BY <2>1, <2>2
  <2>4. CppFromObject(o) = ParamPointer(r)
    BY <1>2 DEF CppFromObject, Object
  <2>. HIDE DEF r
  <2>5. r # Null
    BY <2>3, ArgsAssumption
  <2>6. IsParam(r)
    BY <2>3, <2>5 DEF IsParam, Object
  <2>. QED
    BY <1>2, <2>4, <2>5, <2>6 DEF ParamPointer
<1>. QED
  BY <1>1, <1>2

-----------------------------------------------------------------------------
\* The calls.

LEMMA CallsCore == Core /\ (ServerCalls \/ RuleCalls) => Core'
<1>. SUFFICES ASSUME Core PROVE ServerCalls \/ RuleCalls => Core'
  OBVIOUS
<1>. USE ArgsAssumption DEF Core, Stages
<1>1. ASSUME ServerCalls PROVE Core'
  <2>1. Sequence(cpp') /\ cpp' \in Seq(CppArgs) /\ passed' = cpp'
    BY <1>1, SeqOfSequences DEF ServerCalls
  <2>2. TypeOK' /\ Shape'
    BY <1>1, <2>1 DEF ServerCalls, TypeOK, Shape, Sequence
  <2>3. \A i \in DOMAIN cpp' : cpp'[i] = passed'[i] /\ passed'[i] \in CppArgs /\ ~(i <= 0)
    BY <2>1 DEF Sequence
  <2>4. at' = 0 /\ caller' = "server" /\ stage' = "called"
    BY <1>1 DEF ServerCalls, Shape
  <2>5. Exactly'
    <3>1. ASSUME NEW i \in DOMAIN cpp', IsBuffer(passed'[i])
          PROVE  \E v \in Contents : cpp'[i] = [passed'[i] EXCEPT !.val = v]
      <4>. DEFINE a == passed'[i]
      <4>1. a.val \in Contents /\ cpp'[i] = a /\ a = [kind |-> a.kind, type |-> a.type, val |-> a.val]
        BY <2>3, <3>1 DEF IsBuffer
      <4>. HIDE DEF a
      <4>2. a = [a EXCEPT !.val = a.val]
        BY <4>1
      <4>. QED
        BY <4>1, <4>2 DEF a
    <3>. QED
      BY <2>3, <2>4, <3>1 DEF Exactly, AsPassed
  <2>. QED
    BY <1>1, <2>2, <2>4, <2>5 DEF ServerCalls, ListOfCallee, ViewsOfTexts, Converted
<1>2. ASSUME RuleCalls PROVE Core'
  <2>1. Sequence(passed') /\ passed' \in Seq(PyObjects)
    BY <1>2, SeqOfSequences DEF RuleCalls
  <2>. QED
    BY <1>2, <2>1 DEF RuleCalls, TypeOK, Shape, Sequence, ListOfCallee, ViewsOfTexts,
                      Converted, Exactly
<1>. QED
  BY <1>1, <1>2

LEMMA PassCore == Core /\ (PassString \/ PassParam \/ PassedAll) => Core'
<1>. SUFFICES ASSUME Core, PassString \/ PassParam \/ PassedAll PROVE Core'
  OBVIOUS
<1>. USE DEF Core, Stages
<1>. DEFINE n == Len(cpp) + 1
<1>1. /\ stage = "passing" /\ caller = "rule" /\ at = 0 /\ py = <<>> /\ ret = <<>>
      /\ callee = "none" /\ Sequence(cpp) /\ Sequence(passed) /\ Len(cpp) \in Nat
      /\ UNCHANGED <<caller, callee, passed, py, at, ret, error>>
  BY DEF PassString, PassParam, PassedAll, Shape, Sequence
<1>2. CASE cpp' = cpp /\ stage' \in {"called", "raised"}
  BY <1>1, <1>2 DEF PassString, PassParam, PassedAll, TypeOK, Shape, ListOfCallee, ViewsOfTexts,
                    Converted, Exactly, AsPassed, Left
<1>3. CASE /\ cpp' = Append(cpp, CppFromObject(passed[n])) /\ n <= Len(passed)
           /\ IsText(passed[n]) \/ Accepted(passed[n])
           /\ stage' = stage
  <2>1. /\ Sequence(cpp') /\ Len(cpp') = n /\ n \in 0..Len(passed)
        /\ \A i \in 1..Len(cpp) : cpp'[i] = cpp[i]
        /\ cpp'[n] = CppFromObject(passed[n])
    BY <1>1, <1>3, AppendSequences DEF Sequence
  <2>2. ASSUME NEW i \in DOMAIN cpp'
        PROVE  /\ cpp'[i] = CppFromObject(passed[i]) /\ passed[i] \in PyObjects
               /\ IsText(passed[i]) \/ Accepted(passed[i])
    <3>0. i \in 1..Len(passed) /\ passed[i] \in PyObjects
      BY <1>1, <2>1, <2>2 DEF TypeOK, Sequence
    <3>1. i \in 1..Len(cpp) \/ i = n
      BY <1>1, <2>1, <2>2 DEF Sequence
    <3>2. CASE i \in 1..Len(cpp)
      <4>1. ~(i <= at) /\ i \in DOMAIN cpp
        BY <1>1, <3>2 DEF Sequence
      <4>. QED
        BY <1>1, <2>1, <3>0, <3>2, <4>1, ConvertedArgument
           DEF Converted, Exactly, AsPassed, IsBuffer
    <3>. QED
      BY <1>3, <2>1, <3>0, <3>1, <3>2
  <2>3. \A i \in DOMAIN cpp' :
           /\ cpp'[i].kind = "pointer"
           /\ cpp'[i].type = IF IsText(passed'[i]) THEN "string" ELSE "msParam"
           /\ ~(i <= 0)
    BY <1>1, <2>1, <2>2, ConvertedArgument DEF Sequence
  <2>4. TypeOK' /\ Shape'
    BY <1>1, <1>3, <2>1, <2>3 DEF TypeOK, Shape, Sequence
  <2>5. ListOfCallee' /\ ViewsOfTexts' /\ Converted' /\ Exactly'
    BY <1>1, <2>2, <2>3
       DEF ListOfCallee, ViewsOfTexts, Converted, Exactly, AsPassed, IsBuffer
  <2>. QED
    BY <2>4, <2>5
<1>. QED
  BY <1>2, <1>3 DEF PassString, PassParam, PassedAll

\* A microservice may write to what it was given, and nothing is claimed of it.
LEMMA MicroserviceCore == Core /\ Microservice => Core'
<1>. SUFFICES ASSUME Core, Microservice PROVE Core'
  OBVIOUS
<1>. USE DEF Core, Stages
<1>1. /\ cpp' = [i \in DOMAIN cpp |-> cpp'[i]]
      /\ DOMAIN cpp' = DOMAIN cpp
      /\ \A i \in DOMAIN cpp : cpp'[i].type = cpp[i].type /\ cpp'[i].kind = "pointer"
  BY DEF Microservice, StringPointer, ParamPointer
<1>2. Sequence(cpp') /\ Len(cpp') = Len(cpp)
  BY <1>1, FunctionSequences DEF Shape
<1>3. TypeOK' /\ Shape'
  BY <1>1, <1>2 DEF Microservice, TypeOK, Shape
<1>4. ListOfCallee' /\ ViewsOfTexts' /\ Converted' /\ Exactly'
  BY <1>1 DEF Microservice, ListOfCallee, ViewsOfTexts, Converted, Exactly
<1>. QED
  BY <1>3, <1>4

-----------------------------------------------------------------------------
\* A rule answers.

LEMMA BeginRuleCore == Core /\ BeginRule => Core'
<1>. SUFFICES ASSUME Core, BeginRule PROVE Core'
  OBVIOUS
<1>. USE ArgsAssumption DEF Core, Stages
<1>0. Sequence(py')
  <2>1. UNCHANGED py \/ py' = [i \in DOMAIN cpp |-> ObjectFromAny(cpp[i], i)]
    BY DEF BeginRule
  <2>. QED
    BY <2>1, FunctionSequences DEF Shape
<1>1. TypeOK' /\ Shape'
  BY <1>0 DEF BeginRule, TypeOK, Shape
<1>2. Converted' /\ Exactly'
  <2>1. at = 0 /\ callee = "none" /\ UNCHANGED <<caller, cpp, passed, at>>
    BY DEF BeginRule, Shape
  <2>2. \A i \in DOMAIN cpp : ~(i <= 0)
    BY DEF Shape, Sequence
  <2>. QED
    BY <2>1, <2>2 DEF Converted, Exactly, AsPassed
<1>3. ListOfCallee'
  <2>1. CASE UNCHANGED py
    BY <2>1 DEF BeginRule, ListOfCallee
  <2>2. CASE caller = "rule" /\ py' = [i \in DOMAIN cpp |-> ObjectFromAny(cpp[i], i)]
    <3>. SUFFICES ASSUME NEW i \in DOMAIN cpp
                  PROVE  /\ py'[i].type # "c_string"
                         /\ py'[i].type = "msParam" => IsParam(py'[i].val)
      BY <2>2 DEF BeginRule, ListOfCallee
    <3>1. /\ cpp[i] = CppFromObject(passed[i]) /\ passed[i] \in PyObjects
          /\ IsText(passed[i]) \/ Accepted(passed[i])
      <4>1. i \in DOMAIN passed /\ ~(i <= 0) /\ at = 0 /\ callee # "microservice"
        BY <2>2 DEF BeginRule, TypeOK, Shape, Sequence
      <4>2. passed[i] \in PyObjects /\ (IsText(passed[i]) \/ Accepted(passed[i]))
        BY <2>2, <4>1 DEF Converted, TypeOK
      <4>3. ~IsBuffer(CppFromObject(passed[i]))
        BY <4>2, ConvertedArgument DEF IsBuffer
      <4>. QED
        BY <2>2, <4>1, <4>2, <4>3 DEF Exactly, AsPassed
    <3>. DEFINE a == CppFromObject(passed[i])
    <3>2. py'[i] = ObjectFromAny(a, i)
      BY <2>2, <3>1
    <3>3. /\ a.kind = "pointer" /\ a.val # Null
          /\ a.type = IF IsText(passed[i]) THEN "string" ELSE "msParam"
          /\ ~IsText(passed[i]) => IsParam(a.val)
      BY <3>1, ConvertedArgument
    <3>. HIDE DEF a
    <3>4. py'[i] = Object(a.type, a.val)
      BY <3>2, <3>3 DEF ObjectFromAny
    <3>. QED
      BY <3>3, <3>4 DEF Object
  <2>. QED
    BY <2>1, <2>2 DEF BeginRule, ListOfCallee
<1>4. ViewsOfTexts'
  <2>. SUFFICES ASSUME caller = "server", stage' = "rule", NEW i \in DOMAIN cpp,
                       py'[i].type = "c_string"
                PROVE  IsBuffer(passed[i])
    BY DEF BeginRule, ViewsOfTexts
  <2>1. py'[i] = ObjectFromAny(cpp[i], i)
    BY DEF BeginRule
  <2>2. /\ i \in DOMAIN passed /\ passed[i] \in CppArgs /\ ~(i <= at)
        /\ callee = "none"
    BY DEF BeginRule, TypeOK, Shape, Sequence
  <2>3. cpp[i] = passed[i] \/ IsBuffer(passed[i])
    BY <2>2 DEF Exactly, AsPassed
  <2>4. ASSUME cpp[i] = passed[i] PROVE IsBuffer(passed[i])
    <3>. DEFINE a == passed[i]
    <3>1. ObjectFromAny(a, i).type = "c_string" /\ a.type # "c_string"
      BY <2>1, <2>2, <2>4
    <3>. HIDE DEF a
    <3>2. CASE a.kind = "void" \/ a.val = Null
      BY <3>1, <3>2 DEF ObjectFromAny, Object, PyNone
    <3>3. CASE a.kind # "void" /\ a.val # Null
      <4>1. a.kind = "char*"
        BY <3>1, <3>3 DEF ObjectFromAny, Object
      <4>. QED
        BY <3>3, <4>1 DEF IsBuffer, a
    <3>. QED
      BY <3>2, <3>3
  <2>. QED
    BY <2>3, <2>4
<1>. QED
  BY <1>1, <1>2, <1>3, <1>4

\* Only the texts of the server can be written through.
LEMMA WriteThroughCore == Core /\ (\E i \in DOMAIN py : WriteThrough(i)) => Core'
<1>. SUFFICES ASSUME Core, NEW i \in DOMAIN py, WriteThrough(i) PROVE Core'
  OBVIOUS
<1>. USE DEF Core, Stages
<1>1. caller # "rule"
  BY DEF WriteThrough, ListOfCallee
<1>2. cpp' = [j \in DOMAIN cpp |-> cpp'[j]] /\ DOMAIN cpp' = DOMAIN cpp
  BY DEF WriteThrough
<1>3. Sequence(cpp') /\ Len(cpp') = Len(cpp)
  BY <1>2, FunctionSequences DEF Shape
<1>4. TypeOK' /\ Shape' /\ ListOfCallee' /\ ViewsOfTexts' /\ Converted'
  BY <1>1, <1>2, <1>3 DEF WriteThrough, TypeOK, Shape, ListOfCallee, ViewsOfTexts, Converted
<1>5. Exactly'
  <2>1. /\ caller = "server" /\ IsBuffer(passed[i]) /\ i \in DOMAIN cpp
        /\ callee = "rule" /\ UNCHANGED <<caller, callee, passed, py, at>>
    BY <1>1 DEF WriteThrough, TypeOK, Shape, ViewsOfTexts
  <2>2. PICK v \in Contents : cpp' = [cpp EXCEPT ![i].val = v]
    BY DEF WriteThrough
  <2>3. PICK w \in Contents : cpp[i] = [passed[i] EXCEPT !.val = w]
    BY <2>1 DEF Exactly, AsPassed
  <2>4. cpp'[i] = [passed[i] EXCEPT !.val = v]
    BY <2>1, <2>2, <2>3
  <2>5. \A j \in DOMAIN cpp : j # i => cpp'[j] = cpp[j]
    BY <2>2
  <2>. QED
    BY <1>2, <2>1, <2>4, <2>5 DEF Exactly, AsPassed, Left
<1>. QED
  BY <1>4, <1>5

LEMMA RuleReturnsCore == Core /\ RuleReturns => Core'
<1>. SUFFICES ASSUME Core, RuleReturns PROVE Core'
  OBVIOUS
<1>. USE ArgsAssumption DEF Core, Stages
<1>1. TypeOK' /\ Shape'
  BY SeqOfSequences DEF RuleReturns, TypeOK, Shape
<1>2. ListOfCallee'
  <2>1. py' \in Seq(PyObjects \cup Range(py)) /\ Sequence(py')
    BY SeqOfSequences DEF RuleReturns
  <2>2. \A i \in DOMAIN py' : py'[i] \in PyObjects \/ \E j \in DOMAIN py : py'[i] = py[j]
    BY <2>1 DEF Range, Sequence
  <2>. QED
    BY <2>2 DEF RuleReturns, ListOfCallee
<1>3. Converted' /\ Exactly'
  <2>1. at = 0 /\ at' = 0 /\ \A i \in DOMAIN cpp : ~(i <= 0)
    BY DEF RuleReturns, Shape, Sequence
  <2>. QED
    BY <2>1 DEF RuleReturns, Converted, Exactly, AsPassed
<1>4. ViewsOfTexts'
  BY DEF RuleReturns, ViewsOfTexts
<1>. QED
  BY <1>1, <1>2, <1>3, <1>4

LEMMA RuleEndsCore == Core /\ (RuleRaises \/ UpdateRaises \/ EndRule) => Core'
<1>. SUFFICES ASSUME Core, RuleRaises \/ UpdateRaises \/ EndRule PROVE Core'
  OBVIOUS
<1>. USE DEF Core, Stages
<1>1. UNCHANGED <<caller, callee, passed, cpp, py, at, ret>>
  BY DEF RuleRaises, UpdateRaises, EndRule
<1>2. TypeOK' /\ Shape'
  BY <1>1 DEF RuleRaises, UpdateRaises, EndRule, TypeOK, Shape
<1>. QED
  BY <1>1, <1>2 DEF RuleRaises, UpdateRaises, EndRule, ListOfCallee, ViewsOfTexts,
                   Converted, Exactly, AsPassed, Left

\* One argument written back.
LEMMA UpdateCore == Core /\ Update => Core'
<1>. SUFFICES ASSUME Core, Update PROVE Core'
  OBVIOUS
<1>. USE ArgsAssumption DEF Core, Stages
<1>. DEFINE n == at + 1
<1>0. /\ at < Len(cpp) /\ at < Len(py) /\ at' = n
      /\ UNCHANGED <<caller, callee, stage, passed, py, ret, error>>
      /\ stage = "updating"
  BY DEF Update
<1>1. n \in DOMAIN cpp /\ n \in DOMAIN py /\ at \in Nat /\ n \in Nat
  <2>1. at \in 0..Len(cpp) /\ Len(cpp) \in Nat /\ Len(py) \in Nat
    BY DEF TypeOK, Shape, Sequence
  <2>2. DOMAIN cpp = 1..Len(cpp) /\ DOMAIN py = 1..Len(py)
    BY DEF Shape, Sequence
  <2>. QED
    BY <1>0, <2>1, <2>2
<1>2. /\ cpp' = [j \in DOMAIN cpp |-> cpp'[j]] /\ DOMAIN cpp' = DOMAIN cpp
      /\ \A j \in DOMAIN cpp : j # n => cpp'[j] = cpp[j]
      /\ cpp'[n] \in Updated(cpp[n], py[n], n)
  <2>1. PICK a \in Updated(cpp[n], py[n], n) : cpp' = [cpp EXCEPT ![n] = a]
    BY DEF Update
  <2>. QED
    BY <1>1, <2>1
<1>3. Sequence(cpp') /\ Len(cpp') = Len(cpp)
  BY <1>2, FunctionSequences DEF Shape
<1>4. callee # "microservice" /\ ~(n <= at) /\ n \in DOMAIN passed
  BY <1>0, <1>1 DEF TypeOK, Shape, Sequence
<1>. DEFINE p == AsPassed(n)
<1>5. /\ p = [kind |-> p.kind, type |-> p.type, val |-> p.val]
      /\ caller = "rule" =>
            p.kind = "pointer" /\ p.type = IF IsText(passed[n]) THEN "string" ELSE "msParam"
  <2>1. passed[n] \in IF caller = "rule" THEN PyObjects ELSE CppArgs
    BY <1>4 DEF TypeOK
  <2>2. CASE caller = "rule"
    BY <1>1, <2>1, <2>2, ConvertedArgument DEF AsPassed, Converted
  <2>3. CASE caller # "rule"
    BY <2>1, <2>3 DEF AsPassed
  <2>. QED
    BY <2>2, <2>3
<1>6. IF IsBuffer(p)
      THEN \E v \in Contents : cpp'[n] = [p EXCEPT !.val = v]
      ELSE cpp'[n] = Left(n)
  <2>. HIDE DEF p
  <2>1. CASE IsBuffer(p)
    <3>1. PICK w \in Contents : cpp[n] = [p EXCEPT !.val = w]
      BY <1>1, <1>4, <2>1 DEF Exactly, p
    <3>2. cpp[n].kind = "char*"
      BY <1>5, <2>1, <3>1 DEF IsBuffer
    <3>3. \/ cpp'[n] = cpp[n]
          \/ \E v \in Contents : cpp'[n] = [cpp[n] EXCEPT !.val = v]
      BY <1>2, <3>2 DEF Updated
    <3>4. ASSUME NEW v \in Contents, cpp'[n] = [cpp[n] EXCEPT !.val = v]
          PROVE  cpp'[n] = [p EXCEPT !.val = v]
      BY <1>5, <3>1, <3>4
    <3>5. \E v \in Contents : cpp'[n] = [p EXCEPT !.val = v]
      BY <3>1, <3>3, <3>4
    <3>. QED
      BY <2>1, <3>5
  <2>2. CASE ~IsBuffer(p)
    <3>1. cpp[n] = p
      BY <1>1, <1>4, <2>2 DEF Exactly, p
    <3>. QED
      BY <1>2, <2>2, <3>1 DEF Updated, IsBuffer, Writable, Left, p
  <2>. QED
    BY <2>1, <2>2
<1>7. caller = "rule" =>
         \A j \in DOMAIN cpp : cpp'[j].kind = "pointer" /\ cpp'[j].type = cpp[j].type
  <2>. SUFFICES ASSUME caller = "rule", NEW j \in DOMAIN cpp
                PROVE  cpp'[j].kind = "pointer" /\ cpp'[j].type = cpp[j].type
    OBVIOUS
  <2>1. cpp[j].kind = "pointer"
    BY DEF TypeOK
  <2>2. CASE j # n
    BY <1>2, <2>1, <2>2
  <2>3. CASE j = n
    <3>. HIDE DEF p
    <3>1. ~IsBuffer(p) /\ cpp[n].type = p.type
      BY <1>1, <1>5 DEF IsBuffer, TypeOK
    <3>2. cpp'[n] = p \/ \E v : cpp'[n] = [p EXCEPT !.val = v]
      BY <1>6, <3>1 DEF Left, p
    <3>. QED
      BY <1>5, <2>3, <3>1, <3>2
  <2>. QED
    BY <2>2, <2>3
<1>8. TypeOK' /\ Shape' /\ Converted'
  BY <1>0, <1>1, <1>2, <1>3, <1>7 DEF TypeOK, Shape, Converted
<1>9. Exactly'
  <2>1. \A i \in DOMAIN cpp : i <= n <=> i <= at \/ i = n
    BY <1>1 DEF Shape, Sequence
  <2>2. ASSUME NEW i \in DOMAIN cpp
        PROVE  IF IsBuffer(AsPassed(i))
               THEN \E v \in Contents : cpp'[i] = [AsPassed(i) EXCEPT !.val = v]
               ELSE cpp'[i] = IF i <= n THEN Left(i) ELSE AsPassed(i)
    <3>1. CASE i = n
      BY <1>6, <2>1, <3>1
    <3>2. CASE i # n
      <4>1. cpp'[i] = cpp[i] /\ (i <= n <=> i <= at)
        BY <1>2, <2>1, <3>2
      <4>. QED
        BY <1>4, <4>1 DEF Exactly
    <3>. QED
      BY <3>1, <3>2
  <2>. QED
    BY <1>0, <1>2, <2>2 DEF Exactly, AsPassed, Left
<1>. QED
  BY <1>0, <1>8, <1>9 DEF ListOfCallee, ViewsOfTexts

-----------------------------------------------------------------------------
\* The answer.

LEMMA AnswerCore == Core /\ (AnswerString \/ AnswerParam \/ Answer) => Core'
<1>. SUFFICES ASSUME Core, AnswerString \/ AnswerParam \/ Answer PROVE Core'
  OBVIOUS
<1>. USE DEF Core, Stages
<1>1. /\ UNCHANGED <<caller, callee, passed, cpp, py, at, error>> /\ stage = "answered"
      /\ stage' \in {"answered", "returned", "raised"}
  BY DEF AnswerString, AnswerParam, Answer, Answers
<1>2. Sequence(ret') /\ Len(ret') \in 0..Len(cpp)
  <2>1. \/ ret' = ret
        \/ Len(ret) + 1 <= Len(cpp) /\ \E o : ret' = Append(ret, o)
    BY DEF AnswerString, AnswerParam, Answer, Answers
  <2>. QED
    BY <2>1, AppendSequences DEF Shape, Sequence
<1>3. TypeOK' /\ Shape'
  BY <1>1, <1>2 DEF TypeOK, Shape
<1>. QED
  BY <1>1, <1>3 DEF ListOfCallee, ViewsOfTexts, Converted, Exactly, AsPassed, Left

LEMMA NextCore == Core /\ [Next]_vars => Core'
<1>. SUFFICES ASSUME Core, [Next]_vars PROVE Core'
  OBVIOUS
<1>1. CASE UNCHANGED vars
  BY <1>1 DEF vars, Core, TypeOK, Shape, Sequence, ListOfCallee, ViewsOfTexts, Converted,
              Exactly, AsPassed, Left
<1>. QED
  BY <1>1, CallsCore, PassCore, MicroserviceCore, BeginRuleCore, WriteThroughCore, RuleReturnsCore,
     RuleEndsCore, UpdateCore, AnswerCore DEF Next

-----------------------------------------------------------------------------
\* The queues.

\* emplace_back, of an argument that comes behind those there are.
LEMMA Queued ==
    ASSUME NEW queue, NEW S, Holds(queue, S), NEW n \in Nat, \A i \in S : i < n
    PROVE  Holds(Append(queue, n), S \cup {n})
<1>. DEFINE r == Append(queue, n)
<1>1. /\ queue \in Seq(Nat) /\ Len(queue) \in Nat
      /\ \A j \in 1..Len(queue) : queue[j] \in S /\ queue[j] \in Nat
  BY DEF Holds
<1>2. /\ r \in Seq(Nat) /\ Len(r) = Len(queue) + 1
      /\ \A j \in 1..Len(queue) : r[j] = queue[j]
      /\ r[Len(queue) + 1] = n
  BY <1>1
<1>. HIDE DEF r
<1>3. 1..Len(r) = 1..Len(queue) \cup {Len(queue) + 1}
  BY <1>1, <1>2
<1>4. ASSUME NEW j \in 1..Len(r), NEW k \in 1..Len(r), j < k PROVE r[j] < r[k]
  <2>1. j \in 1..Len(queue)
    BY <1>1, <1>3, <1>4
  <2>2. CASE k \in 1..Len(queue)
    BY <1>2, <1>4, <2>1, <2>2 DEF Holds
  <2>3. CASE k = Len(queue) + 1
    BY <1>1, <1>2, <2>1, <2>3
  <2>. QED
    BY <1>3, <2>2, <2>3
<1>5. ASSUME NEW i \in S \cup {n} PROVE \E j \in 1..Len(r) : r[j] = i
  <2>1. CASE i = n
    BY <1>2, <1>3, <2>1
  <2>2. CASE i \in S
    BY <1>2, <1>3, <2>2 DEF Holds
  <2>. QED
    BY <2>1, <2>2
<1>6. \A j \in 1..Len(r) : r[j] \in S \cup {n}
  BY <1>1, <1>2, <1>3
<1>. QED
  BY <1>2, <1>4, <1>5, <1>6 DEF Holds, r

\* front and pop_front, when n is to be the next.
LEMMA Dequeued ==
    ASSUME NEW queue, NEW S, Holds(queue, S), NEW n \in S, \A i \in S : n <= i
    PROVE  Head(queue) = n /\ Holds(Tail(queue), S \ {n})
<1>. DEFINE r == Tail(queue)
<1>1. /\ queue \in Seq(Nat) /\ Len(queue) \in Nat
      /\ \A j \in 1..Len(queue) : queue[j] \in S /\ queue[j] \in Nat
  BY DEF Holds
<1>2. PICK j \in 1..Len(queue) : queue[j] = n
  BY DEF Holds
<1>3. 1 \in 1..Len(queue) /\ n \in Nat
  BY <1>1, <1>2
<1>4. queue[1] = n
  <2>1. n <= queue[1]
    BY <1>1, <1>3
  <2>2. CASE j = 1
    BY <1>2, <2>2
  <2>3. CASE j # 1
    <3>1. queue[1] < queue[j]
      BY <1>3, <2>3 DEF Holds
    <3>. QED
      BY <1>1, <1>2, <1>3, <2>1, <3>1
  <2>. QED
    BY <2>2, <2>3
<1>5. /\ Head(queue) = queue[1]
      /\ r \in Seq(Nat) /\ Len(r) = Len(queue) - 1
      /\ \A k \in 1..Len(r) : r[k] = queue[k + 1]
  BY <1>1, <1>3
<1>. HIDE DEF r
<1>6. \A k \in 1..Len(r) : k + 1 \in 1..Len(queue) /\ 1 < k + 1
  BY <1>1, <1>5
<1>7. ASSUME NEW k \in 1..Len(r) PROVE r[k] \in S \ {n}
  <2>1. queue[1] < queue[k + 1]
    BY <1>3, <1>6 DEF Holds
  <2>. QED
    BY <1>1, <1>3, <1>4, <1>5, <1>6, <2>1
<1>8. ASSUME NEW i \in S \ {n} PROVE \E k \in 1..Len(r) : r[k] = i
  <2>1. PICK k \in 1..Len(queue) : queue[k] = i
    BY DEF Holds
  <2>2. k # 1
    BY <1>4, <2>1
  <2>3. k - 1 \in 1..Len(r) /\ (k - 1) + 1 = k
    BY <1>1, <1>5, <2>2
  <2>. QED
    BY <1>5, <2>1, <2>3
<1>9. ASSUME NEW k \in 1..Len(r), NEW m \in 1..Len(r), k < m PROVE r[k] < r[m]
  <2>1. k + 1 < m + 1
    BY <1>9, <1>6
  <2>. QED
    BY <1>5, <1>6, <2>1 DEF Holds
<1>. QED
  BY <1>4, <1>5, <1>7, <1>8, <1>9 DEF Holds, r

LEMMA NothingQueued == Holds(<<>>, {})
  BY DEF Holds

LEMMA NothingLeft == ASSUME NEW queue, Holds(queue, {}) PROVE queue = <<>>
<1>1. queue \in Seq(Nat) /\ 1 \notin 1..Len(queue)
  BY DEF Holds
<1>. QED
  BY <1>1

StringsWaiting == {i \in Waiting : IsText(passed[i])}
ParamsWaiting == {i \in Waiting : ~IsText(passed[i])}

LEMMA SameQueues ==
    ASSUME QueuesHold, UNCHANGED <<caller, passed, strings, params, ret>>,
           Len(cpp') = Len(cpp), stage # "raised"
    PROVE  QueuesHold'
  BY DEF QueuesHold, Waiting

LEMMA PassQueues ==
    ASSUME IInv, PassString \/ PassParam PROVE QueuesHold' /\ ResultsInOrder' /\ Written'
<1>. DEFINE n == Len(cpp) + 1
<1>1. /\ stage = "passing" /\ caller = "rule" /\ ret = <<>> /\ Len(ret) = 0
      /\ Len(cpp) \in Nat /\ n \in Nat
      /\ UNCHANGED <<caller, callee, passed, at, ret, error>>
      /\ stage' \in {"passing", "raised"}
  BY DEF PassString, PassParam, IInv, Core, Shape, Sequence
<1>2. Holds(strings, StringsWaiting) /\ Holds(params, ParamsWaiting)
  BY <1>1 DEF IInv, QueuesHold, StringsWaiting, ParamsWaiting
<1>3. \A i \in Waiting : i < n
  BY <1>1 DEF Waiting
<1>4. CASE cpp' = Append(cpp, CppFromObject(passed[n]))
  <2>1. Len(cpp') = n /\ Waiting' = Waiting \cup {n}
    <3>1. Len(cpp') = n
      BY <1>4, AppendSequences DEF IInv, Core, Shape
    <3>. QED
      BY <1>1, <3>1 DEF Waiting
  <2>2. ASSUME IsText(passed[n]), strings' = Append(strings, n), params' = params
        PROVE  QueuesHold'
    <3>1. StringsWaiting' = StringsWaiting \cup {n} /\ ParamsWaiting' = ParamsWaiting
      BY <1>1, <2>1, <2>2 DEF StringsWaiting, ParamsWaiting
    <3>2. Holds(strings', StringsWaiting')
      BY <1>1, <1>2, <1>3, <2>2, <3>1, Queued DEF StringsWaiting
    <3>3. Holds(params', ParamsWaiting')
      BY <1>2, <2>2, <3>1
    <3>. QED
      BY <3>2, <3>3 DEF QueuesHold, StringsWaiting, ParamsWaiting
  <2>3. ASSUME ~IsText(passed[n]), params' = Append(params, n), strings' = strings
        PROVE  QueuesHold'
    <3>1. ParamsWaiting' = ParamsWaiting \cup {n} /\ StringsWaiting' = StringsWaiting
      BY <1>1, <2>1, <2>3 DEF StringsWaiting, ParamsWaiting
    <3>2. Holds(params', ParamsWaiting')
      BY <1>1, <1>2, <1>3, <2>3, <3>1, Queued DEF ParamsWaiting
    <3>3. Holds(strings', StringsWaiting')
      BY <1>2, <2>3, <3>1
    <3>. QED
      BY <3>2, <3>3 DEF QueuesHold, StringsWaiting, ParamsWaiting
  <2>4. QueuesHold'
    BY <1>1, <1>4, <2>2, <2>3 DEF PassString, PassParam, QueuesHold
  <2>. QED
    BY <1>1, <2>4 DEF ResultsInOrder, Written
<1>5. CASE stage' = "raised"
  BY <1>1, <1>5 DEF QueuesHold, ResultsInOrder, Written
<1>. QED
  BY <1>4, <1>5 DEF PassString, PassParam

\* The argument next to be answered is the front of its queue.
LEMMA FrontIsNext ==
    ASSUME IInv, AnswerString \/ AnswerParam
    PROVE  LET n == Len(ret) + 1 IN
           /\ n \in 1..Len(cpp) /\ passed[n] \in PyObjects
           /\ IsString(cpp[n]) <=> IsText(passed[n])
           /\ IsString(cpp[n]) =>
                 Head(strings) = n /\ Holds(Tail(strings), StringsWaiting \ {n})
           /\ ~IsString(cpp[n]) =>
                 Head(params) = n /\ Holds(Tail(params), ParamsWaiting \ {n})
<1>. DEFINE n == Len(ret) + 1
<1>1. /\ stage = "answered" /\ caller = "rule" /\ n <= Len(cpp)
      /\ Len(ret) \in Nat /\ Len(cpp) \in Nat /\ Len(cpp) = Len(passed)
      /\ DOMAIN cpp = 1..Len(cpp) /\ passed \in Seq(PyObjects)
  BY DEF AnswerString, AnswerParam, Answers, IInv, Core, Shape, Sequence, TypeOK
<1>2. n \in 1..Len(cpp) /\ n \in Waiting /\ \A i \in Waiting : n <= i
  BY <1>1 DEF Waiting
<1>3. passed[n] \in PyObjects
  BY <1>1, <1>2
<1>4. IsString(cpp[n]) <=> IsText(passed[n])
  BY <1>1, <1>2 DEF IsString, IInv, Core, TypeOK
<1>5. Holds(strings, StringsWaiting) /\ Holds(params, ParamsWaiting)
  BY <1>1 DEF IInv, QueuesHold, StringsWaiting, ParamsWaiting
<1>. HIDE DEF n
<1>6. ASSUME IsString(cpp[n])
      PROVE  Head(strings) = n /\ Holds(Tail(strings), StringsWaiting \ {n})
  <2>1. n \in StringsWaiting /\ \A i \in StringsWaiting : n <= i
    BY <1>2, <1>4, <1>6 DEF StringsWaiting
  <2>. QED
    BY <1>5, <2>1, Dequeued
<1>7. ASSUME ~IsString(cpp[n])
      PROVE  Head(params) = n /\ Holds(Tail(params), ParamsWaiting \ {n})
  <2>1. n \in ParamsWaiting /\ \A i \in ParamsWaiting : n <= i
    BY <1>2, <1>4, <1>7 DEF ParamsWaiting
  <2>. QED
    BY <1>5, <2>1, Dequeued
<1>. QED
  BY <1>2, <1>3, <1>4, <1>6, <1>7 DEF n

LEMMA AnswerQueues ==
    ASSUME IInv, AnswerString \/ AnswerParam
    PROVE  QueuesHold' /\ ResultsInOrder' /\ Written'
<1>. DEFINE n == Len(ret) + 1
            o == IF IsString(cpp[n]) THEN Object("string", cpp[n].val)
                 ELSE ObjectFromMsParam(cpp[n].val)
<1>1. /\ stage = "answered" /\ caller = "rule" /\ n <= Len(cpp)
      /\ Len(ret) \in Nat /\ Len(cpp) \in Nat /\ Sequence(ret)
      /\ UNCHANGED <<caller, callee, passed, cpp, py, at, error>>
  BY DEF AnswerString, AnswerParam, Answers, IInv, Core, Shape, Sequence
<1>2. Holds(strings, StringsWaiting) /\ Holds(params, ParamsWaiting)
  BY <1>1 DEF IInv, QueuesHold, StringsWaiting, ParamsWaiting
<1>3. CASE stage' = "raised" /\ ret' = ret
  BY <1>1, <1>3 DEF IInv, QueuesHold, ResultsInOrder, Written
<1>4. ASSUME ret' = Append(ret, o), stage' = stage,
             Holds(strings', StringsWaiting \ {n}), Holds(params', ParamsWaiting \ {n})
      PROVE  QueuesHold' /\ ResultsInOrder' /\ Written'
  <2>1. /\ Len(ret') = n /\ DOMAIN ret' = 1..n /\ ret'[n] = o
        /\ \A i \in 1..Len(ret) : ret'[i] = ret[i]
    BY <1>1, <1>4, AppendSequences DEF Sequence
  <2>2. Waiting' = Waiting \ {n}
    BY <1>1, <2>1 DEF Waiting
  <2>3. /\ StringsWaiting' = StringsWaiting \ {n}
        /\ ParamsWaiting' = ParamsWaiting \ {n}
    BY <1>1, <2>2 DEF StringsWaiting, ParamsWaiting
  <2>4. QueuesHold'
    BY <1>4, <2>3 DEF QueuesHold, StringsWaiting, ParamsWaiting
  <2>5. ResultsInOrder'
    <3>1. \A i \in 1..n : i \in 1..Len(ret) \/ i = n
      BY <1>1
    <3>2. DOMAIN ret = 1..Len(ret)
      BY <1>1 DEF Sequence
    <3>3. \A i \in DOMAIN ret' :
             ret'[i] = IF IsString(cpp[i]) THEN Object("string", cpp[i].val)
                       ELSE ObjectFromMsParam(cpp[i].val)
      BY <1>4, <2>1, <3>1, <3>2 DEF IInv, ResultsInOrder
    <3>. QED
      BY <1>1, <1>4, <3>3 DEF ResultsInOrder, IsString
  <2>6. Written'
    BY <1>1, <1>4 DEF IInv, Written
  <2>. QED
    BY <2>4, <2>5, <2>6
<1>5. CASE AnswerString
  <2>1. /\ IsString(cpp[n]) /\ stage' = stage
        /\ ret' = Append(ret, Object("string", cpp[Head(strings)].val))
        /\ strings' = Tail(strings) /\ params' = params
    BY <1>5 DEF AnswerString
  <2>2. Head(strings) = n /\ Holds(strings', StringsWaiting \ {n})
    BY <2>1, FrontIsNext
  <2>3. Holds(params', ParamsWaiting \ {n})
    <3>1. ParamsWaiting \ {n} = ParamsWaiting
      BY <2>1, FrontIsNext DEF ParamsWaiting
    <3>. QED
      BY <1>2, <2>1, <3>1
  <2>4. ret' = Append(ret, o)
    BY <2>1, <2>2
  <2>. QED
    BY <1>4, <2>1, <2>2, <2>3, <2>4
<1>6. CASE AnswerParam /\ stage' # "raised"
  <2>1. /\ ~IsString(cpp[n]) /\ stage' = stage
        /\ ret' = Append(ret, ObjectFromMsParam(cpp[Head(params)].val))
        /\ params' = Tail(params) /\ strings' = strings
    BY <1>6 DEF AnswerParam
  <2>2. Head(params) = n /\ Holds(params', ParamsWaiting \ {n})
    BY <2>1, FrontIsNext
  <2>3. Holds(strings', StringsWaiting \ {n})
    <3>1. StringsWaiting \ {n} = StringsWaiting
      BY <2>1, FrontIsNext DEF StringsWaiting
    <3>. QED
      BY <1>2, <2>1, <3>1
  <2>4. ret' = Append(ret, o)
    BY <2>1, <2>2
  <2>. QED
    BY <1>4, <2>1, <2>2, <2>3, <2>4
<1>. QED
  BY <1>1, <1>3, <1>5, <1>6 DEF AnswerParam

LEMMA RestQueues ==
    ASSUME IInv, [Next]_vars, Core',
           ~PassString, ~PassParam, ~AnswerString, ~AnswerParam
    PROVE  QueuesHold' /\ ResultsInOrder' /\ Written'
<1>1. CASE ServerCalls
  BY <1>1 DEF ServerCalls, IInv, Core, Shape, QueuesHold, ResultsInOrder, Written
<1>2. CASE RuleCalls
  <2>1. /\ stage' = "passing" /\ cpp' = <<>> /\ ret' = <<>>
        /\ strings' = <<>> /\ params' = <<>>
    BY <1>2 DEF RuleCalls, IInv, Core, Shape
  <2>2. Waiting' = {}
    BY <2>1 DEF Waiting
  <2>3. /\ {i \in Waiting' : IsText(passed'[i])} = {}
        /\ {i \in Waiting' : ~IsText(passed'[i])} = {}
    BY <2>2
  <2>4. /\ Holds(strings', {i \in Waiting' : IsText(passed'[i])})
        /\ Holds(params', {i \in Waiting' : ~IsText(passed'[i])})
    BY <2>1, <2>3, NothingQueued
  <2>5. QueuesHold'
    BY <2>4 DEF QueuesHold
  <2>6. ResultsInOrder'
    BY <2>1 DEF ResultsInOrder
  <2>7. Written'
    BY <2>1 DEF Written
  <2>. QED
    BY <2>5, <2>6, <2>7
<1>3. CASE /\ ret = <<>> /\ UNCHANGED <<caller, passed, strings, params, ret>>
           /\ stage \notin {"raised", "returned"} /\ stage' # "returned"
           /\ Len(cpp') = Len(cpp)
           /\ stage' = "answered" /\ callee' = "rule" /\ error' = "none" => at' = Len(cpp')
  <2>1. QueuesHold'
    BY <1>3, SameQueues DEF IInv
  <2>2. ResultsInOrder'
    BY <1>3 DEF ResultsInOrder
  <2>3. Written'
    BY <1>3 DEF Written
  <2>. QED
    BY <2>1, <2>2, <2>3
<1>4. CASE Answer
  <2>1. /\ stage = "answered" /\ caller = "rule" /\ Len(ret) = Len(cpp)
        /\ stage' = IF error = "none" THEN "returned" ELSE "raised"
        /\ UNCHANGED <<caller, callee, passed, cpp, py, at, strings, params, ret, error>>
        /\ Len(cpp) = Len(passed) /\ Len(cpp) \in Nat
    BY <1>4 DEF Answer, IInv, Core, TypeOK, Shape, Sequence
  <2>2. Waiting = {}
    BY <2>1 DEF Waiting
  <2>3. Holds(strings, {}) /\ Holds(params, {})
    BY <2>1, <2>2 DEF IInv, QueuesHold
  <2>4. strings = <<>> /\ params = <<>>
    BY <2>3, NothingLeft
  <2>5. QueuesHold'
    BY <2>1, SameQueues DEF IInv
  <2>6. ResultsInOrder'
    BY <2>1, <2>4 DEF IInv, ResultsInOrder, IsString
  <2>7. Written'
    BY <2>1 DEF IInv, Written
  <2>. QED
    BY <2>5, <2>6, <2>7
<1>5. CASE UNCHANGED vars
  BY <1>5 DEF vars, IInv, QueuesHold, Waiting, ResultsInOrder, IsString, Written
<1>6. ASSUME PassedAll \/ Microservice \/ BeginRule \/ (\E i \in DOMAIN py : WriteThrough(i))
             \/ RuleReturns \/ RuleRaises \/ Update \/ UpdateRaises \/ EndRule
      PROVE  /\ ret = <<>> /\ UNCHANGED <<caller, passed, strings, params, ret>>
             /\ stage \notin {"raised", "returned"} /\ stage' # "returned"
             /\ Len(cpp') = Len(cpp)
             /\ stage' = "answered" /\ callee' = "rule" /\ error' = "none" => at' = Len(cpp')
  <2>1. /\ UNCHANGED <<caller, passed, strings, params, ret>>
        /\ stage \in {"passing", "called", "rule", "updating"} /\ stage' # "returned"
    BY <1>6 DEF PassedAll, Microservice, BeginRule, WriteThrough, RuleReturns, RuleRaises,
                Update, UpdateRaises, EndRule
  <2>2. ret = <<>> /\ Sequence(cpp) /\ Sequence(cpp')
    BY <2>1 DEF IInv, Core, Shape
  <2>3. DOMAIN cpp' = DOMAIN cpp
    <3>1. CASE cpp' = cpp
      BY <3>1
    <3>2. CASE Microservice
      BY <3>2 DEF Microservice
    <3>3. CASE Update
      BY <3>3 DEF Update
    <3>4. CASE \E i \in DOMAIN py : WriteThrough(i)
      BY <3>4 DEF WriteThrough
    <3>. QED
      BY <1>6, <3>1, <3>2, <3>3, <3>4
         DEF PassedAll, BeginRule, RuleReturns, RuleRaises, UpdateRaises, EndRule
  <2>4. Len(cpp') = Len(cpp)
    <3>1. \A m, k \in Nat : 1..m = 1..k => m = k
      <4>. SUFFICES ASSUME NEW m \in Nat, NEW k \in Nat, 1..m = 1..k, m # k PROVE FALSE
        OBVIOUS
      <4>1. CASE m < k
        <5>1. k \in 1..k /\ k \notin 1..m
          BY <4>1
        <5>. QED
          BY <5>1
      <4>2. CASE k < m
        <5>1. m \in 1..m /\ m \notin 1..k
          BY <4>2
        <5>. QED
          BY <5>1
      <4>. QED
        BY <4>1, <4>2
    <3>2. Len(cpp) \in Nat /\ Len(cpp') \in Nat /\ 1..Len(cpp') = 1..Len(cpp)
      BY <2>2, <2>3 DEF Sequence
    <3>. QED
      BY <3>1, <3>2
  <2>5. stage' = "answered" /\ callee' = "rule" /\ error' = "none" => at' = Len(cpp')
    BY <1>6, <2>1, <2>4
       DEF PassedAll, Microservice, BeginRule, WriteThrough, RuleReturns, RuleRaises, Update,
           UpdateRaises, EndRule
  <2>. QED
    BY <2>1, <2>2, <2>4, <2>5
<1>. QED
  BY <1>1, <1>2, <1>3, <1>4, <1>5, <1>6 DEF Next

LEMMA InitInv == Init => IInv
<1>. SUFFICES ASSUME Init PROVE IInv
  OBVIOUS
<1>1. caller = "server" /\ ret = <<>> /\ stage = "idle"
  BY DEF Init
<1>. QED
  BY <1>1, InitCore DEF IInv, QueuesHold, ResultsInOrder, Written

LEMMA NextInv == IInv /\ [Next]_vars => IInv'
<1>. SUFFICES ASSUME IInv, [Next]_vars PROVE IInv'
  OBVIOUS
<1>1. Core'
  BY NextCore DEF IInv
<1>2. QueuesHold' /\ ResultsInOrder' /\ Written'
  <2>1. CASE PassString \/ PassParam
    BY <2>1, PassQueues
  <2>2. CASE AnswerString \/ AnswerParam
    BY <2>2, AnswerQueues
  <2>. QED
    BY <1>1, <2>1, <2>2, RestQueues
<1>. QED
  BY <1>1, <1>2 DEF IInv

LEMMA Invariant == Spec => []IInv
  BY InitInv, NextInv, PTL DEF Spec

-----------------------------------------------------------------------------
\* A call keeps the number and the forms of its arguments, whatever a rule
\* makes of its list: exec_rule's update loop runs over the C++ arguments.
THEOREM TypeCorrect == Spec => []TypeOK
  BY Invariant, PTL DEF IInv, Core

\* update_argument: whatever the rules do, and wherever the update fails, an
\* argument of the caller, rule or server, in whose place the callee left a value
\* of its type has that value up to the last one written, and all beyond are what
\* the caller passed.  Of the others up to there it says nothing.
THEOREM ArgumentsWritten == Spec => []WrittenAsFar
<1>1. IInv => WrittenAsFar
  <2>. SUFFICES ASSUME IInv, callee # "microservice", NEW i \in DOMAIN cpp
                PROVE  LET a == AsPassed(i) IN
                       /\ IsBuffer(a) => \E x \in Contents : cpp[i] = [a EXCEPT !.val = x]
                       /\ ~IsBuffer(a) /\ (i > at \/ ~Writable(a)) => cpp[i] = a
                       /\ Writable(a) /\ i <= at /\ Conforms(i) =>
                             cpp[i] = [a EXCEPT !.val = Extracted(py[i], a.type)]
    BY DEF WrittenAsFar
  <2>. DEFINE a == AsPassed(i)
  <2>1. i \in Nat /\ at \in Nat /\ i \in DOMAIN passed
    <3>1. /\ DOMAIN cpp = 1..Len(cpp) /\ DOMAIN passed = 1..Len(passed)
          /\ Len(cpp) \in Nat /\ Len(passed) \in Nat
          /\ Len(cpp) \in 0..Len(passed) /\ at \in 0..Len(cpp)
      BY DEF IInv, Core, TypeOK, Shape, Sequence
    <3>. QED
      BY <3>1
  <2>2. a = [kind |-> a.kind, type |-> a.type, val |-> a.val]
    <3>1. passed[i] \in IF caller = "rule" THEN PyObjects ELSE CppArgs
      BY <2>1 DEF IInv, Core, TypeOK
    <3>. QED
      BY <3>1, ConvertedArgument, ArgsAssumption DEF AsPassed, IInv, Core, Converted
  <2>3. Writable(a) => ~IsBuffer(a)
    BY DEF Writable, IsBuffer
  <2>4. IF IsBuffer(a) THEN \E x \in Contents : cpp[i] = [a EXCEPT !.val = x]
        ELSE cpp[i] = IF i <= at THEN Left(i) ELSE a
    BY DEF IInv, Core, Exactly
  <2>5. Left(i) = IF Writable(a) /\ Extracts(py[i], a.type)
                  THEN [a EXCEPT !.val = Extracted(py[i], a.type)] ELSE a
    BY DEF Left
  <2>. HIDE DEF a
  <2>6. ASSUME ~IsBuffer(a) PROVE cpp[i].type = a.type
    BY <2>2, <2>4, <2>5, <2>6
  <2>7. i > at <=> ~(i <= at)
    BY <2>1
  <2>8. /\ IsBuffer(a) => \E x \in Contents : cpp[i] = [a EXCEPT !.val = x]
        /\ ~IsBuffer(a) /\ (i > at \/ ~Writable(a)) => cpp[i] = a
        /\ Writable(a) /\ i <= at /\ Conforms(i) =>
              cpp[i] = [a EXCEPT !.val = Extracted(py[i], a.type)]
    BY <2>3, <2>4, <2>5, <2>6, <2>7 DEF Conforms
  <2>. QED
    BY <2>8 DEF a
<1>. QED
  BY <1>1, Invariant, PTL

\* RuleCallWrapper::call: the two queues give ret["arguments"] back in the order
\* in which the arguments were passed, and nothing stays behind in them.
THEOREM AnswersInOrder == Spec => []ResultsInOrder
  BY Invariant, PTL DEF IInv

\* A rule that calls a rule finds in ret["arguments"] what that rule left in its
\* list wherever it left a string in the place of a string, or an MsParam in the
\* place of one; nothing is said of a place in which it left something else.
THEOREM CallerSees == Spec => []CallerSeesCallee
<1>1. IInv => CallerSeesCallee
  <2>. SUFFICES ASSUME IInv, stage = "returned", callee = "rule", NEW i \in DOMAIN passed
                PROVE  /\ IsText(passed[i]) /\ IsText(py[i]) =>
                             ret[i] = Object("string", Extracted(py[i], "string"))
                       /\ ~IsText(passed[i]) /\ py[i].type = "msParam" => ret[i] = py[i].val
    BY DEF CallerSeesCallee
  <2>1. /\ caller = "rule" /\ at = Len(cpp) /\ Len(ret) = Len(passed) /\ Len(cpp) = Len(passed)
    BY DEF IInv, Core, TypeOK, Written, ResultsInOrder
  <2>2. /\ DOMAIN ret = DOMAIN passed /\ DOMAIN cpp = DOMAIN passed /\ DOMAIN cpp = 1..Len(cpp)
        /\ passed \in Seq(PyObjects) /\ Len(cpp) \in Nat
    BY <2>1 DEF IInv, Core, TypeOK, Shape, Sequence
  <2>3. /\ i \in DOMAIN cpp /\ i \in DOMAIN ret /\ i <= at
        /\ passed[i] \in PyObjects /\ (IsText(passed[i]) \/ Accepted(passed[i]))
    BY <2>1, <2>2 DEF IInv, Core, Converted
  <2>. DEFINE a == CppFromObject(passed[i])
  <2>4. /\ a = [kind |-> "pointer", type |-> a.type, val |-> a.val] /\ a.val # Null
        /\ a.type = IF IsText(passed[i]) THEN "string" ELSE "msParam"
    BY <2>3, ConvertedArgument
  <2>5. cpp[i] = Left(i) /\ a = AsPassed(i)
    <3>1. a = AsPassed(i)
      BY <2>1 DEF AsPassed
    <3>. QED
      BY <2>3, <2>4, <3>1 DEF IInv, Core, Exactly, IsBuffer
  <2>6. Left(i) = IF Extracts(py[i], a.type)
                  THEN [a EXCEPT !.val = Extracted(py[i], a.type)] ELSE a
    BY <2>4, <2>5 DEF Left, Writable
  <2>7. ret[i] = IF IsString(cpp[i]) THEN Object("string", cpp[i].val)
                 ELSE ObjectFromMsParam(cpp[i].val)
    BY <2>3 DEF IInv, ResultsInOrder
  <2>8. i \in DOMAIN py
    <3>1. DOMAIN py = 1..Len(py) /\ Len(py) \in Nat /\ at <= Len(py)
      BY DEF IInv, Core, Shape, Sequence
    <3>. QED
      BY <2>1, <2>2, <2>3, <3>1
  <2>. HIDE DEF a
  <2>9. CASE IsText(passed[i]) /\ IsText(py[i])
    <3>1. cpp[i] = [a EXCEPT !.val = Extracted(py[i], "string")]
      BY <2>4, <2>5, <2>6, <2>9 DEF IsText
    <3>2. cpp[i].type = "string" /\ cpp[i].val = Extracted(py[i], "string")
      BY <2>4, <2>9, <3>1
    <3>. QED
      BY <2>7, <2>9, <3>2 DEF IsString
  <2>10. CASE ~IsText(passed[i]) /\ py[i].type = "msParam"
    <3>1. cpp[i] = [a EXCEPT !.val = py[i].val]
      BY <2>4, <2>5, <2>6, <2>10 DEF Extracts, Extracted
    <3>2. cpp[i].type = "msParam" /\ cpp[i].val = py[i].val
      BY <2>4, <2>10, <3>1
    <3>3. IsParam(py[i].val)
      BY <2>1, <2>8, <2>10 DEF IInv, Core, ListOfCallee
    <3>. QED
      BY <2>7, <2>10, <3>2, <3>3 DEF IsString, ObjectFromMsParam, IsParam
  <2>. QED
    BY <2>9, <2>10
<1>. QED
  BY <1>1, Invariant, PTL

=============================================================================
