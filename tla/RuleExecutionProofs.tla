-------------------------- MODULE RuleExecutionProofs --------------------------
(***************************************************************************)
(* Proofs about nested rules, for any error codes, nesting depth and       *)
(* number of operations: which code the host is given, and which messages  *)
(* are left for the client.                                                *)
(***************************************************************************)
EXTENDS RuleExecution, SequenceTheorems, TLAPS

\* The code that stands first in the text of an exception is the one it began
\* with, unless another with a code was being handled or an operation on the way
\* did not look for it.
Carries(exc) ==
    exc.straight => exc.origin = IF exc.first = 0 THEN -1 ELSE exc.first

\* What is true of an operation in progress.
Sound(frame) ==
    /\ frame \in Frames
    /\ frame.entered \/ frame.exc # NoExc
    /\ frame.exc # NoExc => Carries(frame.exc)
    /\ Len(frame.handled) <= MaxHandlers
    /\ \A i \in 1..Len(frame.handled) : frame.handled[i] # NoExc /\ Carries(frame.handled[i])
    /\ frame.pep => frame.kind = "rule"

\* Only the innermost operation has an exception in flight.
SoundStack(s) ==
    /\ s \in Seq(Frames)
    /\ Len(s) <= MaxDepth
    /\ \A i \in 1..Len(s) : Sound(s[i]) /\ (s[i].exc # NoExc => i = Len(s))

\* A message of a dynamic PEP is there only as long as one is in progress.
Pending == "pep" \in rError => InPep

Flags == privileged \in BOOLEAN /\ mainDef \in BOOLEAN

Counts ==
    /\ begun \in 0..MaxOperations
    /\ ruleVars \in 0..begun
    /\ rError \subseteq {"pep", "other"}
    /\ answer \in [code : Int, origin : Int, straight : BOOLEAN]

IInv == SoundStack(stack) /\ Flags /\ Counts /\ Pending /\ CodePropagates

LEMMA Implied == IInv => TypeOK /\ CodePropagates /\ PepMessagesCleared
  BY DEF IInv, SoundStack, Sound, Flags, Counts, Pending, InPep, TypeOK, PepMessagesCleared

LEMMA InitInv == Init => IInv
<1>. SUFFICES ASSUME Init PROVE IInv
  OBVIOUS
<1>1. stack = <<>> /\ <<>> \in Seq(Frames) /\ Len(stack) = 0
  BY EmptySeq DEF Init
<1>2. SoundStack(stack)
  BY <1>1, BoundsAssumption DEF SoundStack
<1>3. Flags
  BY DEF Init, Flags
<1>5. Counts
  BY BoundsAssumption DEF Init, Counts, NoAnswer
<1>4. Pending /\ CodePropagates
  BY DEF Init, Pending, CodePropagates, NoAnswer
<1>. QED
  BY <1>2, <1>3, <1>4, <1>5 DEF IInv

-----------------------------------------------------------------------------
\* The stack.

\* The exceptions that begin in an operation carry their code.
LEMMA Begins ==
    /\ \A c \in Codes \cup {NoPrivilege} :
          Raising(c) \in Exceptions /\ Raising(c) # NoExc /\ Carries(Raising(c))
    /\ Uncoded \in Exceptions /\ Uncoded # NoExc /\ Carries(Uncoded)
    /\ NoExc \in Exceptions
<1>1. \A c \in Codes \cup {NoPrivilege} : c \in Int /\ c < -1
  BY CodesAssumption
<1>. QED
  BY <1>1 DEF Raising, Uncoded, NoExc, Exceptions, Carries

\* Chained to another, an exception still carries its code if it is straight.
LEMMA ChainCarries ==
    ASSUME NEW exc \in Exceptions, Carries(exc), exc # NoExc, NEW other \in Exceptions
    PROVE  /\ Chained(exc, other) \in Exceptions /\ Carries(Chained(exc, other))
           /\ Chained(exc, other) # NoExc
  BY DEF Chained, Exceptions, Carries, NoExc

LEMMA LastOfSeq ==
    ASSUME NEW S, NEW s \in Seq(S), s # <<>>
    PROVE  /\ Len(s) \in Nat \ {0} /\ Len(s) \in 1..Len(s)
           /\ Last(s) = s[Len(s)] /\ Last(s) \in S
<1>1. Len(s) \in Nat \ {0}
  BY EmptySeq
<1>. QED
  BY <1>1, ElementOfSeq DEF Last

LEMMA FrontOfSeq ==
    ASSUME NEW S, NEW s \in Seq(S), s # <<>>
    PROVE  /\ Front(s) \in Seq(S) /\ Len(Front(s)) = Len(s) - 1
           /\ \A i \in 1..Len(s) - 1 : Front(s)[i] = s[i]
<1>. DEFINE n == Len(s) - 1
<1>1. n \in Nat /\ 1 \in Int /\ \A i \in 1..n : s[i] \in S
  BY LastOfSeq, ElementOfSeq
<1>. HIDE DEF n
<1>2. /\ SubSeq(s, 1, n) \in Seq(S)
      /\ Len(SubSeq(s, 1, n)) = IF 1 <= n THEN n - 1 + 1 ELSE 0
      /\ \A i \in 1..(n - 1 + 1) : SubSeq(s, 1, n)[i] = s[1 + i - 1]
  BY <1>1, SubSeqProperties
<1>3. n - 1 + 1 = n /\ \A i \in 1..n : 1 + i - 1 = i
  BY <1>1
<1>4. Front(s) = SubSeq(s, 1, n)
  BY DEF Front, n
<1>5. Len(Front(s)) = n /\ \A i \in 1..n : Front(s)[i] = s[i]
  BY <1>1, <1>2, <1>3, <1>4
<1>. QED
  BY <1>2, <1>4, <1>5 DEF n

LEMMA HandledIsException ==
    ASSUME SoundStack(stack)
    PROVE  Handled \in Exceptions
<1>1. CASE stack = <<>>
  BY <1>1, Begins DEF Handled
<1>2. CASE stack # <<>>
  <2>1. stack \in Seq(Frames) /\ Top \in Frames
    BY <1>2, LastOfSeq DEF SoundStack, Top, Last
  <2>2. Top.handled \in Seq(Exceptions) /\ Top.around \in Exceptions
    BY <2>1 DEF Frames
  <2>. QED
    BY <1>2, <2>2, LastOfSeq DEF Handled
<1>. QED
  BY <1>1, <1>2

LEMMA FrameIsSound ==
    ASSUME begun \in 0..MaxOperations, begun < MaxOperations, SoundStack(stack),
           NEW kind \in Kinds, NEW pep \in BOOLEAN, pep => kind = "rule",
           NEW entered \in BOOLEAN
    PROVE  Sound(Frame(kind, pep, entered)) /\ Frame(kind, pep, entered).pep = pep
<1>1. begun + 1 \in 1..MaxOperations
  BY BoundsAssumption
<1>2. Handled \in Exceptions
  BY HandledIsException
<1>3. Uncoded \in Exceptions /\ Carries(Uncoded) /\ Uncoded # NoExc
  BY Begins
<1>. DEFINE chain == Chained(Uncoded, Handled)
            exc == IF entered THEN NoExc ELSE chain
            f == Frame(kind, pep, entered)
<1>4. chain \in Exceptions /\ Carries(chain) /\ chain # NoExc
  BY <1>2, <1>3, ChainCarries
<1>5. /\ exc \in Exceptions /\ (entered \/ exc # NoExc) /\ (exc # NoExc => Carries(exc))
  BY <1>4, Begins
<1>. HIDE DEF chain
<1>6. f = [kind |-> kind, pep |-> pep, id |-> begun + 1, entered |-> entered,
           exc |-> exc, handled |-> <<>>, around |-> Handled]
  BY DEF Frame, exc, chain
<1>. HIDE DEF f, exc
<1>7. <<>> \in Seq(Exceptions) /\ Len(<<>>) = 0
  BY EmptySeq
<1>8. f \in Frames
  BY <1>1, <1>2, <1>5, <1>6, <1>7 DEF Frames
<1>9. Sound(f) /\ f.pep = pep
  BY <1>5, <1>6, <1>7, <1>8, BoundsAssumption DEF Sound
<1>. QED
  BY <1>9 DEF f

Peps(s) == \E i \in 1..Len(s) : s[i].pep

\* No other than the innermost operation has an exception in flight.
LEMMA Pushed ==
    ASSUME SoundStack(stack), MayBegin, NEW f, Sound(f)
    PROVE  /\ SoundStack(Append(stack, f))
           /\ Peps(Append(stack, f)) <=> InPep \/ f.pep
<1>1. stack \in Seq(Frames) /\ Len(stack) \in Nat /\ f \in Frames
  BY DEF SoundStack, Sound
<1>2. \A i \in 1..Len(stack) : stack[i].exc = NoExc /\ Sound(stack[i])
  BY <1>1 DEF SoundStack, MayBegin, IsRunning, Top
<1>3. /\ Append(stack, f) \in Seq(Frames)
      /\ Len(Append(stack, f)) = Len(stack) + 1
      /\ \A i \in 1..Len(stack) : Append(stack, f)[i] = stack[i]
      /\ Append(stack, f)[Len(stack) + 1] = f
  BY <1>1, AppendProperties
<1>4. 1..(Len(stack) + 1) = 1..Len(stack) \cup {Len(stack) + 1}
  BY <1>1
<1>5. Len(stack) + 1 <= MaxDepth
  BY <1>1, BoundsAssumption DEF MayBegin
<1>. QED
  BY <1>1, <1>2, <1>3, <1>4, <1>5 DEF SoundStack, Peps, InPep

LEMMA TopSet ==
    ASSUME SoundStack(stack), stack # <<>>, NEW f, Sound(f), f.pep = Top.pep
    PROVE  SoundStack(SetTop(f)) /\ (Peps(SetTop(f)) <=> InPep)
<1>1. stack \in Seq(Frames) /\ Len(stack) \in Nat \ {0} /\ f \in Frames
  BY EmptySeq DEF SoundStack, Sound
<1>2. /\ SetTop(f) \in Seq(Frames)
      /\ Len(SetTop(f)) = Len(stack)
      /\ \A i \in 1..Len(stack) :
            SetTop(f)[i] = IF i = Len(stack) THEN f ELSE stack[i]
  BY <1>1, ExceptSeq DEF SetTop
<1>. QED
  BY <1>1, <1>2 DEF SoundStack, Peps, InPep, Top

\* Without the innermost operation.
Rest == Front(stack)

LEMMA Popped ==
    ASSUME SoundStack(stack), stack # <<>>
    PROVE  /\ SoundStack(Rest) /\ Len(Rest) = Len(stack) - 1
           /\ \A i \in 1..Len(Rest) : Rest[i] = stack[i] /\ Rest[i].exc = NoExc
           /\ Len(Rest) \in Nat
<1>1. stack \in Seq(Frames) /\ Len(stack) \in Nat \ {0}
  BY EmptySeq DEF SoundStack
<1>2. /\ Rest \in Seq(Frames) /\ Len(Rest) = Len(stack) - 1
      /\ \A i \in 1..Len(stack) - 1 : Rest[i] = stack[i]
  BY <1>1, FrontOfSeq DEF Rest
<1>3. Len(Rest) <= MaxDepth
  BY <1>1, <1>2, BoundsAssumption DEF SoundStack
<1>. QED
  BY <1>1, <1>2, <1>3 DEF SoundStack

-----------------------------------------------------------------------------
\* An operation begins.

LEMMA PushInv ==
    ASSUME IInv, MayBegin,
           NEW kind \in Kinds, NEW pep \in BOOLEAN, pep => kind = "rule",
           NEW entered \in BOOLEAN, Push(Frame(kind, pep, entered)),
           Flags', ruleVars' \in {ruleVars, begun + 1}, UNCHANGED <<rError, answer>>
    PROVE  IInv'
<1>1. begun \in 0..MaxOperations /\ begun < MaxOperations
  BY DEF IInv, Counts, MayBegin
<1>2. Sound(Frame(kind, pep, entered))
  BY <1>1, FrameIsSound DEF IInv
<1>3. SoundStack(stack') /\ (Peps(stack') <=> InPep \/ Frame(kind, pep, entered).pep)
  BY <1>2, Pushed DEF IInv, Push
<1>4. Pending'
  BY <1>3 DEF IInv, Pending, InPep, Peps
<1>5. Counts'
  BY <1>1, BoundsAssumption DEF IInv, Counts, Push
<1>6. CodePropagates'
  BY DEF IInv, CodePropagates
<1>. QED
  BY <1>3, <1>4, <1>5, <1>6 DEF IInv

LEMMA BeginInv ==
    IInv /\ (BeginRule \/ BeginText \/ BeginTextRule \/ BeginExpression) => IInv'
<1>. SUFFICES ASSUME IInv PROVE
        BeginRule \/ BeginText \/ BeginTextRule \/ BeginExpression => IInv'
  OBVIOUS
<1>0. Flags
  BY DEF IInv
<1>1. ASSUME BeginRule PROVE IInv'
  <2>1. PICK pep, found \in BOOLEAN : Push(Frame("rule", pep, found))
    BY <1>1 DEF BeginRule
  <2>2. MayBegin /\ Flags' /\ UNCHANGED <<ruleVars, rError, answer>>
    BY <1>0, <1>1 DEF BeginRule, Flags
  <2>. QED
    BY <2>1, <2>2, PushInv DEF Kinds
<1>2. ASSUME BeginText PROVE IInv'
  <2>1. PICK entered \in BOOLEAN : Push(Frame("text", FALSE, entered))
    BY <1>0, <1>2 DEF BeginText, Flags
  <2>2. MayBegin /\ Flags' /\ ruleVars' = begun + 1 /\ UNCHANGED <<rError, answer>>
    BY <1>0, <1>2 DEF BeginText, Flags
  <2>. QED
    BY <2>1, <2>2, PushInv DEF Kinds
<1>3. ASSUME BeginTextRule PROVE IInv'
  <2>1. PICK found \in BOOLEAN : Push(Frame("textrule", FALSE, found))
    BY <1>3 DEF BeginTextRule
  <2>2. MayBegin /\ Flags' /\ ruleVars' = begun + 1 /\ UNCHANGED <<rError, answer>>
    BY <1>0, <1>3 DEF BeginTextRule, Flags
  <2>. QED
    BY <2>1, <2>2, PushInv DEF Kinds
<1>4. ASSUME BeginExpression PROVE IInv'
  <2>1. PICK compiles \in BOOLEAN : Push(Frame("expr", FALSE, compiles))
    BY <1>4 DEF BeginExpression
  <2>2. MayBegin /\ Flags' /\ ruleVars' = begun + 1 /\ UNCHANGED <<rError, answer>>
    BY <1>0, <1>4 DEF BeginExpression, Flags
  <2>. QED
    BY <2>1, <2>2, PushInv DEF Kinds
<1>. QED
  BY <1>1, <1>2, <1>3, <1>4

-----------------------------------------------------------------------------
\* The innermost rule runs.

\* An exception begins, is handled, or is raised again.
LEMMA TopInv ==
    ASSUME IInv, stack # <<>>, NEW exc \in Exceptions, NEW handled \in Seq(Exceptions),
           Top.entered \/ exc # NoExc, exc # NoExc => Carries(exc),
           Len(handled) <= MaxHandlers,
           \A i \in 1..Len(handled) : handled[i] # NoExc /\ Carries(handled[i]),
           stack' = SetTop([Top EXCEPT !.exc = exc, !.handled = handled])
    PROVE  SoundStack(stack') /\ (InPep' <=> InPep)
<1>1. Top \in Frames /\ (Top.pep => Top.kind = "rule")
  <2>1. stack \in Seq(Frames) /\ Len(stack) \in 1..Len(stack)
    BY EmptySeq DEF IInv, SoundStack
  <2>. QED
    BY <2>1 DEF IInv, SoundStack, Sound, Top
<1>. DEFINE f == [Top EXCEPT !.exc = exc, !.handled = handled]
<1>2. /\ f \in Frames /\ f.exc = exc /\ f.handled = handled /\ f.entered = Top.entered
      /\ f.pep = Top.pep /\ f.kind = Top.kind
  BY <1>1 DEF Frames
<1>3. Sound(f)
  BY <1>1, <1>2 DEF Sound
<1>. HIDE DEF f
<1>4. SoundStack(SetTop(f)) /\ (Peps(SetTop(f)) <=> InPep)
  BY <1>2, <1>3, TopSet DEF IInv
<1>. QED
  BY <1>4 DEF f, Peps, InPep

\* The innermost operation as the invariant knows it.
LEMMA TopIsSound ==
    ASSUME IInv, stack # <<>>
    PROVE  /\ Sound(Top) /\ Top \in Frames /\ Top.exc \in Exceptions
           /\ Top.handled \in Seq(Exceptions) /\ Top.around \in Exceptions
<1>1. stack \in Seq(Frames) /\ Len(stack) \in 1..Len(stack)
  BY EmptySeq DEF IInv, SoundStack
<1>2. Sound(Top)
  BY <1>1 DEF IInv, SoundStack, Top
<1>. QED
  BY <1>2 DEF Sound, Frames

LEMMA RaiseInv ==
    ASSUME IInv, stack # <<>>, NEW exc \in Exceptions, exc # NoExc, Carries(exc),
           Raise(exc)
    PROVE  SoundStack(stack') /\ (InPep' <=> InPep)
<1>. DEFINE chain == Chained(exc, Handled)
<1>1. Handled \in Exceptions
  BY HandledIsException DEF IInv
<1>2. chain \in Exceptions /\ Carries(chain) /\ chain # NoExc
  BY <1>1, ChainCarries
<1>3. /\ Sound(Top) /\ Top \in Frames /\ Top.handled \in Seq(Exceptions)
  BY TopIsSound
<1>4. stack' = SetTop([Top EXCEPT !.exc = chain])
  BY DEF Raise
<1>. HIDE DEF chain
<1>5. [Top EXCEPT !.exc = chain] = [Top EXCEPT !.exc = chain, !.handled = Top.handled]
  BY <1>3 DEF Frames
<1>. QED
  BY <1>2, <1>3, <1>4, <1>5, TopInv DEF Sound

LEMMA RefuseInv == IInv /\ Refuse => IInv'
<1>. SUFFICES ASSUME IInv, Refuse PROVE IInv'
  OBVIOUS
<1>0. NoPrivilege \in Int
  BY CodesAssumption
<1>1. Flags' /\ Counts' /\ CodePropagates'
  <2>1. Flags'
    BY DEF IInv, Flags, Refuse
  <2>2. answer' \in [code : Int, origin : Int, straight : BOOLEAN]
    <3>1. [code |-> NoPrivilege, origin |-> NoPrivilege, straight |-> TRUE]
             \in [code : Int, origin : Int, straight : BOOLEAN]
      BY <1>0
    <3>2. answer' \in {answer, [code |-> NoPrivilege, origin |-> NoPrivilege, straight |-> TRUE]}
      BY DEF Refuse
    <3>. QED
      BY <3>1, <3>2 DEF IInv, Counts
  <2>3. Counts'
    BY <2>2, BoundsAssumption DEF IInv, Counts, Refuse, MayBegin
  <2>4. CodePropagates'
    BY DEF IInv, CodePropagates, Refuse
  <2>. QED
    BY <2>1, <2>3, <2>4
<1>2. SoundStack(stack') /\ (InPep' <=> InPep)
  <2>1. CASE stack = <<>>
    BY <2>1 DEF IInv, Refuse, InPep
  <2>2. CASE stack # <<>>
    <3>1. Raise(Raising(NoPrivilege))
      BY <2>2 DEF Refuse
    <3>. QED
      BY <2>2, <3>1, Begins, RaiseInv
  <2>. QED
    BY <2>1, <2>2
<1>3. Pending'
  BY <1>2 DEF IInv, Pending, Refuse
<1>. QED
  BY <1>1, <1>2, <1>3 DEF IInv

\* A message that is recorded belongs to a PEP in progress, or to none.
LEMMA FailureInv == IInv /\ (MicroserviceFails \/ RuleRaises) => IInv'
<1>. SUFFICES ASSUME IInv, MicroserviceFails \/ RuleRaises PROVE IInv'
  OBVIOUS
<1>1. PICK exc \in Exceptions :
         exc # NoExc /\ Carries(exc) /\ Raise(exc)
  <2>1. CASE MicroserviceFails
    <3>1. PICK c \in Codes : Raise(Raising(c))
      BY <2>1 DEF MicroserviceFails
    <3>. QED
      BY <3>1, Begins
  <2>2. CASE RuleRaises
    BY <2>2, Begins DEF RuleRaises
  <2>. QED
    BY <2>1, <2>2
<1>2. stack # <<>>
  BY DEF MicroserviceFails, RuleRaises, IsRunning
<1>3. SoundStack(stack') /\ (InPep' <=> InPep)
  BY <1>1, <1>2, RaiseInv
<1>4. Flags' /\ CodePropagates'
  BY DEF IInv, Flags, CodePropagates, MicroserviceFails, RuleRaises
<1>5. rError' \in {rError, rError \cup {IF InPep THEN "pep" ELSE "other"}}
  BY DEF MicroserviceFails, RuleRaises
<1>6. Counts'
  BY <1>5 DEF IInv, Counts, MicroserviceFails, RuleRaises
<1>7. Pending'
  BY <1>3, <1>5 DEF IInv, Pending
<1>. QED
  BY <1>3, <1>4, <1>6, <1>7 DEF IInv

LEMMA HandlerInv == IInv /\ (RuleHandles \/ RuleHandled \/ RuleReraises) => IInv'
<1>. SUFFICES ASSUME IInv, RuleHandles \/ RuleHandled \/ RuleReraises PROVE IInv'
  OBVIOUS
<1>0. stack # <<>> /\ Top.entered
  BY DEF RuleHandles, RuleHandled, RuleReraises, IsRunning, IsFailing
<1>a. /\ Sound(Top) /\ Top \in Frames /\ Top.exc \in Exceptions
      /\ Top.handled \in Seq(Exceptions)
  BY <1>0, TopIsSound
<1>b. Len(Top.handled) \in Nat
  BY <1>a
<1>1. SoundStack(stack') /\ (InPep' <=> InPep)
  <2>1. CASE RuleHandles
    <3>1. PICK n \in 0..Len(Top.handled) :
             /\ n < MaxHandlers
             /\ stack' = SetTop([Top EXCEPT
                   !.exc = NoExc, !.handled = Append(SubSeq(Top.handled, 1, n), Top.exc)])
      BY <2>1 DEF RuleHandles
    <3>. DEFINE s == SubSeq(Top.handled, 1, n)
                h == Append(s, Top.exc)
    <3>2. n \in Nat /\ 1 \in Int /\ \A i \in 1..n : Top.handled[i] \in Exceptions
      BY <1>a, <1>b, ElementOfSeq
    <3>3. /\ s \in Seq(Exceptions) /\ Len(s) = n
          /\ \A i \in 1..n : s[i] = Top.handled[i]
      <4>1. /\ s \in Seq(Exceptions)
            /\ Len(s) = IF 1 <= n THEN n - 1 + 1 ELSE 0
            /\ \A i \in 1..(n - 1 + 1) : s[i] = Top.handled[1 + i - 1]
        BY <3>2, SubSeqProperties
      <4>2. n - 1 + 1 = n /\ \A i \in 1..n : 1 + i - 1 = i
        BY <3>2
      <4>. HIDE DEF s
      <4>. QED
        BY <3>2, <4>1, <4>2
    <3>. HIDE DEF s
    <3>4. /\ h \in Seq(Exceptions) /\ Len(h) = n + 1 /\ h[n + 1] = Top.exc
          /\ \A i \in 1..n : h[i] = s[i]
      BY <1>a, <3>3, AppendProperties
    <3>5. Len(h) <= MaxHandlers
      BY <3>1, <3>2, <3>4, BoundsAssumption
    <3>6. Top.exc # NoExc /\ Carries(Top.exc)
      BY <1>a, <2>1 DEF RuleHandles, IsFailing, Sound
    <3>7. \A i \in 1..Len(h) : h[i] # NoExc /\ Carries(h[i])
      BY <1>a, <1>b, <3>1, <3>2, <3>3, <3>4, <3>6 DEF Sound
    <3>8. stack' = SetTop([Top EXCEPT !.exc = NoExc, !.handled = h])
      BY <3>1 DEF h, s
    <3>. HIDE DEF h
    <3>. QED
      BY <1>0, <3>4, <3>5, <3>7, <3>8, Begins, TopInv
  <2>2. CASE RuleHandled \/ RuleReraises
    <3>. DEFINE h == Front(Top.handled)
    <3>1. Top.handled # <<>> /\ Top.exc = NoExc
      BY <2>2 DEF RuleHandled, RuleReraises, IsRunning
    <3>2. /\ h \in Seq(Exceptions) /\ Len(h) = Len(Top.handled) - 1
          /\ \A i \in 1..Len(Top.handled) - 1 : h[i] = Top.handled[i]
          /\ Last(Top.handled) \in Exceptions
          /\ Last(Top.handled) = Top.handled[Len(Top.handled)]
          /\ Len(Top.handled) \in 1..Len(Top.handled)
      BY <1>a, <3>1, FrontOfSeq, LastOfSeq
    <3>. HIDE DEF h
    <3>3. Len(h) <= MaxHandlers
      BY <1>a, <1>b, <3>2, BoundsAssumption DEF Sound
    <3>4. /\ \A i \in 1..Len(h) : h[i] # NoExc /\ Carries(h[i])
          /\ Carries(Last(Top.handled))
      BY <1>a, <1>b, <3>2 DEF Sound
    <3>5. PICK exc \in {NoExc, Last(Top.handled)} :
             stack' = SetTop([Top EXCEPT !.exc = exc, !.handled = h])
      <4>1. CASE RuleHandled
        <5>1. [Top EXCEPT !.handled = h] = [Top EXCEPT !.exc = NoExc, !.handled = h]
          BY <1>a, <3>1 DEF Frames
        <5>. QED
          BY <4>1, <5>1 DEF RuleHandled, h
      <4>2. CASE RuleReraises
        BY <4>2 DEF RuleReraises, h
      <4>. QED
        BY <2>2, <4>1, <4>2
    <3>6. exc \in Exceptions /\ (exc # NoExc => Carries(exc))
      BY <3>2, <3>4, Begins
    <3>. QED
      BY <1>0, <3>2, <3>3, <3>4, <3>5, <3>6, TopInv
  <2>. QED
    BY <2>1, <2>2
<1>2. UNCHANGED <<begun, privileged, ruleVars, mainDef, rError, answer>>
  BY DEF RuleHandles, RuleHandled, RuleReraises
<1>3. Flags' /\ CodePropagates'
  BY <1>2 DEF IInv, Flags, CodePropagates
<1>4. Counts' /\ Pending'
  BY <1>1, <1>2 DEF IInv, Counts, Pending
<1>. QED
  BY <1>1, <1>3, <1>4 DEF IInv

-----------------------------------------------------------------------------
\* The innermost operation returns.

\* A dynamic PEP takes its messages with it, and those of operations within it.
LEMMA ClearedInv ==
    ASSUME IInv, stack # <<>>, ClearErrors, Len(stack') = Len(stack) - 1,
           \A i \in 1..Len(stack') : stack'[i].pep = stack[i].pep
    PROVE  Pending' /\ rError' \subseteq {"pep", "other"}
<1>1. Len(stack) \in Nat \ {0} /\ (Top.pep => Top.kind = "rule")
  BY EmptySeq DEF IInv, SoundStack, Sound, Top
<1>2. CASE Top.pep
  BY <1>1, <1>2 DEF ClearErrors, Pending
<1>3. CASE ~Top.pep
  <2>1. rError' = rError
    BY <1>3 DEF ClearErrors
  <2>2. InPep => InPep'
    BY <1>1, <1>3 DEF InPep, Top
  <2>. QED
    BY <2>1, <2>2 DEF IInv, Counts, Pending
<1>. QED
  BY <1>2, <1>3

\* What the caller is given carries the code it began with, if it did before.
LEMMA ReturnInv ==
    ASSUME IInv, stack # <<>>, NEW c \in Int, NEW origin \in Int, NEW straight \in BOOLEAN,
           straight => c = origin, ReturnCode(c, origin, straight), ClearErrors,
           UNCHANGED <<begun, privileged, ruleVars, mainDef>>
    PROVE  IInv'
<1>1. /\ SoundStack(Rest) /\ Len(Rest) = Len(stack) - 1 /\ Len(Rest) \in Nat
      /\ \A i \in 1..Len(Rest) : Rest[i] = stack[i] /\ Rest[i].exc = NoExc
  BY Popped DEF IInv
<1>2. /\ SoundStack(stack') /\ Len(stack') = Len(Rest)
      /\ \A i \in 1..Len(Rest) : stack'[i].pep = Rest[i].pep
  <2>1. CASE stack' = Rest
    BY <1>1, <2>1
  <2>2. CASE stack' # Rest
    <3>. DEFINE outer == Rest[Len(Rest)]
                given == [first |-> c, origin |-> origin, straight |-> straight]
                exc == Chained(given, Top.around)
                f == [outer EXCEPT !.exc = exc]
    <3>1. Rest # <<>> /\ c < 0 /\ stack' = [Rest EXCEPT ![Len(Rest)] = f]
      <4>1. Rest # <<>>
        BY <2>2 DEF ReturnCode, Rest
      <4>2. ~(c >= 0 \/ c = NoRowsFound)
        BY <2>2, <4>1 DEF ReturnCode, Rest
      <4>3. stack' = [Rest EXCEPT ![Len(Rest)] = f]
        <5>1. stack' = [Rest EXCEPT ![Len(Rest)].exc = exc]
          BY <4>1, <4>2 DEF ReturnCode, Rest
        <5>. QED
          BY <5>1
      <4>. QED
        BY <4>1, <4>2, <4>3
    <3>2. Rest \in Seq(Frames) /\ Len(Rest) \in 1..Len(Rest)
      BY <1>1, <3>1, EmptySeq DEF SoundStack
    <3>3. Sound(outer)
      BY <1>1, <3>2 DEF SoundStack
    <3>4. given \in Exceptions /\ given # NoExc /\ Carries(given)
      BY <3>1 DEF Exceptions, NoExc, Carries
    <3>5. exc \in Exceptions /\ exc # NoExc /\ Carries(exc)
      BY <3>4, TopIsSound, ChainCarries
    <3>. HIDE DEF exc
    <3>6. /\ f \in Frames /\ f.exc = exc /\ f.pep = outer.pep /\ f.kind = outer.kind
          /\ f.handled = outer.handled /\ f.entered = outer.entered
      BY <3>3, <3>5 DEF Sound, Frames
    <3>7. Sound(f)
      BY <3>3, <3>4, <3>5, <3>6 DEF Sound
    <3>. HIDE DEF f
    <3>8. /\ stack' \in Seq(Frames) /\ Len(stack') = Len(Rest)
          /\ \A i \in 1..Len(Rest) : stack'[i] = IF i = Len(Rest) THEN f ELSE Rest[i]
      BY <3>1, <3>2, <3>6, ExceptSeq
    <3>. QED
      BY <1>1, <3>6, <3>7, <3>8 DEF SoundStack
  <2>. QED
    BY <2>1, <2>2
<1>3. Pending' /\ rError' \subseteq {"pep", "other"}
  BY <1>1, <1>2, ClearedInv
<1>4. answer' \in {answer, [code |-> c, origin |-> origin, straight |-> straight]}
  BY DEF ReturnCode
<1>5. CodePropagates'
  BY <1>4 DEF IInv, CodePropagates
<1>6. answer' \in [code : Int, origin : Int, straight : BOOLEAN]
  BY <1>4 DEF IInv, Counts
<1>7. Flags'
  BY DEF IInv, Flags
<1>8. Counts'
  BY <1>3, <1>6 DEF IInv, Counts
<1>. QED
  BY <1>2, <1>3, <1>5, <1>7, <1>8 DEF IInv

LEMMA EndInv == IInv /\ (Return \/ Fail) => IInv'
<1>. SUFFICES ASSUME IInv PROVE Return \/ Fail => IInv'
  OBVIOUS
<1>1. ASSUME Return PROVE IInv'
  <2>1. PICK c \in {0, NoRowsFound} \cup Codes : ReturnCode(c, c, TRUE)
    BY <1>1 DEF Return
  <2>2. c \in Int /\ stack # <<>> /\ ClearErrors
    BY <1>1, CodesAssumption DEF Return, IsRunning
  <2>. QED
    BY <1>1, <2>1, <2>2, ReturnInv DEF Return
<1>2. ASSUME Fail PROVE IInv'
  <2>. DEFINE straight == Top.exc.straight /\ Top.kind = "rule"
  <2>1. stack # <<>> /\ Top.exc # NoExc
    BY <1>2 DEF Fail, IsFailing
  <2>2. Sound(Top)
    BY <2>1, EmptySeq DEF IInv, SoundStack, Top
  <2>3. /\ Top.exc.first \in Int /\ Top.exc.origin \in Int
        /\ Top.exc.straight \in BOOLEAN /\ Carries(Top.exc)
    BY <2>1, <2>2 DEF Sound, Frames, Exceptions
  <2>4. FailureCode \in Int
    BY <2>3, CodesAssumption DEF FailureCode
  <2>5. straight => FailureCode = Top.exc.origin
    BY <2>3 DEF FailureCode, Carries
  <2>6. straight \in BOOLEAN
    BY <2>3
  <2>7. ReturnCode(FailureCode, Top.exc.origin, straight) /\ ClearErrors
    BY <1>2 DEF Fail
  <2>. HIDE DEF straight
  <2>. QED
    BY <1>2, <2>1, <2>3, <2>4, <2>5, <2>6, <2>7, ReturnInv DEF Fail
<1>. QED
  BY <1>1, <1>2

LEMMA StutterInv == IInv /\ UNCHANGED vars => IInv'
<1>. SUFFICES ASSUME IInv, UNCHANGED vars PROVE IInv'
  OBVIOUS
<1>1. Flags' /\ CodePropagates'
  BY DEF IInv, Flags, CodePropagates, vars
<1>2. SoundStack(stack') /\ Counts' /\ Pending'
  BY DEF IInv, Counts, Pending, InPep, vars
<1>. QED
  BY <1>1, <1>2 DEF IInv

LEMMA NextInv == IInv /\ [Next]_vars => IInv'
  BY BeginInv, RefuseInv, FailureInv, HandlerInv, EndInv, StutterInv DEF Next, Finished

LEMMA Invariance == Spec => []IInv
  BY InitInv, NextInv, PTL DEF Spec

-----------------------------------------------------------------------------
\* However rules are nested, in except and finally clauses too, an exception is in
\* flight in the innermost of them or nowhere.
THEOREM TypeCorrect == Spec => []TypeOK
  BY Invariance, Implied, PTL

\* exec_rule and callback hand the code of a failing microservice through any
\* number of rules, whatever these do in their handlers, unless the microservice
\* fails while another exception with a code is being handled.
THEOREM CodesPropagate == Spec => []CodePropagates
  BY Invariance, Implied, PTL

\* at_scope_exit of exec_rule: when the outermost operation has returned, no
\* message of a dynamic PEP is left, at whatever depth it failed.
THEOREM MessagesCleared == Spec => []PepMessagesCleared
  BY Invariance, Implied, PTL
=============================================================================
