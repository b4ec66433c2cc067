--------------------------- MODULE ArrayRefProofs ---------------------------
(***************************************************************************)
(* Safety of array_ref for an array of any length, any number of views,    *)
(* and any integers for indices and ends of slices.                        *)
(***************************************************************************)
EXTENDS ArrayRef, TLAPS

\* What an array_ref object may be.
Refs == {a \in [begin : Nat, length : Nat] : a.begin + a.length <= Size}

\* The ends of a slice are cut to offsets in the array.
LEMMA EndsInside ==
    ASSUME NEW a \in Refs, NEW i \in Int \cup {None}
    PROVE  From(a, i) \in 0..a.length /\ To(a, i) \in 0..a.length
  <1>1. a.length \in Nat
    BY DEF Refs
  <1>2. CASE i = None
    BY <1>1, <1>2 DEF From, To
  <1>3. CASE i # None
    <2>1. i \in Int
      BY <1>3
    <2>2. Clamp(a, i) \in 0..a.length
      BY <1>1, <2>1 DEF Clamp, Offset
    <2> QED BY <1>3, <2>2 DEF From, To
  <1> QED BY <1>2, <1>3

\* A slice of an array_ref is an array_ref.
LEMMA SliceInside ==
    ASSUME NEW a \in Refs, NEW i \in Int \cup {None}, NEW j \in Int \cup {None}
    PROVE  GetSlice(a, i, j) \in Refs
  <1>1. From(a, i) \in 0..a.length /\ To(a, j) \in 0..a.length
    BY EndsInside
  <1>2. a.begin \in Nat /\ a.length \in Nat /\ a.begin + a.length <= Size
    BY DEF Refs
  <1>3. CASE From(a, i) > To(a, j)
    BY <1>3, SizeAssumption DEF GetSlice, Empty, Refs
  <1>4. CASE From(a, i) <= To(a, j)
    <2> DEFINE from == From(a, i)
               to == To(a, j)
    <2>1. GetSlice(a, i, j) = [begin |-> a.begin + from, length |-> to - from]
      BY <1>1, <1>2, <1>4 DEF GetSlice
    <2>2. a.begin + from \in Nat /\ to - from \in Nat
          /\ (a.begin + from) + (to - from) <= Size
      BY <1>1, <1>2, <1>4, SizeAssumption
    <2> QED BY <2>1, <2>2 DEF Refs
  <1> QED BY <1>1, <1>2, <1>3, <1>4

\* What a statement that writes through a may leave behind: an array of the
\* same cells, which is the old one wherever a does not reach.
Writes(a, m) ==
    /\ m \in [Cells(Whole) -> Values]
    /\ \A p \in Cells(Whole) : m[p] # mem[p] => p \in Cells(a)

\* v[i] = x
LEMMA ItemWrites ==
    ASSUME NEW a \in Refs, mem \in [Cells(Whole) -> Values],
           NEW i \in Int, NEW x \in Values
    PROVE  Writes(a, SetItem(a, i, x).mem)
  <1>1. a.begin \in Nat /\ a.length \in Nat
    BY DEF Refs
  <1>2. CASE InRange(a, i)
    <2>1. a.begin + Offset(a, i) \in Cells(a)
      BY <1>1, <1>2 DEF InRange, Offset, Cells
    <2>2. SetItem(a, i, x).mem = [mem EXCEPT ![a.begin + Offset(a, i)] = x]
      BY <1>2 DEF SetItem, Done
    <2> QED BY <2>1, <2>2 DEF Writes
  <1>3. CASE ~InRange(a, i)
    BY <1>3 DEF SetItem, Raised, Writes
  <1> QED BY <1>2, <1>3

\* v[i:j] = x
LEMMA FillWrites ==
    ASSUME NEW a \in Refs, mem \in [Cells(Whole) -> Values],
           NEW i \in Int \cup {None}, NEW j \in Int \cup {None}, NEW x \in Values
    PROVE  Writes(a, FillSlice(a, i, j, x).mem)
  <1> DEFINE from == From(a, i)
             to == To(a, j)
  <1>1. from \in 0..a.length /\ to \in 0..a.length
    BY EndsInside
  <1>2. a.begin \in Nat /\ a.length \in Nat
    BY DEF Refs
  <1>3. CASE from > to
    BY <1>3 DEF FillSlice, Done, Writes
  <1>4. CASE ~(from > to)
    <2> DEFINE first == a.begin + from
               end == a.begin + to
    <2>1. FillSlice(a, i, j, x).mem = Filled(first, end, x)
      BY <1>4 DEF FillSlice, Done
    <2>2. first..(end - 1) \subseteq Cells(a)
      BY <1>1, <1>2 DEF Cells
    <2> HIDE DEF first, end
    <2>3. Filled(first, end, x) \in [Cells(Whole) -> Values]
      BY DEF Filled
    <2>4. ASSUME NEW p \in Cells(Whole), Filled(first, end, x)[p] # mem[p]
          PROVE  p \in Cells(a)
      BY <2>2, <2>4 DEF Filled
    <2> QED BY <2>1, <2>3, <2>4 DEF Writes
  <1> QED BY <1>3, <1>4

\* v[i:j] = seq
LEMMA CopyWrites ==
    ASSUME NEW a \in Refs, mem \in [Cells(Whole) -> Values],
           NEW i \in Int \cup {None}, NEW j \in Int \cup {None}, NEW seq \in Seq(Values)
    PROVE  Writes(a, SetSlice(a, i, j, seq).mem)
  <1> DEFINE first == a.begin + From(a, i)
  <1>1. From(a, i) \in 0..a.length /\ To(a, j) \in 0..a.length
    BY EndsInside
  <1>2. a.begin \in Nat /\ a.length \in Nat
    BY DEF Refs
  <1>3. first \in Nat
    BY <1>1, <1>2
  <1>4. ASSUME NEW p \in Cells(Whole), p \in first..(first + Len(seq) - 1)
        PROVE  seq[p - first + 1] \in Values
    <2>1. p \in Int
      BY DEF Cells, Whole
    <2>2. p - first + 1 \in 1..Len(seq)
      BY <1>3, <1>4, <2>1
    <2> QED BY <2>2
  <1>5. ASSUME From(a, i) + Len(seq) <= a.length
        PROVE  Writes(a, Copied(first, seq))
    <2>1. first..(first + Len(seq) - 1) \subseteq Cells(a)
      BY <1>1, <1>2, <1>5 DEF Cells
    <2> HIDE DEF first
    <2>2. Copied(first, seq) \in [Cells(Whole) -> Values]
      BY <1>4 DEF Copied
    <2>3. ASSUME NEW p \in Cells(Whole), Copied(first, seq)[p] # mem[p]
          PROVE  p \in Cells(a)
      BY <2>1, <2>3 DEF Copied
    <2> QED BY <2>2, <2>3 DEF Writes
  <1>6. CASE SetSlice(a, i, j, seq) = Done(Copied(first, seq))
             /\ From(a, i) + Len(seq) <= a.length
    BY <1>5, <1>6 DEF Done
  <1>7. CASE SetSlice(a, i, j, seq).mem = mem
    BY <1>7 DEF Writes
  <1> QED BY <1>1, <1>2, <1>6, <1>7 DEF SetSlice, Raised

\* The type invariant, as a statement about single array_ref objects.
LEMMA TypeAsRefs ==
    TypeOK <=> mem \in [Cells(Whole) -> Values] /\ view \in [Views -> Refs]
  BY DEF TypeOK, Refs

\* The sequences of a statement are sequences.
LEMMA SeqOfIsSeq == SeqOf(Values, Size) \subseteq Seq(Values)
  BY SizeAssumption DEF SeqOf

\* A rule's array_ref objects always lie within the array, however they were
\* sliced from one another.
THEOREM TypeCorrect == Spec => []TypeOK
  <1>1. Init => TypeOK
    BY SizeAssumption DEF Init, TypeOK, Empty
  <1>2. TypeOK /\ [Next]_vars => TypeOK'
    <2> SUFFICES ASSUME TypeOK, [Next]_vars PROVE TypeOK'
      OBVIOUS
    <2>1. mem \in [Cells(Whole) -> Values] /\ view \in [Views -> Refs]
      BY TypeAsRefs
    <2>2. Indices \subseteq Int /\ Ends \subseteq Int \cup {None}
      BY IndicesAssumption DEF Ends
    <2>3. SUFFICES mem' \in [Cells(Whole) -> Values] /\ view' \in [Views -> Refs]
      BY DEF TypeOK, Refs
    <2>4. CASE UNCHANGED vars
      BY <2>1, <2>4 DEF vars
    <2>5. ASSUME NEW v \in Views, Attribute(v)
          PROVE  mem' \in [Cells(Whole) -> Values] /\ view' \in [Views -> Refs]
      <3>1. Whole \in Refs
        BY SizeAssumption DEF Whole, Refs
      <3> QED BY <2>1, <2>5, <3>1 DEF Attribute
    <2>6. ASSUME NEW v \in Views, NEW w \in Views, Slice(v, w)
          PROVE  mem' \in [Cells(Whole) -> Values] /\ view' \in [Views -> Refs]
      <3>1. PICK i \in Ends, j \in Ends :
                view' = [view EXCEPT ![w] = GetSlice(view[v], i, j)]
        BY <2>6 DEF Slice
      <3>2. GetSlice(view[v], i, j) \in Refs
        BY <2>1, <2>2, SliceInside
      <3> QED BY <2>1, <2>6, <3>1, <3>2 DEF Slice
    <2>7. ASSUME NEW v \in Views, AssignItem(v)
          PROVE  mem' \in [Cells(Whole) -> Values] /\ view' \in [Views -> Refs]
      <3>1. PICK i \in Indices, x \in Values : mem' = SetItem(view[v], i, x).mem
        BY <2>7 DEF AssignItem
      <3>2. mem' \in [Cells(Whole) -> Values]
        BY <2>1, <2>2, <3>1, ItemWrites DEF Writes
      <3> QED BY <2>1, <2>7, <3>2 DEF AssignItem
    <2>8. ASSUME NEW v \in Views, AssignValue(v)
          PROVE  mem' \in [Cells(Whole) -> Values] /\ view' \in [Views -> Refs]
      <3>1. PICK i \in Ends, j \in Ends, x \in Values :
                mem' = FillSlice(view[v], i, j, x).mem
        BY <2>8 DEF AssignValue
      <3>2. mem' \in [Cells(Whole) -> Values]
        BY <2>1, <2>2, <3>1, FillWrites DEF Writes
      <3> QED BY <2>1, <2>8, <3>2 DEF AssignValue
    <2>9. ASSUME NEW v \in Views, AssignSequence(v)
          PROVE  mem' \in [Cells(Whole) -> Values] /\ view' \in [Views -> Refs]
      <3>1. PICK i \in Ends, j \in Ends, seq \in SeqOf(Values, Size) :
                mem' = SetSlice(view[v], i, j, seq).mem
        BY <2>9 DEF AssignSequence
      <3>2. mem' \in [Cells(Whole) -> Values]
        BY <2>1, <2>2, <3>1, SeqOfIsSeq, CopyWrites DEF Writes
      <3> QED BY <2>1, <2>9, <3>2 DEF AssignSequence
    <2> QED BY <2>4, <2>5, <2>6, <2>7, <2>8, <2>9 DEF Next
  <1> QED BY <1>1, <1>2, PTL DEF Spec

\* Every step writes within one of the array_ref objects there are.
THEOREM OutsideUntouched == Spec => OnlyVisibleCells
  <1> DEFINE Local == \A p \in DOMAIN mem :
                 (mem'[p] # mem[p]) => \E v \in Views : p \in Cells(view[v])
  <1>1. TypeOK /\ [Next]_vars => [Local]_vars
    <2> SUFFICES ASSUME TypeOK, Next PROVE Local
      OBVIOUS
    <2>1. mem \in [Cells(Whole) -> Values] /\ view \in [Views -> Refs]
      BY TypeAsRefs
    <2>2. Indices \subseteq Int /\ Ends \subseteq Int \cup {None}
      BY IndicesAssumption DEF Ends
    <2>3. ASSUME NEW v \in Views, Writes(view[v], mem') PROVE Local
      BY <2>1, <2>3 DEF Writes
    <2>4. ASSUME UNCHANGED mem PROVE Local
      BY <2>4
    <2>5. ASSUME NEW v \in Views, AssignItem(v) PROVE Writes(view[v], mem')
      BY <2>1, <2>2, <2>5, ItemWrites DEF AssignItem
    <2>6. ASSUME NEW v \in Views, AssignValue(v) PROVE Writes(view[v], mem')
      BY <2>1, <2>2, <2>6, FillWrites DEF AssignValue
    <2>7. ASSUME NEW v \in Views, AssignSequence(v) PROVE Writes(view[v], mem')
      BY <2>1, <2>2, <2>7, SeqOfIsSeq, CopyWrites DEF AssignSequence
    <2> HIDE DEF Local
    <2> QED BY <2>3, <2>4, <2>5, <2>6, <2>7 DEF Next, Attribute, Slice
  <1> QED BY <1>1, TypeCorrect, PTL DEF Spec, OnlyVisibleCells

\* Boost's way of cutting the ends of a slice, with the array_ref made from
\* them, is Python's slice.
LEMMA SliceIsPythons ==
    ASSUME NEW a \in Refs, NEW i \in Int \cup {None}, NEW j \in Int \cup {None}
    PROVE  Cells(GetSlice(a, i, j)) = {a.begin + k : k \in PythonSlice(a, i, j)}
  <1> DEFINE from == From(a, i)
             to == To(a, j)
  <1>1. from \in 0..a.length /\ to \in 0..a.length
    BY EndsInside
  <1>2. a.begin \in Nat /\ a.length \in Nat
    BY DEF Refs
  <1>3. ASSUME NEW k \in 0..(a.length - 1)
        PROVE  (i = None \/ NotBefore(k, a, i)) <=> k >= from
    <2>1. CASE i = None
      BY <1>2, <2>1 DEF From
    <2>2. CASE i # None
      BY <1>2, <2>2 DEF From, Clamp, Offset, NotBefore
    <2> QED BY <2>1, <2>2
  <1>4. ASSUME NEW k \in 0..(a.length - 1)
        PROVE  (j = None \/ ~NotBefore(k, a, j)) <=> k < to
    <2>1. CASE j = None
      BY <1>2, <2>1 DEF To
    <2>2. CASE j # None
      BY <1>2, <2>2 DEF To, Clamp, Offset, NotBefore
    <2> QED BY <2>1, <2>2
  <1>5. PythonSlice(a, i, j) = {k \in 0..(a.length - 1) : k >= from /\ k < to}
    BY <1>3, <1>4 DEF PythonSlice
  <1>6. Cells(GetSlice(a, i, j)) = (a.begin + from)..(a.begin + to - 1)
    <2>1. CASE from > to
      <3>1. GetSlice(a, i, j) = Empty
        BY <2>1 DEF GetSlice
      <3>2. Cells(Empty) = {}
        BY DEF Cells, Empty
      <3>3. (a.begin + from)..(a.begin + to - 1) = {}
        BY <1>1, <1>2, <2>1
      <3> QED BY <3>1, <3>2, <3>3
    <2>2. CASE ~(from > to)
      <3>1. GetSlice(a, i, j) = [begin |-> a.begin + from, length |-> to - from]
        BY <2>2 DEF GetSlice
      <3>2. a.begin + from + (to - from) - 1 = a.begin + to - 1
        BY <1>1, <1>2
      <3> QED BY <3>1, <3>2 DEF Cells
    <2> QED BY <2>1, <2>2
  <1> HIDE DEF from, to
  <1>7. ASSUME NEW c \in (a.begin + from)..(a.begin + to - 1)
        PROVE  c \in {a.begin + k : k \in {n \in 0..(a.length - 1) : n >= from /\ n < to}}
    <2>1. c - a.begin \in {n \in 0..(a.length - 1) : n >= from /\ n < to}
      BY <1>1, <1>2, <1>7
    <2>2. c = a.begin + (c - a.begin)
      BY <1>1, <1>2, <1>7
    <2> QED BY <2>1, <2>2
  <1>8. ASSUME NEW k \in {n \in 0..(a.length - 1) : n >= from /\ n < to}
        PROVE  a.begin + k \in (a.begin + from)..(a.begin + to - 1)
    BY <1>1, <1>2, <1>8
  <1> QED BY <1>5, <1>6, <1>7, <1>8

\* In every state every slice of every array_ref has the cells Python means.
THEOREM SlicesArePythons == Spec => []SlicesAsPython
  <1>1. TypeOK => SlicesAsPython
    BY TypeAsRefs, IndicesAssumption, SliceIsPythons DEF SlicesAsPython, Ends
  <1> QED BY <1>1, TypeCorrect, PTL

\* v[i] raises just when Python has no such element, and is the first element
\* of v[i:] otherwise.
THEOREM ItemsAgree == Spec => []ItemsAgreeWithSlices
  <1>1. ASSUME NEW a \in Refs, NEW i \in Int
        PROVE  /\ InRange(a, i) <=> i \in (-a.length)..(a.length - 1)
               /\ InRange(a, i) => a.begin + Offset(a, i) = GetSlice(a, i, None).begin
    <2>1. a.begin \in Nat /\ a.length \in Nat
      BY DEF Refs
    <2>2. i # None
      BY IndicesAssumption
    <2> QED BY <2>1, <2>2 DEF InRange, Offset, GetSlice, From, To, Clamp
  <1>2. TypeOK => ItemsAgreeWithSlices
    BY <1>1, TypeAsRefs, IndicesAssumption DEF ItemsAgreeWithSlices
  <1> QED BY <1>2, TypeCorrect, PTL

\* An assignment to a slice puts the sequence there and nothing elsewhere, or
\* raises and changes nothing.
THEOREM AssignmentsExact == Spec => []AssignmentExact
  <1>1. ASSUME NEW a \in Refs, NEW i \in Int \cup {None}, NEW j \in Int \cup {None},
               NEW seq \in Seq(Values), From(a, i) <= To(a, j)
        PROVE  LET s   == GetSlice(a, i, j)
                   out == SetSlice(a, i, j, seq)
               IN  /\ out.error = "none" <=> Len(seq) = s.length
                   /\ out.error # "none" => out.mem = mem
                   /\ out.error = "none" => \A p \in DOMAIN mem :
                         out.mem[p] = IF p \in Cells(s) THEN seq[p - s.begin + 1]
                                      ELSE mem[p]
    <2> DEFINE from == From(a, i)
               to == To(a, j)
    <2>1. from \in 0..a.length /\ to \in 0..a.length
      BY EndsInside
    <2>2. a.begin \in Nat /\ a.length \in Nat /\ Len(seq) \in Nat
      BY DEF Refs
    <2>3. GetSlice(a, i, j) = [begin |-> a.begin + from, length |-> to - from]
      BY <1>1, <2>1, <2>2 DEF GetSlice
    <2>4. CASE Len(seq) = to - from
      <3>1. from + Len(seq) <= a.length
        BY <2>1, <2>2, <2>4
      <3>2. SetSlice(a, i, j, seq) = Done(Copied(a.begin + from, seq))
        BY <2>1, <2>2, <2>4, <3>1 DEF SetSlice
      <3>3. Cells(GetSlice(a, i, j)) = (a.begin + from)..(a.begin + from + Len(seq) - 1)
        BY <2>1, <2>2, <2>3, <2>4 DEF Cells
      <3> QED BY <2>3, <2>4, <3>2, <3>3 DEF Done, Copied
    <2>5. CASE Len(seq) # to - from
      BY <1>1, <2>3, <2>5 DEF SetSlice, Raised
    <2> QED BY <2>4, <2>5
  <1>2. TypeOK => AssignmentExact
    BY <1>1, TypeAsRefs, IndicesAssumption, SeqOfIsSeq DEF AssignmentExact, Ends
  <1> QED BY <1>2, TypeCorrect, PTL
=============================================================================
