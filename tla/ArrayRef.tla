------------------------------- MODULE ArrayRef -------------------------------
(***************************************************************************)
(* array_ref.hpp and array_indexing_suite.hpp: Python sees the array       *)
(* member of a C struct through array_ref objects, which own nothing: each *)
(* is a place in the array and a length.  A slice of one is another one on *)
(* the same cells.  The operators of Python's [] arrive as get_item,       *)
(* set_item, get_slice and set_slice, after Boost's indexing_suite has     *)
(* turned the ends of a slice into offsets.                                *)
(*                                                                         *)
(* del is left out: delete_item and delete_slice only raise.  Arrays are   *)
(* those of fixed length, not null-terminated strings nor arrays of them.  *)
(***************************************************************************)
EXTENDS Integers, SequencesExt

CONSTANTS
    Size,       \* the length of the C array
    Values,     \* what a cell may hold
    Views,      \* the array_ref objects a rule has at one time
    Indices,    \* bound: the integers a rule writes between [ and ]
    None        \* an end of a slice that is left out

ASSUME SizeAssumption == Size \in Nat \ {0}
ASSUME IndicesAssumption == Indices \subseteq Int /\ None \notin Int

VARIABLES
    mem,    \* the C array
    view    \* view[v]: where array_ref object v points, and its length

vars == <<mem, view>>

\* array_ref(): a null pointer and no cells.
Empty == [begin |-> 0, length |-> 0]

\* array_ref(T (&arr)[N])
Whole == [begin |-> 0, length |-> Size]

Cells(a) == a.begin..(a.begin + a.length - 1)

Init ==
    /\ mem \in [Cells(Whole) -> Values]
    /\ view = [v \in Views |-> Empty]

-----------------------------------------------------------------------------
\* Indices and the ends of slices.

Ends == Indices \cup {None}

\* Variant: an index may be the length.
InRangeInclusive(a, i) == IF i < 0 THEN i + a.length >= 0 ELSE i <= a.length

\* convert_index: a negative index counts from the end.
Offset(a, i) == IF i < 0 THEN i + a.length ELSE i

\* Otherwise an IndexError.
InRange(a, i) == Offset(a, i) >= 0 /\ Offset(a, i) < a.length

\* Variant: an end past the end of the array is taken as it is.
ClampUpwards(a, i) == IF Offset(a, i) < 0 THEN 0 ELSE Offset(a, i)

\* Boost's base_get_slice_data cuts an end to get_min_index..get_max_index.
Clamp(a, i) ==
    IF Offset(a, i) < 0 THEN 0
    ELSE IF Offset(a, i) > a.length THEN a.length
    ELSE Offset(a, i)

From(a, i) == IF i = None THEN 0 ELSE Clamp(a, i)

To(a, j) == IF j = None THEN a.length ELSE Clamp(a, j)

\* Variant: an inverted slice is not looked for.
GetSliceAlways(a, i, j) ==
    [begin |-> a.begin + From(a, i), length |-> To(a, j) - From(a, i)]

\* get_slice
GetSlice(a, i, j) ==
    IF From(a, i) > To(a, j) THEN Empty
    ELSE [begin |-> a.begin + From(a, i), length |-> To(a, j) - From(a, i)]

-----------------------------------------------------------------------------
\* Writing: the array afterwards and what was raised.

Raised(e) == [error |-> e, mem |-> mem]

Done(m) == [error |-> "none", mem |-> m]

\* std::copy
Copied(first, seq) ==
    [p \in DOMAIN mem |->
        IF p \in first..(first + Len(seq) - 1) THEN seq[p - first + 1] ELSE mem[p]]

\* std::fill
Filled(first, end, x) ==
    [p \in DOMAIN mem |-> IF p \in first..(end - 1) THEN x ELSE mem[p]]

\* v[i] = x
SetItem(a, i, x) ==
    IF InRange(a, i)
    THEN Done([mem EXCEPT ![a.begin + Offset(a, i)] = x])
    ELSE Raised("IndexError")

\* v[i:j] = x, with one value
FillSlice(a, i, j, x) ==
    IF From(a, i) > To(a, j) THEN Done(mem)
    ELSE Done(Filled(a.begin + From(a, i), a.begin + To(a, j), x))

\* Variant: a shorter sequence is copied as well.
SetSliceShorter(a, i, j, seq) ==
    IF From(a, i) + Len(seq) > a.length THEN Raised("IndexError")
    ELSE IF From(a, i) <= To(a, j) /\ To(a, j) - From(a, i) < Len(seq)
    THEN Raised("TypeError")
    ELSE Done(Copied(a.begin + From(a, i), seq))

\* Variant: the place is looked at, the number of items is not.
SetSliceUnbounded(a, i, j, seq) ==
    IF From(a, i) > a.length THEN Raised("IndexError")
    ELSE IF From(a, i) <= To(a, j) /\ To(a, j) - From(a, i) # Len(seq)
    THEN Raised("TypeError")
    ELSE Done(Copied(a.begin + From(a, i), seq))

\* v[i:j] = seq.  With the ends the wrong way round the items replace as many
\* from i on; there is no insertion.
SetSlice(a, i, j, seq) ==
    IF From(a, i) + Len(seq) > a.length THEN Raised("IndexError")
    ELSE IF From(a, i) <= To(a, j) /\ To(a, j) - From(a, i) # Len(seq)
    THEN Raised("TypeError")
    ELSE Done(Copied(a.begin + From(a, i), seq))

-----------------------------------------------------------------------------
\* The attribute of the struct is read.
Attribute(v) ==
    /\ view' = [view EXCEPT ![v] = Whole]
    /\ UNCHANGED mem

\* w = v[i:j]
Slice(v, w) ==
    /\ \E i, j \in Ends : view' = [view EXCEPT ![w] = GetSlice(view[v], i, j)]
    /\ UNCHANGED mem

AssignItem(v) ==
    /\ \E i \in Indices, x \in Values : mem' = SetItem(view[v], i, x).mem
    /\ UNCHANGED view

AssignValue(v) ==
    /\ \E i, j \in Ends, x \in Values : mem' = FillSlice(view[v], i, j, x).mem
    /\ UNCHANGED view

AssignSequence(v) ==
    /\ \E i, j \in Ends, seq \in SeqOf(Values, Size) :
          mem' = SetSlice(view[v], i, j, seq).mem
    /\ UNCHANGED view

Next ==
    \/ \E v \in Views :
          Attribute(v) \/ AssignItem(v) \/ AssignValue(v) \/ AssignSequence(v)
    \/ \E v, w \in Views : Slice(v, w)

Spec == Init /\ [][Next]_vars

-----------------------------------------------------------------------------
\* The type invariant.  That every array_ref lies within the array, slices of
\* slices included, is part of it.
TypeOK ==
    /\ mem \in [Cells(Whole) -> Values]
    /\ view \in [Views -> [begin : Nat, length : Nat]]
    /\ \A v \in Views : view[v].begin + view[v].length <= Size

\* What Python means by a slice: the elements that are not before its first
\* end, and before its second.
NotBefore(k, a, i) == k >= IF i < 0 THEN i + a.length ELSE i

PythonSlice(a, i, j) ==
    {k \in 0..(a.length - 1) :
        (i = None \/ NotBefore(k, a, i)) /\ (j = None \/ ~NotBefore(k, a, j))}

\* A slice has the cells Python means, for ends of either sign, beyond either
\* end of the array, left out, or the wrong way round.
SlicesAsPython ==
    \A v \in Views : \A i, j \in Ends :
        Cells(GetSlice(view[v], i, j)) =
            {view[v].begin + k : k \in PythonSlice(view[v], i, j)}

\* The two ways to an element agree: v[i] raises just when Python has no such
\* element, and is the first of v[i:] otherwise.
ItemsAgreeWithSlices ==
    \A v \in Views : \A i \in Indices :
        /\ InRange(view[v], i) <=> i \in (-view[v].length)..(view[v].length - 1)
        /\ InRange(view[v], i) =>
              view[v].begin + Offset(view[v], i) = GetSlice(view[v], i, None).begin

\* v[i:j] = seq either puts seq in the slice and nothing anywhere else, or
\* raises and leaves the array alone; it does the former just when the lengths
\* agree.  (A slice with its ends the wrong way round is not spoken of.)
AssignmentExact ==
    \A v \in Views : \A i, j \in Ends : \A seq \in SeqOf(Values, Size) :
        LET a   == view[v]
            s   == GetSlice(a, i, j)
            out == SetSlice(a, i, j, seq)
        IN  From(a, i) <= To(a, j) =>
               /\ out.error = "none" <=> Len(seq) = s.length
               /\ out.error # "none" => out.mem = mem
               /\ out.error = "none" => \A p \in DOMAIN mem :
                     out.mem[p] = IF p \in Cells(s) THEN seq[p - s.begin + 1] ELSE mem[p]

\* No statement changes a cell that no array_ref covers, however the slices
\* were made, and whatever their ends.
OnlyVisibleCells ==
    [][\A p \in DOMAIN mem :
          (mem'[p] # mem[p]) => \E v \in Views : p \in Cells(view[v])]_vars
=============================================================================
