----------------------------- MODULE InitStruct -----------------------------
(***************************************************************************)
(* make_init_function: a C struct built from positional Python arguments.  *)
(* populate_helper is called once for every member, and for an array once  *)
(* for every element of it (the expanded type sequence); the calls share   *)
(* index, index_into_array and iter, and nothing but these tells a call    *)
(* which argument is its own.  Keyword arguments are dropped.              *)
(***************************************************************************)
EXTENDS Integers, SequencesExt

CONSTANTS
    Layout,     \* class -> its members, in the order of the constructor
    Calls,      \* class -> the argument tuples it may be called with
    Values,     \* what can be extracted as a value
    Texts,      \* the str among them
    Null,       \* None, and the null pointer it stands for
    Default     \* what T{} is for anything but a pointer

Forms == {"value", "array", "pointer", "pointers"}

Members(c) == DOMAIN Layout[c]

Cells(c, m) == 1..Layout[c][m].size

ASSUME LayoutAssumption ==
    /\ \A c \in DOMAIN Layout :
          /\ Layout[c] \in Seq([name : STRING, form : Forms, size : Nat \ {0},
                                attrs : SUBSET STRING, access : STRING])
          /\ \A m \in Members(c) :
                Layout[c][m].form \in {"value", "pointer"} => Layout[c][m].size = 1
    /\ DOMAIN Calls = DOMAIN Layout

\* An argument is one object, or several that it can be iterated over.
ASSUME CallsAssumption ==
    \A c \in DOMAIN Calls : \A given \in Calls[c] :
       /\ Len(given) \in Nat /\ DOMAIN given = 1..Len(given)
       /\ \A i \in DOMAIN given :
             /\ Len(given[i].items) \in Nat
             /\ DOMAIN given[i].items = 1..Len(given[i].items)
             /\ given[i].kind \in {"one", "many"}
             /\ given[i].kind = "one" => Len(given[i].items) = 1

ASSUME TextsAssumption == Texts \subseteq Values

VARIABLES
    class,      \* the class of the object
    args,       \* the arguments it is constructed with
    stage,      \* idle, building, built or raised
    member, element,            \* the call of populate_helper that is next
    index, index_into_array,    \* as in the code
    iter,       \* stl_input_iterator: which argument, and how much is taken
    struct      \* the members, each a sequence of cells

initVars == <<class, args, stage, member, element, index, index_into_array,
              iter, struct>>

Zero(form) == IF form \in {"pointer", "pointers"} THEN Null ELSE Default

Zeroed(c) ==
    [m \in Members(c) |-> [e \in Cells(c, m) |-> Zero(Layout[c][m].form)]]

InitStructs ==
    /\ class = "none" /\ args = <<>> /\ stage = "idle"
    /\ member = 1 /\ element = 1
    /\ index = 0 /\ index_into_array = 0
    /\ iter = [arg |-> 0, taken |-> 0]
    /\ struct = <<>>

-----------------------------------------------------------------------------
\* What becomes a member: a pointer is None, an element that is a char* is also
\* the characters of a str; None is no value.
Extractable(form, item) ==
    CASE form = "pointer"             -> item = Null
      [] form = "pointers"            -> item = Null \/ item \in Texts
      [] form \in {"value", "array"} -> item \in Values

\* Cls(args...)
Construct(c, given) ==
    /\ class' = c /\ args' = given
    /\ stage' = "building"
    /\ struct' = Zeroed(c)
    /\ UNCHANGED <<member, element, index, index_into_array, iter>>

Member == Layout[class][member]

Building == stage = "building" /\ member \in Members(class)

\* index < len(args)
Given == index < Len(args)

Argument == args[index + 1]

\* Variant: one call too many for an array.
StorePast(x) ==
    /\ struct' = [struct EXCEPT ![member][element] = x]
    /\ IF element <= Member.size
       THEN element' = element + 1 /\ UNCHANGED member
       ELSE element' = 1 /\ member' = member + 1
    /\ UNCHANGED <<class, args, stage>>

\* Repeat and Expand: an array takes as many calls as it has elements.
Store(x) ==
    /\ struct' = [struct EXCEPT ![member][element] = x]
    /\ IF element < Member.size
       THEN element' = element + 1 /\ UNCHANGED member
       ELSE element' = 1 /\ member' = member + 1
    /\ UNCHANGED <<class, args, stage>>

Missing ==
    /\ Building /\ ~Given
    /\ Store(Zero(Member.form))
    /\ UNCHANGED <<index, index_into_array, iter>>

\* Variant: a pointer does not use up its argument.
SingleKeepingIndex ==
    /\ Building /\ Given /\ Member.form \in {"value", "pointer"}
    /\ Argument.kind = "one" /\ Extractable(Member.form, Argument.items[1])
    /\ Store(Argument.items[1])
    /\ index' = IF Member.form = "value" THEN index + 1 ELSE index
    /\ UNCHANGED <<index_into_array, iter>>

Single ==
    /\ Building /\ Given /\ Member.form \in {"value", "pointer"}
    /\ Argument.kind = "one" /\ Extractable(Member.form, Argument.items[1])
    /\ Store(Argument.items[1])
    /\ index' = index + 1
    /\ UNCHANGED <<index_into_array, iter>>

\* iter is made for the first element, and kept for the others.
Iterator ==
    IF index_into_array = 0 THEN [arg |-> index + 1, taken |-> 0] ELSE iter

Items == args[Iterator.arg].items

Exhausted == Iterator.taken = Len(Items)

\* An element gets the next item, or T{} when there is none left; an item
\* beyond the last element is dropped.
ArrayElement ==
    /\ Building /\ Given /\ Member.form \in {"array", "pointers"}
    /\ index_into_array = 0 => Argument.kind = "many"
    /\ IF Exhausted
       THEN Store(Zero(Member.form)) /\ iter' = Iterator
       ELSE /\ Extractable(Member.form, Items[Iterator.taken + 1])
            /\ Store(Items[Iterator.taken + 1])
            /\ iter' = [Iterator EXCEPT !.taken = @ + 1]
    /\ IF index_into_array < Member.size - 1
       THEN index_into_array' = index_into_array + 1 /\ UNCHANGED index
       ELSE index_into_array' = 0 /\ index' = index + 1

\* extract, the iterator or the check of a pointer raises: no object.
Refuse ==
    /\ Building /\ Given
    /\ IF Member.form \in {"value", "pointer"}
       THEN ~(Argument.kind = "one" /\ Extractable(Member.form, Argument.items[1]))
       ELSE \/ index_into_array = 0 /\ Argument.kind # "many"
            \/ ~Exhausted /\ ~Extractable(Member.form, Items[Iterator.taken + 1])
    /\ stage' = "raised"
    /\ UNCHANGED <<class, args, member, element, index, index_into_array, iter, struct>>

Finish ==
    /\ stage = "building" /\ member \notin Members(class)
    /\ stage' = "built"
    /\ UNCHANGED <<class, args, member, element, index, index_into_array, iter, struct>>

Build == Missing \/ Single \/ ArrayElement \/ Refuse \/ Finish

ConstructAny ==
    /\ stage = "idle"
    /\ \E c \in DOMAIN Layout : \E given \in Calls[c] : Construct(c, given)

InitStructSpec == InitStructs /\ [][ConstructAny \/ Build]_initVars

-----------------------------------------------------------------------------
\* What a cell should hold: argument m is for member m, item e of it for
\* element e.
Expected(m, e) ==
    IF m <= Len(args) /\ e <= Len(args[m].items) THEN args[m].items[e]
    ELSE Zero(Layout[class][m].form)

\* The argument for a cell can be used for it.
Fits(m, e) ==
    m <= Len(args) =>
       /\ args[m].kind = IF Layout[class][m].form \in {"value", "pointer"} THEN "one" ELSE "many"
       /\ e <= Len(args[m].items) => Extractable(Layout[class][m].form, args[m].items[e])

\* The cells that come before the call that is next.
Before(m, e) == m < member \/ (m = member /\ e < element)

\* Whatever is given, the constructor ends with every argument in the member of
\* its place and T{} where there is none, or with an exception at the first
\* argument that does not fit and no object: no item slips into a member that is
\* not its own, and no argument that does not fit is passed over.
ConstructedAsGiven ==
    /\ stage \in {"building", "built"} =>
          \A m \in Members(class) : \A e \in Cells(class, m) : Before(m, e) =>
             struct[m][e] = Expected(m, e) /\ Fits(m, e)
    /\ stage = "built" => member > Len(Layout[class])
    /\ stage = "raised" => ~Fits(member, element)
=============================================================================
