---------------------------- MODULE MCSessionVars ----------------------------
EXTENDS SessionVars

CONSTANT MaxItems   \* bound: items of an argument

\* Item k of argument i, different from any other; New is none of them.
MCValues == {<<i, k>> : i \in 0..45, k \in 0..MaxItems}
MCTexts == {<<2, 1>>}
MCNew == {<<0, 0>>, <<0, 1>>}
MCUnbacked == {<<0, 1>>}

Only(x) == [kind |-> "one", items |-> <<x>>]
Many(items) == [kind |-> "many", items |-> items]

\* The arguments a class expects: k items for an array, and n arguments at all.
Fitting(c, n, k) ==
    [i \in 1..n |->
        IF i > Len(Structs[c]) THEN Only(<<i, 0>>)
        ELSE CASE Structs[c][i].form = "value"    -> Only(<<i, 0>>)
               [] Structs[c][i].form = "pointer"  -> Only(Null)
               [] Structs[c][i].form = "array"    -> Many([j \in 1..k |-> <<i, j>>])
               [] Structs[c][i].form = "pointers" ->
                     Many([j \in 1..k |-> IF <<i, j>> \in MCTexts THEN <<i, j>> ELSE Null])]

\* Every argument of up to MaxItems items, some of which cannot be taken.
AnyArgument(i) ==
    {Only(Null), Only(<<i, 0>>)} \cup
    UNION {{Many([j \in 1..k |-> IF j = bad THEN Null ELSE <<i, j>>]) : bad \in 0..k}
           : k \in 0..MaxItems}

\* The elements of args are None, a str, or what is no str.
Queries ==
    {<<Only(Null), Many(items)>> :
        items \in UNION {[1..k -> {Null, <<2, 1>>, <<2, 2>>}] : k \in 0..MaxItems}}

\* All arguments for the small classes, and those that fit for any class.
MCCalls ==
    [c \in DOMAIN Structs |->
        {Fitting(c, n, MaxItems) : n \in 0..Len(Structs[c]) + 1}
        \cup {Fitting(c, Len(Structs[c]), k) : k \in 0..MaxItems}
        \cup (IF c = "SpecificQueryInp" THEN Queries ELSE {})
        \cup IF Len(Structs[c]) > 2 THEN {}
             ELSE UNION {{a \in [1..n -> UNION {AnyArgument(i) : i \in 1..n}] :
                             \A i \in 1..n : a[i] \in AnyArgument(i)} : n \in 1..2}]
=============================================================================
