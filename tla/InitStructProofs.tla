-------------------------- MODULE InitStructProofs --------------------------
(***************************************************************************)
(* Proofs about the constructors and the bindings, for any classes,        *)
(* members and arguments: index, index_into_array and iter always lead to  *)
(* the argument of the member, and to the item of the element, whose turn  *)
(* it is; and an attribute shows what was last put there.                  *)
(***************************************************************************)
EXTENDS SessionVars, TLAPS

\* index counts the members that have had an argument; within an array
\* index_into_array and iter count the elements.
Tracks ==
    /\ index = IF member - 1 < Len(args) THEN member - 1 ELSE Len(args)
    /\ IF /\ member \in Members(class) /\ member <= Len(args)
          /\ Member.form \in {"array", "pointers"}
       THEN /\ index_into_array = element - 1
            /\ element > 1 =>
                  /\ args[member].kind = "many"
                  /\ iter = [arg |-> member,
                             taken |-> IF element - 1 < Len(args[member].items)
                                       THEN element - 1 ELSE Len(args[member].items)]
       ELSE index_into_array = 0

Place ==
    /\ class \in DOMAIN Layout /\ args \in Calls[class]
    /\ member \in 1..Len(Layout[class]) + 1
    /\ member \in Members(class) => element \in Cells(class, member)
    /\ member \notin Members(class) => element = 1

Shaped ==
    /\ class \in DOMAIN Layout
    /\ DOMAIN struct = Members(class)
    /\ \A m \in Members(class) : DOMAIN struct[m] = Cells(class, m)

\* The cells stored so far.
Stored ==
    \A m \in Members(class) : \A e \in Cells(class, m) : Before(m, e) =>
       struct[m][e] = Expected(m, e) /\ Fits(m, e)

Stages == {"idle", "building", "built", "raised", "received", "used"}

IInv ==
    /\ stage \in Stages
    /\ stage = "idle" =>
          member = 1 /\ element = 1 /\ index = 0 /\ index_into_array = 0 /\ args = <<>>
    /\ stage = "building" => Place /\ Tracks /\ Shaped /\ Stored
    /\ ConstructedAsGiven

\* The parts of the assumptions that the steps use.
LEMMA Structure ==
    ASSUME NEW c \in DOMAIN Layout
    PROVE  /\ Members(c) = 1..Len(Layout[c]) /\ Len(Layout[c]) \in Nat
           /\ \A m \in Members(c) :
                 /\ Layout[c][m].form \in Forms
                 /\ Layout[c][m].size \in Nat \ {0}
                 /\ Cells(c, m) = 1..Layout[c][m].size
                 /\ Layout[c][m].form \in {"value", "pointer"} => Layout[c][m].size = 1
<1>. DEFINE R == [name : STRING, form : Forms, size : Nat \ {0},
                  attrs : SUBSET STRING, access : STRING]
            l == Layout[c]
<1>1. l \in Seq(R)
  BY LayoutAssumption
<1>2. \A m \in DOMAIN l : l[m].form \in {"value", "pointer"} => l[m].size = 1
  BY LayoutAssumption DEF Members
<1>3. \A r \in R : r.form \in Forms /\ r.size \in Nat \ {0}
  OBVIOUS
<1>. HIDE DEF R, l
<1>4. DOMAIN l = 1..Len(l) /\ Len(l) \in Nat /\ \A m \in DOMAIN l : l[m] \in R
  BY <1>1
<1>. QED
  BY <1>2, <1>3, <1>4 DEF Members, Cells, l

LEMMA InitInv == InitMap => IInv
  BY DEF InitMap, Init, InitStructs, IInv, Stages, ConstructedAsGiven

LEMMA ConstructInv == IInv /\ ConstructAny => IInv'
<1>. SUFFICES ASSUME IInv, stage = "idle", NEW c \in DOMAIN Layout,
                     NEW given \in Calls[c], Construct(c, given)
              PROVE  IInv'
  BY DEF ConstructAny
<1>0. /\ member = 1 /\ element = 1 /\ index = 0 /\ index_into_array = 0
      /\ UNCHANGED <<member, element, index, index_into_array, iter>>
      /\ class' = c /\ args' = given /\ stage' = "building" /\ struct' = Zeroed(c)
  BY DEF Construct, IInv
<1>1. Len(given) \in Nat
  BY CallsAssumption, LayoutAssumption
<1>2. Place'
  BY <1>0, Structure DEF Place
<1>3. Tracks'
  BY <1>0, <1>1 DEF Tracks
<1>4. Shaped'
  BY <1>0 DEF Shaped, Zeroed
<1>5. Stored'
  BY <1>0, Structure DEF Stored, Before
<1>. QED
  BY <1>0, <1>2, <1>3, <1>4, <1>5 DEF IInv, Stages, ConstructedAsGiven, Stored

-----------------------------------------------------------------------------
\* A call of populate_helper that stores what is expected.
LEMMA StoreInv ==
    ASSUME IInv, Building, Store(Expected(member, element)), Fits(member, element)
    PROVE  Place' /\ Shaped' /\ Stored' /\ member' \in Nat /\ stage' = "building"
<1>. DEFINE k == Layout[class][member].size
<1>0. /\ stage = "building" /\ member \in Members(class) /\ Place /\ Shaped /\ Stored
      /\ class' = class /\ args' = args /\ stage' = stage
      /\ struct' = [struct EXCEPT ![member][element] = Expected(member, element)]
      /\ \/ element < k /\ element' = element + 1 /\ member' = member
         \/ ~(element < k) /\ element' = 1 /\ member' = member + 1
  BY DEF IInv, Building, Store, Member
<1>1. /\ Members(class) = 1..Len(Layout[class]) /\ Len(Layout[class]) \in Nat
      /\ k \in Nat \ {0} /\ member \in Nat /\ element \in 1..k
      /\ \A m \in Members(class) :
            Layout[class][m].size \in Nat \ {0} /\ Cells(class, m) = 1..Layout[class][m].size
  BY <1>0, Structure DEF Place
<1>2. Place'
  BY <1>0, <1>1 DEF Place
<1>3. Shaped'
  BY <1>0, <1>1 DEF Shaped
<1>4. Stored'
  <2>. SUFFICES ASSUME NEW m \in Members(class), NEW e \in Cells(class, m),
                       m < member' \/ (m = member' /\ e < element')
                PROVE  struct'[m][e] = Expected(m, e) /\ Fits(m, e)
    BY <1>0 DEF Stored, Before, Expected, Fits, Members, Cells
  <2>1. CASE m = member /\ e = element
    BY <1>0, <1>1, <2>1 DEF Shaped
  <2>2. CASE ~(m = member /\ e = element)
    <3>1. Before(m, e)
      BY <1>0, <1>1, <2>2 DEF Before
    <3>2. struct'[m][e] = struct[m][e]
      BY <1>0, <1>1, <2>2 DEF Shaped
    <3>. QED
      BY <1>0, <3>1, <3>2 DEF Stored
  <2>. QED
    BY <2>1, <2>2
<1>. QED
  BY <1>0, <1>1, <1>2, <1>3, <1>4

\* What Tracks is for: the argument the code takes is that of the member.
LEMMA ArgumentOfMember ==
    ASSUME IInv, Building
    PROVE  /\ Given <=> member <= Len(args)
           /\ Given => index + 1 = member /\ Argument = args[member]
           /\ Len(args) \in Nat /\ member \in Nat /\ index \in Nat
           /\ Given => /\ args[member].kind \in {"one", "many"}
                       /\ Len(args[member].items) \in Nat
                       /\ DOMAIN args[member].items = 1..Len(args[member].items)
                       /\ args[member].kind = "one" => Len(args[member].items) = 1
<1>1. Place /\ Tracks /\ member \in Nat \ {0}
  BY Structure DEF IInv, Building, Place
<1>2. Len(args) \in Nat /\ DOMAIN args = 1..Len(args)
  BY <1>1, CallsAssumption, LayoutAssumption DEF Place
<1>3. /\ Given <=> member <= Len(args)
      /\ Given => index + 1 = member /\ Argument = args[member]
      /\ index \in Nat
  <2>1. index = IF member - 1 < Len(args) THEN member - 1 ELSE Len(args)
    BY <1>1 DEF Tracks
  <2>2. /\ index < Len(args) <=> member <= Len(args)
        /\ index < Len(args) => index + 1 = member
        /\ index \in Nat
    <3>. DEFINE n == Len(args)
    <3>1. n \in Nat /\ member \in Nat \ {0} /\ index = IF member - 1 < n THEN member - 1 ELSE n
      BY <1>1, <1>2, <2>1
    <3>. HIDE DEF n
    <3>2. (index < n <=> member <= n) /\ (index < n => index + 1 = member) /\ index \in Nat
      BY <3>1
    <3>. QED
      BY <3>2 DEF n
  <2>. QED
    BY <2>2 DEF Given, Argument
<1>4. member <= Len(args) => 
           /\ args[member].kind \in {"one", "many"}
           /\ Len(args[member].items) \in Nat
           /\ DOMAIN args[member].items = 1..Len(args[member].items)
           /\ args[member].kind = "one" => Len(args[member].items) = 1
  BY <1>1, <1>2, CallsAssumption, LayoutAssumption DEF Place
<1>. QED
  BY <1>1, <1>2, <1>3, <1>4

LEMMA MissingInv == IInv /\ Missing => IInv'
<1>. SUFFICES ASSUME IInv, Missing PROVE IInv'
  OBVIOUS
<1>1. Building /\ ~(member <= Len(args)) /\ Len(args) \in Nat /\ member \in Nat
  BY ArgumentOfMember DEF Missing
<1>2. Fits(member, element) /\ Expected(member, element) = Zero(Member.form)
  BY <1>1 DEF Fits, Expected, Member
<1>3. Store(Expected(member, element))
  BY <1>2 DEF Missing
<1>4. Place' /\ Shaped' /\ Stored' /\ stage' = "building"
  BY <1>1, <1>2, <1>3, StoreInv
<1>5. Tracks'
  BY <1>1 DEF IInv, Building, Tracks, Missing, Store
<1>. QED
  BY <1>4, <1>5 DEF IInv, Stages, ConstructedAsGiven, Stored

LEMMA SingleInv == IInv /\ Single => IInv'
<1>. SUFFICES ASSUME IInv, Single PROVE IInv'
  OBVIOUS
<1>1. /\ Building /\ Given /\ Argument = args[member] /\ member <= Len(args)
      /\ Len(args) \in Nat /\ member \in Nat /\ index + 1 = member
      /\ index' = index + 1 /\ index_into_array' = index_into_array
      /\ Member.form \in {"value", "pointer"} /\ Argument.kind = "one"
      /\ Extractable(Member.form, Argument.items[1])
      /\ Len(args[member].items) = 1
      /\ UNCHANGED <<class, args, stage>>
  BY ArgumentOfMember DEF Single, Store
<1>2. /\ member \in Members(class) /\ element = 1 /\ Member.size = 1
      /\ index_into_array = 0
  BY <1>1, Structure DEF IInv, Building, Place, Tracks, Member, Forms
<1>3. Fits(member, element) /\ Expected(member, element) = Argument.items[1]
  BY <1>1, <1>2 DEF Fits, Expected, Member
<1>4. Store(Expected(member, element))
  BY <1>3 DEF Single
<1>5. Place' /\ Shaped' /\ Stored' /\ stage' = "building"
  BY <1>1, <1>3, <1>4, StoreInv
<1>6. member' = member + 1 /\ element' = 1
  BY <1>2 DEF Single, Store
<1>7. Tracks'
  BY <1>1, <1>2, <1>6 DEF Tracks
<1>. QED
  BY <1>5, <1>7 DEF IInv, Stages, ConstructedAsGiven, Stored

\* Within an array the iterator has taken as many items as there were elements.
LEMMA IteratorOfMember ==
    ASSUME IInv, Building, Given, Member.form \in {"array", "pointers"},
           index_into_array = 0 => Argument.kind = "many"
    PROVE  /\ args[member].kind = "many" /\ Items = args[member].items
           /\ index_into_array = element - 1 /\ element \in 1..Member.size
           /\ Member.size \in Nat \ {0}
           /\ Iterator = [arg |-> member,
                          taken |-> IF element - 1 < Len(args[member].items)
                                    THEN element - 1 ELSE Len(args[member].items)]
           /\ Exhausted <=> ~(element <= Len(args[member].items))
           /\ ~Exhausted => Iterator.taken + 1 = element
<1>1. /\ member <= Len(args) /\ index + 1 = member /\ Argument = args[member]
      /\ Len(args[member].items) \in Nat
  BY ArgumentOfMember
<1>2. /\ element \in 1..Member.size /\ Member.size \in Nat \ {0}
  BY Structure DEF IInv, Building, Place, Member
<1>3. /\ index_into_array = element - 1
      /\ element > 1 =>
            /\ args[member].kind = "many"
            /\ iter = [arg |-> member,
                       taken |-> IF element - 1 < Len(args[member].items)
                                 THEN element - 1 ELSE Len(args[member].items)]
  BY <1>1 DEF IInv, Building, Tracks
<1>4. /\ args[member].kind = "many"
      /\ Iterator = [arg |-> member,
                     taken |-> IF element - 1 < Len(args[member].items)
                               THEN element - 1 ELSE Len(args[member].items)]
  <2>1. CASE element = 1
    BY <1>1, <1>3, <2>1 DEF Iterator
  <2>2. CASE element > 1
    BY <1>1, <1>2, <1>3, <2>2 DEF Iterator
  <2>. QED
    BY <1>2, <2>1, <2>2
<1>5. Items = args[member].items
  BY <1>4 DEF Items
<1>6. /\ Exhausted <=> ~(element <= Len(args[member].items))
      /\ ~Exhausted => Iterator.taken + 1 = element
  <2>1. Iterator.taken = IF element - 1 < Len(args[member].items)
                         THEN element - 1 ELSE Len(args[member].items)
    BY <1>4
  <2>. QED
    BY <1>1, <1>2, <1>5, <2>1 DEF Exhausted
<1>. QED
  BY <1>2, <1>3, <1>4, <1>5, <1>6

LEMMA ArrayElementInv == IInv /\ ArrayElement => IInv'
<1>. SUFFICES ASSUME IInv, ArrayElement PROVE IInv'
  OBVIOUS
<1>. DEFINE items == args[member].items
            k == Member.size
<1>1. /\ Building /\ Given /\ Member.form \in {"array", "pointers"}
      /\ index_into_array = 0 => Argument.kind = "many"
      /\ UNCHANGED <<class, args, stage>>
      /\ member <= Len(args) /\ Len(args) \in Nat /\ member \in Nat
      /\ index + 1 = member /\ index \in Nat
      /\ Len(items) \in Nat
  BY ArgumentOfMember DEF ArrayElement, Store
<1>2. /\ args[member].kind = "many" /\ Items = items
      /\ index_into_array = element - 1 /\ element \in 1..k /\ k \in Nat \ {0}
      /\ Iterator = [arg |-> member,
                     taken |-> IF element - 1 < Len(items) THEN element - 1 ELSE Len(items)]
      /\ Exhausted <=> ~(element <= Len(items))
      /\ ~Exhausted => Iterator.taken + 1 = element
  BY <1>1, IteratorOfMember
<1>3. /\ Fits(member, element) /\ Store(Expected(member, element))
      /\ iter' = [arg |-> member,
                  taken |-> IF element < Len(items) THEN element ELSE Len(items)]
  <2>1. CASE Exhausted
    <3>1. Expected(member, element) = Zero(Member.form)
      BY <1>2, <2>1 DEF Expected, Member
    <3>2. Fits(member, element)
      BY <1>1, <1>2, <2>1 DEF Fits, Member
    <3>3. Store(Zero(Member.form)) /\ iter' = Iterator
      BY <2>1 DEF ArrayElement
    <3>. QED
      BY <1>1, <1>2, <2>1, <3>1, <3>2, <3>3
  <2>2. CASE ~Exhausted
    <3>0. Iterator.taken + 1 = element /\ element <= Len(items)
      BY <1>2, <2>2
    <3>1. /\ Extractable(Member.form, items[element]) /\ Store(items[element])
          /\ iter' = [Iterator EXCEPT !.taken = element]
      BY <1>2, <2>2, <3>0 DEF ArrayElement
    <3>2. Expected(member, element) = items[element]
      BY <1>1, <3>0 DEF Expected
    <3>3. Fits(member, element)
      BY <1>1, <1>2, <3>1 DEF Fits, Member
    <3>4. iter' = [arg |-> member,
                   taken |-> IF element < Len(items) THEN element ELSE Len(items)]
      <4>1. element = IF element < Len(items) THEN element ELSE Len(items)
        BY <1>1, <1>2, <3>0
      <4>. QED
        BY <1>2, <3>1, <4>1
    <3>. QED
      BY <3>1, <3>2, <3>3, <3>4
  <2>. QED
    BY <2>1, <2>2
<1>4. Place' /\ Shaped' /\ Stored' /\ stage' = "building"
  BY <1>1, <1>3, StoreInv
<1>5. Tracks'
  <2>1. CASE element < k
    <3>1. element' = element + 1 /\ member' = member
      BY <1>3, <2>1 DEF Store
    <3>2. index_into_array' = index_into_array + 1 /\ index' = index
      BY <1>2, <2>1 DEF ArrayElement
    <3>3. Member' = Member
      BY <1>1, <3>1 DEF Member
    <3>4. index = IF member - 1 < Len(args) THEN member - 1 ELSE Len(args)
      BY <1>1
    <3>. QED
      BY <1>1, <1>2, <1>3, <3>1, <3>2, <3>3, <3>4 DEF Tracks, Building
  <2>2. CASE ~(element < k)
    <3>1. element' = 1 /\ member' = member + 1
      BY <1>3, <2>2 DEF Store
    <3>2. index_into_array' = 0 /\ index' = index + 1
      BY <1>2, <2>2 DEF ArrayElement
    <3>. QED
      BY <1>1, <3>1, <3>2 DEF Tracks
  <2>. QED
    BY <2>1, <2>2
<1>. QED
  BY <1>4, <1>5 DEF IInv, Stages, ConstructedAsGiven, Stored

LEMMA RefuseInv == IInv /\ Refuse => IInv'
<1>. SUFFICES ASSUME IInv, Refuse PROVE IInv'
  OBVIOUS
<1>1. /\ Building /\ Given /\ member <= Len(args) /\ Argument = args[member]
      /\ stage' = "raised" /\ UNCHANGED <<class, args, member, element>>
      /\ args[member].kind \in {"one", "many"} /\ Len(args[member].items) \in Nat
      /\ args[member].kind = "one" => Len(args[member].items) = 1
  BY ArgumentOfMember DEF Refuse
<1>2. ~Fits(member, element)
  <2>1. CASE Member.form \in {"value", "pointer"}
    <3>1. element = 1
      BY <1>1, <2>1, Structure DEF IInv, Building, Place, Member
    <3>. QED
      BY <1>1, <2>1, <3>1 DEF Refuse, Fits, Member
  <2>2. CASE Member.form \notin {"value", "pointer"} /\ index_into_array = 0 /\ Argument.kind # "many"
    BY <1>1, <2>2 DEF Fits, Member
  <2>3. CASE /\ Member.form \notin {"value", "pointer"}
             /\ index_into_array = 0 => Argument.kind = "many"
    <3>1. Member.form \in {"array", "pointers"}
      BY <1>1, <2>3, Structure DEF IInv, Building, Place, Member, Forms
    <3>2. ~Exhausted /\ ~Extractable(Member.form, Items[Iterator.taken + 1])
      BY <2>3 DEF Refuse
    <3>3. /\ Items = args[member].items /\ Iterator.taken + 1 = element
          /\ element <= Len(args[member].items)
      BY <1>1, <2>3, <3>1, <3>2, IteratorOfMember
    <3>. QED
      BY <1>1, <3>2, <3>3 DEF Fits, Member
  <2>. QED
    BY <2>1, <2>2, <2>3
<1>. QED
  BY <1>1, <1>2 DEF IInv, Stages, ConstructedAsGiven, Fits

LEMMA FinishInv == IInv /\ Finish => IInv'
<1>. SUFFICES ASSUME IInv, Finish PROVE IInv'
  OBVIOUS
<1>1. /\ stage = "building" /\ stage' = "built" /\ member \notin Members(class)
      /\ UNCHANGED <<class, args, member, element, struct>>
      /\ Place /\ Stored
  BY DEF Finish, IInv
<1>2. member > Len(Layout[class])
  BY <1>1, Structure DEF Place
<1>. QED
  BY <1>1, <1>2 DEF IInv, Stages, ConstructedAsGiven, Stored, Members, Cells,
                    Before, Expected, Fits

-----------------------------------------------------------------------------
\* The other statements have no constructor under way.
LEMMA OthersInv ==
    /\ IInv
    /\ \/ stage = "idle" /\ \E c \in DOMAIN Layout : Receive(c)
       \/ Statement
       \/ GetMap
       \/ UNCHANGED vars
    => IInv'
<1>. SUFFICES ASSUME IInv, 
                     \/ stage = "idle" /\ \E c \in DOMAIN Layout : Receive(c)
                     \/ Statement
                     \/ GetMap
                     \/ UNCHANGED vars
              PROVE  IInv'
  OBVIOUS
<1>1. CASE stage' \in {"received", "used"}
  BY <1>1 DEF IInv, Stages, ConstructedAsGiven
<1>2. CASE UNCHANGED initVars
  BY <1>2 DEF IInv, initVars, Stages, ConstructedAsGiven, Place, Tracks, Shaped, Stored,
              Before, Expected, Fits, Members, Cells, Member
<1>. QED
  BY <1>1, <1>2 DEF Receive, Statement, Assign, AssignElement, GetMap, vars, bindingVars

LEMMA NextInv == IInv /\ [Next]_vars => IInv'
  BY ConstructInv, MissingInv, SingleInv, ArrayElementInv, RefuseInv, FinishInv, OthersInv
     DEF Next, BindingsNext, Constructing, Build

LEMMA Invariant == Spec => []IInv
  BY InitInv, NextInv, PTL DEF Spec

\* make_init_function, for every class and all arguments: each argument ends in
\* the member of its place and each item of it in the element of its place, the
\* rest is T{}, and an argument that does not fit ends it with an exception.
THEOREM Constructed == Spec => []ConstructedAsGiven
  BY Invariant, PTL DEF IInv

-----------------------------------------------------------------------------
LEMMA BuildingTypes ==
    ASSUME IInv, stage = "building", statements \in 0..MaxStatements
    PROVE  TypeOK
<1>1. Place /\ Tracks /\ Shaped
  BY DEF IInv
<1>2. Len(args) \in Nat /\ member \in Nat /\ member \in 1..Len(Layout[class]) + 1
  BY <1>1, CallsAssumption, LayoutAssumption, Structure DEF Place
<1>3. index \in 0..Len(args)
  <2>. DEFINE n == Len(args)
  <2>1. n \in Nat /\ member \in Nat \ {0} /\ index = IF member - 1 < n THEN member - 1 ELSE n
    BY <1>1, <1>2, Structure DEF Tracks, Place
  <2>. HIDE DEF n
  <2>2. index \in 0..n
    BY <2>1
  <2>. QED
    BY <2>2 DEF n
<1>4. ASSUME member \in Members(class)
      PROVE  /\ element \in Cells(class, member)
             /\ index_into_array \in 0..Layout[class][member].size - 1
  <2>1. /\ element \in Cells(class, member) /\ element \in 1..Layout[class][member].size
        /\ Layout[class][member].size \in Nat \ {0}
    BY <1>1, <1>4, Structure DEF Place
  <2>2. index_into_array = element - 1 \/ index_into_array = 0
    BY <1>1 DEF Tracks
  <2>. QED
    BY <2>1, <2>2
<1>. QED
  BY <1>1, <1>2, <1>3, <1>4 DEF TypeOK, Place, Shaped

OtherTypes == statements \in 0..MaxStatements /\ (stage # "building" => TypeOK)

LEMMA OtherTypesInit == InitMap => OtherTypes
  BY StatementsAssumption
     DEF InitMap, Init, InitStructs, OtherTypes, TypeOK

LEMMA OtherTypesInv == IInv /\ OtherTypes /\ [Next]_vars => OtherTypes'
<1>. SUFFICES ASSUME IInv, OtherTypes, [Next]_vars PROVE OtherTypes'
  OBVIOUS
<1>0. TypeOK /\ statements \in 0..MaxStatements
  BY BuildingTypes DEF OtherTypes
<1>1. CASE stage' = "building" /\ statements' = statements
  BY <1>0, <1>1 DEF OtherTypes
<1>2. CASE (Refuse \/ Finish) /\ statements' = statements
  <2>1. /\ stage = "building" /\ stage' \in {"built", "raised"}
        /\ UNCHANGED <<class, args, index, struct>>
    BY <1>2 DEF Refuse, Finish, Building
  <2>2. Shaped /\ class \in DOMAIN Layout /\ index \in 0..Len(args)
    BY <1>0, <2>1 DEF TypeOK, Shaped
  <2>3. Shaped' /\ class' \in DOMAIN Layout /\ index' \in 0..Len(args')
    BY <2>1, <2>2 DEF Shaped, Members, Cells
  <2>. QED
    BY <1>0, <1>2, <2>1, <2>3 DEF OtherTypes, TypeOK, Shaped
<1>3. CASE stage = "idle" /\ \E c \in DOMAIN Layout : Receive(c)
  <2>1. PICK c \in DOMAIN Layout : stage = "idle" /\ Receive(c)
    BY <1>3
  <2>2. PICK null : struct' = Received(c, null)
    BY <2>1 DEF Receive
  <2>3. index = 0 /\ args = <<>> /\ UNCHANGED <<index, args, statements>>
        /\ stage' = "received" /\ class' = c
    BY <2>1 DEF Receive, IInv
  <2>4. Shaped'
    BY <2>1, <2>2, <2>3 DEF Shaped, Received, Members, Cells
  <2>5. 0 \in 0..Len(args')
    BY <2>3
  <2>. QED
    BY <1>0, <2>1, <2>3, <2>4, <2>5 DEF OtherTypes, TypeOK, Shaped
<1>4. CASE Statement
  <2>1. /\ stage' = "used" /\ statements' = statements + 1 /\ statements < MaxStatements
        /\ UNCHANGED <<class, args, index>>
    BY <1>4 DEF Statement, Assign, AssignElement
  <2>2. PICK m, e, x : struct' = [struct EXCEPT ![m][e] = x]
    BY <1>4 DEF Statement, Assign, AssignElement
  <2>3. /\ DOMAIN struct' = DOMAIN struct
        /\ \A i \in DOMAIN struct : DOMAIN struct'[i] = DOMAIN struct[i]
    BY <2>2
  <2>4. Shaped
    BY <1>0, <1>4 DEF Statement, Using, Shaped, TypeOK
  <2>5. statements' \in 0..MaxStatements
    BY <1>0, <2>1, StatementsAssumption
  <2>. QED
    BY <1>0, <2>1, <2>3, <2>4, <2>5 DEF OtherTypes, TypeOK, Shaped, Members, Cells
<1>5. CASE UNCHANGED bindingVars
  BY <1>0, <1>5 DEF OtherTypes, TypeOK, bindingVars, initVars, Members, Cells
<1>. QED
  BY <1>1, <1>2, <1>3, <1>4, <1>5
     DEF Next, vars, BindingsNext, Constructing, Build, ConstructAny, Construct,
         Missing, Single, ArrayElement, Store, GetMap, Building

\* Every call of populate_helper is for a cell that exists.
THEOREM TypeCorrect == Spec => []TypeOK
<1>1. IInv /\ OtherTypes => TypeOK
  BY BuildingTypes DEF OtherTypes
<1>. QED
  BY <1>1, Invariant, OtherTypesInit, OtherTypesInv, PTL DEF Spec
-----------------------------------------------------------------------------
\* get_map.

Binds(c, keys) == {keys[key] : key \in DOMAIN keys} \subseteq Attributes(c)

\* The classes have attributes of all the names that get_map reads.
NamesBound ==
    /\ Binds("RsComm", ConnectionKeys)
    /\ {"clientUser", "proxyUser"} \subseteq Attributes("RsComm")
    /\ Binds("DataObjInfo", DataObjectKeys) /\ Binds("DataObjInfo", EitherKeys)
    /\ Binds("DataObjInp", EitherKeys) /\ "oprType" \in Attributes("DataObjInp")
    /\ Binds("CollInfo", CollectionKeys)
    /\ UserAttributes \cup {"authInfo", "userOtherInfo"} \subseteq Attributes("UserInfo")
    /\ AuthAttributes \subseteq Attributes("AuthInfo")
    /\ OtherAttributes \subseteq Attributes("UserOtherInfo")
    /\ {"len", "key", "value"} \subseteq Attributes("KeyValPair")
    /\ {"pluginInstanceName", "status"} \subseteq Attributes("RuleExecInfo")

\* The map there is is one of the object as it is now.
MapOfObject == map # <<>> => map = Parts /\ class = "RuleExecInfo"

LEMMA MapInv == MapOfObject /\ [Next]_vars => MapOfObject'
<1>. SUFFICES ASSUME MapOfObject, [Next]_vars PROVE MapOfObject'
  OBVIOUS
<1>1. CASE map' = <<>>
  BY <1>1 DEF MapOfObject
<1>2. ASSUME UNCHANGED <<class, struct>> PROVE Parts' = Parts
  BY <1>2 DEF Parts, Connection, ObjectOfEither, DataObject, Collection, Users, Others,
              Pairs, Of, User, UserStruct, Get, Has, Pointee, Bound, Members, Attributes
<1>3. CASE GetMap
  BY <1>2, <1>3 DEF GetMap, MapOfObject, bindingVars, initVars
<1>4. CASE UNCHANGED vars
  BY <1>2, <1>4 DEF vars, MapOfObject, bindingVars, initVars
<1>. QED
  BY <1>1, <1>3, <1>4 DEF Next

\* What an expression gives is one thing of four.
LEMMA FourKinds ==
    /\ NoValue # Raised /\ Undefined # Raised /\ Undefined # NoValue
    /\ \A path : /\ ReadThrough(path) # Raised
                 /\ ReadThrough(path) # NoValue
                 /\ ReadThrough(path) # Undefined
<1>1. /\ NoValue.kind # Raised.kind /\ Undefined.kind # Raised.kind
      /\ Undefined.kind # NoValue.kind
  BY DEF NoValue, Raised, Undefined
<1>2. \A path : /\ ReadThrough(path).kind # Raised.kind
                /\ ReadThrough(path).kind # NoValue.kind
                /\ ReadThrough(path).kind # Undefined.kind
  BY DEF ReadThrough, NoValue, Raised, Undefined
<1>. QED
  BY <1>1, <1>2

IsRead(value) == value # Raised /\ value # NoValue /\ value # Undefined

\* A part that is there gives all its attributes.
LEMMA PartsRead ==
    ASSUME NEW part \in DOMAIN Target, NEW attr \in Attributes(Target[part]), Has(part)
    PROVE  IsRead(Get(part, attr))
  BY FourKinds DEF Get, IsRead

\* What MapComplete says of a value that may come from some objects.
Proper(value, objects) ==
    /\ value # Raised
    /\ value = NoValue <=> \A object \in objects : ~IsThere(object)
    /\ value # Undefined

LEMMA OfParts ==
    ASSUME NEW part \in DOMAIN Target, part # "rei", NEW keys, Binds(Target[part], keys),
           NEW key \in DOMAIN keys
    PROVE  Proper(Of(part, keys)[key], {part})
<1>1. keys[key] \in Attributes(Target[part])
  BY DEF Binds
<1>. QED
  BY <1>1, PartsRead, FourKinds DEF Of, Proper, IsRead, IsThere

LEMMA UsersRead ==
    ASSUME NamesBound, NEW part \in {"uoic", "uoip"}, NEW user \in {"clientUser", "proxyUser"}
    PROVE  Proper(User(part, user), {part, "rsComm"})
<1>1. \A path : IsRead(UserStruct(path))
  BY FourKinds DEF UserStruct, NamesBound, IsRead
<1>2. Has("rsComm") => Get("rsComm", user) # Raised
  <2>1. "rsComm" \in DOMAIN Target /\ Target["rsComm"] = "RsComm"
    BY DEF Target
  <2>. QED
    BY <2>1, PartsRead DEF NamesBound, IsRead
<1>. QED
  BY <1>1, <1>2, FourKinds DEF User, Proper, IsRead, IsThere

\* Whatever the object is and whatever has been assigned to it, get_map raises
\* nothing and gives every value whose object is there: for any classes that have
\* the attributes it reads.
THEOREM MapsComplete == NamesBound => (Spec => []MapComplete)
<1>. SUFFICES ASSUME NamesBound PROVE Spec => []MapComplete
  OBVIOUS
<1>1. InitMap => MapOfObject
  BY DEF InitMap, MapOfObject
<1>2. MapOfObject => MapComplete
  <2>. SUFFICES ASSUME MapOfObject, map # <<>>,
                       NEW part \in DOMAIN Sources, NEW key \in DOMAIN Sources[part]
                PROVE  /\ map[part][key] # Raised
                       /\ map[part][key] = NoValue
                             <=> \A object \in Sources[part][key] : ~IsThere(object)
                       /\ map[part][key] = Undefined => Pointee("condInputData") \in Unbacked
    BY DEF MapComplete
  <2>1. /\ map = Parts /\ class = "RuleExecInfo"
    BY DEF MapOfObject
  <2>2. /\ Target["rsComm"] = "RsComm" /\ Target["doinp"] = "DataObjInp"
        /\ Target["doi"] = "DataObjInfo" /\ Target["coi"] = "CollInfo"
        /\ Target["condInputData"] = "KeyValPair"
        /\ {"rsComm", "doinp", "doi", "coi", "condInputData"} \subseteq DOMAIN Target
    BY DEF Target
  <2>3. CASE part = "connection"
    <3>1. Proper(Connection[key], {"rsComm"})
      BY <2>2, <2>3, OfParts DEF NamesBound, Connection, Sources
    <3>. QED
      BY <2>1, <2>3, <3>1 DEF Parts, Sources, Proper
  <2>4. CASE part = "data_object"
    <3>1. Proper(DataObject[key], {"doi"})
      BY <2>2, <2>4, OfParts DEF NamesBound, DataObject, Sources
    <3>. QED
      BY <2>1, <2>4, <3>1 DEF Parts, Sources, Proper
  <2>5. CASE part = "collection"
    <3>1. Proper(Collection[key], {"coi"})
      BY <2>2, <2>5, OfParts DEF NamesBound, Collection, Sources
    <3>. QED
      BY <2>1, <2>5, <3>1 DEF Parts, Sources, Proper
  <2>6. CASE part = "either"
    <3>1. key \in DOMAIN EitherKeys /\ Sources[part][key] = {"doi", "doinp"}
      BY <2>6 DEF Sources
    <3>2. /\ EitherKeys[key] \in Attributes("DataObjInfo")
          /\ EitherKeys[key] \in Attributes("DataObjInp")
      BY <3>1 DEF NamesBound, Binds
    <3>3. Proper(ObjectOfEither[key], {"doi", "doinp"})
      BY <2>2, <3>1, <3>2, PartsRead, FourKinds DEF ObjectOfEither, Proper, IsRead, IsThere
    <3>. QED
      BY <2>1, <2>6, <3>1, <3>3 DEF Parts, Proper
  <2>7. CASE part = "users"
    <3>1. /\ Proper(User("uoic", "clientUser"), {"uoic", "rsComm"})
          /\ Proper(User("uoip", "proxyUser"), {"uoip", "rsComm"})
      BY UsersRead
    <3>2. Proper(Users.other_user, {"uoio"})
      BY FourKinds DEF Users, UserStruct, NamesBound, Proper, IsThere
    <3>3. key \in {"client_user", "proxy_user", "other_user"}
      BY <2>7 DEF Sources
    <3>4. Proper(Users[key], Sources[part][key])
      <4>1. CASE key = "client_user"
        BY <2>7, <3>1, <4>1 DEF Users, Sources
      <4>2. CASE key = "proxy_user"
        BY <2>7, <3>1, <4>2 DEF Users, Sources
      <4>3. CASE key = "other_user"
        BY <2>7, <3>2, <4>3 DEF Sources
      <4>. QED
        BY <3>3, <4>1, <4>2, <4>3
    <3>. QED
      BY <2>1, <2>7, <3>4 DEF Parts, Proper
  <2>8. CASE part = "others"
    <3>1. key \in {"operation_type", "key_value_pairs", "plugin_instance_name", "status"}
      BY <2>8 DEF Sources
    <3>2. CASE key = "operation_type"
      <4>1. Proper(Others.operation_type, {"doinp"})
        BY <2>2, PartsRead, FourKinds DEF Others, NamesBound, Proper, IsRead, IsThere
      <4>. QED
        BY <2>1, <2>8, <3>2, <4>1 DEF Parts, Sources, Proper
    <3>3. CASE key = "key_value_pairs"
      <4>1. Has("condInputData") =>
               \A attr \in {"len", "key", "value"} : Get("condInputData", attr) # Raised
        BY <2>2, PartsRead DEF NamesBound, IsRead
      <4>2. /\ Pairs # Raised
            /\ Pairs = NoValue <=> ~Has("condInputData")
            /\ Pairs = Undefined => Pointee("condInputData") \in Unbacked
        BY <4>1, FourKinds DEF Pairs
      <4>3. map[part][key] = Pairs /\ Sources[part][key] = {"condInputData"}
        BY <2>1, <2>8, <3>3 DEF Parts, Others, Sources
      <4>. QED
        BY <4>2, <4>3 DEF IsThere
    <3>4. CASE key \in {"plugin_instance_name", "status"}
      <4>1. Proper(Others[key], {"rei"})
        BY <2>1, <3>4, FourKinds DEF Others, NamesBound, Proper, IsThere
      <4>2. Sources[part][key] = {"rei"}
        BY <2>8, <3>4 DEF Sources
      <4>. QED
        BY <2>1, <2>8, <4>1, <4>2 DEF Parts, Proper
    <3>. QED
      BY <3>1, <3>2, <3>3, <3>4
  <2>. QED
    BY <2>3, <2>4, <2>5, <2>6, <2>7, <2>8 DEF Sources
<1>. QED
  BY <1>1, <1>2, MapInv, PTL DEF Spec
=============================================================================
