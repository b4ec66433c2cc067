--------------------------- MODULE StructBindings ---------------------------
(***************************************************************************)
(* The Python classes of irods_types at work: an object is constructed, or *)
(* comes from the server, and is read and assigned to by the names of its  *)
(* attributes.  Which member an attribute is bound to, and how, is in      *)
(* StructTables.                                                           *)
(***************************************************************************)
EXTENDS InitStruct

CONSTANTS
    New,            \* values that are assigned
    MaxStatements   \* bound: assignments to one object

ASSUME StatementsAssumption == New \subseteq Values /\ MaxStatements \in Nat

VARIABLE statements  \* assignments so far

bindingVars == <<initVars, statements>>

Init == InitStructs /\ statements = 0

Using == stage \in {"built", "received", "used"}

\* The member an attribute is bound to.
Bound(attr) == {m \in Members(class) : attr \in Layout[class][m].attrs}

Attributes(c) == UNION {Layout[c][m].attrs : m \in Members(c)}

\* obj.attr of a member that is a pointer: what it points to, or None.
Pointee(attr) == struct[CHOOSE m \in Bound(attr) : TRUE][1]

Constructing == (ConstructAny \/ Build) /\ UNCHANGED statements

\* An object made by the server: every member has a value of its own; of the
\* pointers those in null are not set.
Received(c, null) ==
    [m \in Members(c) |-> [e \in Cells(c, m) |->
        IF m \in null THEN Null ELSE <<m, e>>]]

Receive(c) ==
    /\ stage' = "received" /\ class' = c
    /\ \E null \in SUBSET {m \in Members(c) : Layout[c][m].access = "reference"} :
          struct' = Received(c, null)
    /\ UNCHANGED <<args, member, element, index, index_into_array, iter, statements>>

\* What can be assigned to: def_readwrite, and make_setter for a pointer, which
\* takes None too.
Assignable(m, x) ==
    \/ Layout[class][m].access = "writable" /\ x \in New
    \/ Layout[class][m].access = "reference" /\ x \in New \cup {Null}

\* obj.attr = x.  To any other attribute it raises.
Assign(attr, x) ==
    /\ statements' = statements + 1
    /\ \E m \in Bound(attr) :
          /\ Assignable(m, x)
          /\ struct' = [struct EXCEPT ![m][1] = x]
    /\ stage' = "used"
    /\ UNCHANGED <<class, args, member, element, index, index_into_array, iter>>

\* obj.attr[e] = x: an array_ref shows the cells themselves.
AssignElement(attr, e, x) ==
    /\ statements' = statements + 1
    /\ \E m \in Bound(attr) :
          /\ Layout[class][m].access = "view" /\ e \in Cells(class, m)
          /\ struct' = [struct EXCEPT ![m][e] = x]
    /\ stage' = "used"
    /\ UNCHANGED <<class, args, member, element, index, index_into_array, iter>>

Statement ==
    /\ Using /\ statements < MaxStatements
    /\ \E attr \in Attributes(class) :
          \/ \E x \in New \cup {Null} : Assign(attr, x)
          \/ \E m \in Bound(attr) : \E e \in Cells(class, m) : \E x \in New :
                AssignElement(attr, e, x)

BindingsNext ==
    \/ Constructing
    \/ stage = "idle" /\ \E c \in DOMAIN Layout : Receive(c)
    \/ Statement

BindingsSpec == Init /\ [][BindingsNext]_bindingVars
=============================================================================
