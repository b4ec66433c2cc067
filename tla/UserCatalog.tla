----------------------------- MODULE UserCatalog -----------------------------
(***************************************************************************)
(* What the policies that change the catalog promise, with no steps, no    *)
(* transaction and no failures: what is committed changes by a whole user, *)
(* who comes with everything or goes with it, or by a whole zone.          *)
(***************************************************************************)
CONSTANTS Users, Zones,
          Parts     \* what belongs to a user

VARIABLE catalog

Init ==
    \E z \in Zones : catalog = [has |-> [u \in Users |-> {}], root |-> z, zone |-> z]

CreateUser(u) ==
    /\ catalog.has[u] = {}
    /\ catalog' = [catalog EXCEPT !.has[u] = Parts]

DeleteUser(u) ==
    /\ catalog.has[u] = Parts
    /\ catalog' = [catalog EXCEPT !.has[u] = {}]

RenameLocalZone(z) == catalog' = [catalog EXCEPT !.root = z, !.zone = z]

Next ==
    \/ \E u \in Users : CreateUser(u) \/ DeleteUser(u)
    \/ \E z \in Zones : RenameLocalZone(z)

Spec == Init /\ [][Next]_catalog
=============================================================================
