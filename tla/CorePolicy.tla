----------------------------- MODULE CorePolicy -----------------------------
(***************************************************************************)
(* The static policies of core.py.template that change the catalog in      *)
(* several steps: acCreateUser, acDeleteUser and acRenameLocalZone.  Each  *)
(* calls microservices one after the other through callback and ends with  *)
(* msiCommit; after a step that did not succeed it calls msiRollback.      *)
(*                                                                         *)
(* callback answers with a dictionary only when the microservice succeeded *)
(* or returned CAT_NO_ROWS_FOUND ("status" is false then); any other error *)
(* is raised as RuntimeError and ends the policy (RuleCallWrapper::call).  *)
(***************************************************************************)
EXTENDS Naturals, Sequences

CONSTANTS
    Users,          \* names of users that are created and deleted
    Zones,          \* names the local zone may have
    MayMiss,        \* steps that may return CAT_NO_ROWS_FOUND at any time
    HostRollsBack   \* does the server roll back after a policy that failed?

Policies == {"acCreateUser", "acDeleteUser", "acRenameLocalZone"}

\* The microservices of each policy in order; acCreateUserZoneCollections and
\* acDeleteUserZoneCollections do the home and then the trash collection.
Plan ==
    [acCreateUser |-> <<"createUser", "createHome", "createTrash", "addToGroup">>,
     acDeleteUser |-> <<"deleteHome", "deleteTrash", "deleteUser">>,
     acRenameLocalZone |-> <<"renameCollection", "renameZone">>]

\* Variant: the policy looks at the answer of its last call only.
TestedLast == {"addToGroup", "deleteUser", "renameZone"}

\* The steps after whose miss a policy rolls back: it tests the answer of every
\* call it makes itself.  Of the two collections it is shown the second answer
\* only (ret is overwritten); and when they are deleted neither, because
\* acDeleteDefaultCollections is called through callback, and exec_rule takes
\* the dictionary it returns for success.
Tested == {"createUser", "createTrash", "addToGroup", "deleteUser",
           "renameCollection", "renameZone"}

Microservices == UNION {{Plan[p][i] : i \in 1..Len(Plan[p])} : p \in Policies}

ASSUME MayMissAssumption == MayMiss \subseteq Microservices
ASSUME HostAssumption == HostRollsBack \in BOOLEAN

VARIABLES
    policy,     \* the policy in progress, or the latest one
    user,       \* the user it is about
    zone,       \* the new name of the zone
    next,       \* index of its next step
    saved,      \* the catalog as of the latest commit
    work,       \* the catalog as the open transaction sees it
    outcome     \* "running", or what the host was told: "success", "error"

vars == <<policy, user, zone, next, saved, work, outcome>>

Parts == {"user", "home", "trash", "public"}

\* root is the name of the zone's collection, zone that of the zone itself.
Catalog == [has : [Users -> SUBSET Parts], root : Zones, zone : Zones]

Init ==
    /\ policy \in Policies
    /\ user \in Users
    /\ zone \in Zones
    /\ next = 1
    /\ \E z \in Zones : saved = [has |-> [u \in Users |-> {}], root |-> z, zone |-> z]
    /\ work = saved
    /\ outcome = "success"

Running == outcome = "running"
HasStep == Running /\ next <= Len(Plan[policy])
Step == Plan[policy][next]

\* The catalog change of a step (the microservices are not in this repository).
Effect(step) ==
    CASE step = "createUser"       -> [work EXCEPT !.has[user] = @ \cup {"user"}]
      [] step = "createHome"       -> [work EXCEPT !.has[user] = @ \cup {"home"}]
      [] step = "createTrash"      -> [work EXCEPT !.has[user] = @ \cup {"trash"}]
      [] step = "addToGroup"       -> [work EXCEPT !.has[user] = @ \cup {"public"}]
      [] step = "deleteHome"       -> [work EXCEPT !.has[user] = @ \ {"home"}]
      [] step = "deleteTrash"      -> [work EXCEPT !.has[user] = @ \ {"trash"}]
      [] step = "deleteUser"       -> [work EXCEPT !.has[user] = @ \ {"user", "public"}]
      [] step = "renameCollection" -> [work EXCEPT !.root = zone]
      [] step = "renameZone"       -> [work EXCEPT !.zone = zone]

\* A user is created once; a collection is deleted when it is there.
Possible(step) ==
    /\ step = "createUser" => "user" \notin work.has[user]
    /\ step = "deleteUser" => "user" \in work.has[user]
    /\ step = "deleteHome" => "home" \in work.has[user]
    /\ step = "deleteTrash" => "trash" \in work.has[user]

-----------------------------------------------------------------------------
\* Variant: steps are counted from 0.
FireAtZero ==
    /\ ~Running
    /\ policy' \in Policies
    /\ user' \in Users
    /\ zone' \in Zones
    /\ next' = 0
    /\ outcome' = "running"
    /\ UNCHANGED <<saved, work>>

\* The host fires a policy.
Fire ==
    /\ ~Running
    /\ policy' \in Policies
    /\ user' \in Users
    /\ zone' \in Zones
    /\ next' = 1
    /\ outcome' = "running"
    /\ UNCHANGED <<saved, work>>

StepSucceeds ==
    /\ HasStep
    /\ Possible(Step)
    /\ work' = Effect(Step)
    /\ next' = next + 1
    /\ UNCHANGED <<policy, user, zone, saved, outcome>>

\* CAT_NO_ROWS_FOUND: msiRollback, and "return ret" with a dictionary, which
\* exec_rule takes for success; or the policy goes on.
StepMisses ==
    /\ HasStep
    /\ Step \in MayMiss \/ (Step \in {"deleteHome", "deleteTrash"} /\ ~Possible(Step))
    /\ IF Step \in Tested
       THEN /\ work' = saved
            /\ outcome' = "success"
            /\ UNCHANGED next
       ELSE /\ next' = next + 1
            /\ UNCHANGED <<work, outcome>>
    /\ UNCHANGED <<policy, user, zone, saved>>

\* Any other error of a step, or of msiCommit, leaves the policy as an
\* exception: no line after the call runs.
PolicyRaises ==
    /\ Running
    /\ outcome' = "error"
    /\ work' = IF HostRollsBack THEN saved ELSE work
    /\ UNCHANGED <<policy, user, zone, next, saved>>

\* callback.msiCommit()
Commit ==
    /\ Running /\ ~HasStep
    /\ saved' = work
    /\ outcome' = "success"
    /\ UNCHANGED <<policy, user, zone, next, work>>

Next == Fire \/ StepSucceeds \/ StepMisses \/ PolicyRaises \/ Commit

Spec == Init /\ [][Next]_vars

-----------------------------------------------------------------------------
\* The type invariant; a policy runs its steps from the first to the last.
TypeOK ==
    /\ policy \in Policies /\ user \in Users /\ zone \in Zones
    /\ next \in 1..(Len(Plan[policy]) + 1)
    /\ saved \in Catalog
    /\ work \in Catalog
    /\ outcome \in {"running", "success", "error"}

\* After every commit a user has an account, both collections and the group,
\* or nothing of it, and the zone's collection bears the zone's name.
CatalogConsistent ==
    /\ \A u \in Users : saved.has[u] \in {{}, Parts}
    /\ saved.root = saved.zone

\* Committed is always what whole policies did one after the other, whatever
\* their steps found, whichever of them was broken off and whatever came between:
\* nothing of a policy that did not get to its msiCommit is committed by the next.
Whole == INSTANCE UserCatalog WITH catalog <- saved

PoliciesWhole == Whole!Spec

\* A policy of which a step failed leaves no change behind for a later commit
\* of the same agent: what its msiRollback lines are for.
FailureRollsBack == outcome = "error" => work = saved
=============================================================================
