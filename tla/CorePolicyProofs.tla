--------------------------- MODULE CorePolicyProofs ---------------------------
(***************************************************************************)
(* Proofs about the static policies, for any users and zone names: what is *)
(* committed is consistent, given what the policies rely on.               *)
(***************************************************************************)
EXTENDS CorePolicy, TLAPS

\* The server rolls back after a policy that failed, and a microservice whose
\* answer the policy does not look at finds no rows only where there are none.
ReliableServer == HostRollsBack /\ MayMiss \subseteq Tested

\* What a policy has done before its step n.
CreatedBefore(n) ==
    {p \in Parts : \/ p = "user" /\ n > 1
                   \/ p = "home" /\ n > 2
                   \/ p = "trash" /\ n > 3
                   \/ p = "public" /\ n > 4}

DeletedBefore(n) ==
    {p \in Parts : \/ p = "home" /\ n > 1
                   \/ p = "trash" /\ n > 2
                   \/ p \in {"user", "public"} /\ n > 3}

\* A catalog in which user u has the parts S more, or less; in which the zone and
\* its collection have other names.
Adds(c, u, S) == [c EXCEPT !.has[u] = @ \cup S]
Removes(c, u, S) == [c EXCEPT !.has[u] = @ \ S]
Renames(c, r, z) == [c EXCEPT !.root = r, !.zone = z]

\* The open transaction is the committed catalog and what the policy in progress
\* has done to it; a user is created only where nothing of it was.
Progress ==
    /\ policy = "acCreateUser" =>
          /\ work = Adds(saved, user, CreatedBefore(next))
          /\ next > 1 => saved.has[user] = {}
    /\ policy = "acDeleteUser" =>
          work = Removes(saved, user, DeletedBefore(next))
    /\ policy = "acRenameLocalZone" =>
          work = Renames(saved, IF next > 1 THEN zone ELSE saved.root,
                                IF next > 2 THEN zone ELSE saved.zone)

\* With the server as above, nothing is left in the transaction between policies.
Transaction ==
    ReliableServer =>
       /\ CatalogConsistent
       /\ Running => Progress
       /\ ~Running => work = saved

IInv == TypeOK /\ Transaction

LEMMA Plans ==
    /\ Plan["acCreateUser"] = <<"createUser", "createHome", "createTrash", "addToGroup">>
    /\ Plan["acDeleteUser"] = <<"deleteHome", "deleteTrash", "deleteUser">>
    /\ Plan["acRenameLocalZone"] = <<"renameCollection", "renameZone">>
    /\ \A p \in Policies :
          Len(Plan[p]) = IF p = "acCreateUser" THEN 4 ELSE IF p = "acDeleteUser" THEN 3 ELSE 2
<1>1. /\ Plan["acCreateUser"] = <<"createUser", "createHome", "createTrash", "addToGroup">>
      /\ Plan["acDeleteUser"] = <<"deleteHome", "deleteTrash", "deleteUser">>
      /\ Plan["acRenameLocalZone"] = <<"renameCollection", "renameZone">>
  BY DEF Plan
<1>. QED
  BY <1>1 DEF Policies

\* The steps of each policy in their order.
LEMMA StepOf ==
    ASSUME TypeOK, HasStep
    PROVE  \/ /\ policy = "acCreateUser"
              /\ \/ next = 1 /\ Step = "createUser"
                 \/ next = 2 /\ Step = "createHome"
                 \/ next = 3 /\ Step = "createTrash"
                 \/ next = 4 /\ Step = "addToGroup"
           \/ /\ policy = "acDeleteUser"
              /\ \/ next = 1 /\ Step = "deleteHome"
                 \/ next = 2 /\ Step = "deleteTrash"
                 \/ next = 3 /\ Step = "deleteUser"
           \/ /\ policy = "acRenameLocalZone"
              /\ \/ next = 1 /\ Step = "renameCollection"
                 \/ next = 2 /\ Step = "renameZone"
<1>1. next \in 1..Len(Plan[policy]) /\ policy \in Policies
  BY Plans DEF TypeOK, HasStep
<1>2. CASE policy = "acCreateUser"
  <2>1. next \in 1..4
    BY <1>1, <1>2, Plans
  <2>. QED
    BY <1>2, <2>1, Plans DEF Step
<1>3. CASE policy = "acDeleteUser"
  <2>1. next \in 1..3
    BY <1>1, <1>3, Plans
  <2>. QED
    BY <1>3, <2>1, Plans DEF Step
<1>4. CASE policy = "acRenameLocalZone"
  <2>1. next \in 1..2
    BY <1>1, <1>4, Plans
  <2>. QED
    BY <1>4, <2>1, Plans DEF Step
<1>. QED
  BY <1>1, <1>2, <1>3, <1>4 DEF Policies

\* What each step does to the catalog.
LEMMA Effects ==
    /\ Effect("createUser") = Adds(work, user, {"user"})
    /\ Effect("createHome") = Adds(work, user, {"home"})
    /\ Effect("createTrash") = Adds(work, user, {"trash"})
    /\ Effect("addToGroup") = Adds(work, user, {"public"})
    /\ Effect("deleteHome") = Removes(work, user, {"home"})
    /\ Effect("deleteTrash") = Removes(work, user, {"trash"})
    /\ Effect("deleteUser") = Removes(work, user, {"user", "public"})
    /\ Effect("renameCollection") = [work EXCEPT !.root = zone]
    /\ Effect("renameZone") = [work EXCEPT !.zone = zone]
<1>1. Effect("createUser") = Adds(work, user, {"user"})
  BY DEF Effect, Adds, Removes
<1>2. Effect("createHome") = Adds(work, user, {"home"})
  BY DEF Effect, Adds, Removes
<1>3. Effect("createTrash") = Adds(work, user, {"trash"})
  BY DEF Effect, Adds, Removes
<1>4. Effect("addToGroup") = Adds(work, user, {"public"})
  BY DEF Effect, Adds, Removes
<1>5. Effect("deleteHome") = Removes(work, user, {"home"})
  BY DEF Effect, Adds, Removes
<1>6. Effect("deleteTrash") = Removes(work, user, {"trash"})
  BY DEF Effect, Adds, Removes
<1>7. Effect("deleteUser") = Removes(work, user, {"user", "public"})
  BY DEF Effect, Adds, Removes
<1>8. Effect("renameCollection") = [work EXCEPT !.root = zone]
  BY DEF Effect, Adds, Removes
<1>9. Effect("renameZone") = [work EXCEPT !.zone = zone]
  BY DEF Effect, Adds, Removes
<1>. QED
  BY <1>1, <1>2, <1>3, <1>4, <1>5, <1>6, <1>7, <1>8, <1>9

\* A catalog is what a user has and two names.
LEMMA Catalogs ==
    ASSUME NEW c \in Catalog, NEW u \in Users, NEW S \in SUBSET Parts, NEW z \in Zones
    PROVE  /\ Adds(c, u, S) \in Catalog
           /\ Removes(c, u, S) \in Catalog
           /\ [c EXCEPT !.root = z] \in Catalog
           /\ [c EXCEPT !.zone = z] \in Catalog
<1>1. c.has[u] \cup S \in SUBSET Parts /\ c.has[u] \ S \in SUBSET Parts
  BY DEF Catalog
<1>2. \A T \in SUBSET Parts : [c EXCEPT !.has[u] = T] \in Catalog
  BY DEF Catalog
<1>3. Adds(c, u, S) \in Catalog /\ Removes(c, u, S) \in Catalog
  BY <1>1, <1>2 DEF Adds, Removes
<1>4. [c EXCEPT !.root = z] \in Catalog /\ [c EXCEPT !.zone = z] \in Catalog
  BY DEF Catalog
<1>. QED
  BY <1>3, <1>4

LEMMA EffectType == TypeOK /\ HasStep => Effect(Step) \in Catalog
<1>. SUFFICES ASSUME TypeOK, HasStep PROVE Effect(Step) \in Catalog
  OBVIOUS
<1>1. work \in Catalog /\ user \in Users /\ zone \in Zones
  BY DEF TypeOK
<1>2. /\ {"user"} \in SUBSET Parts /\ {"home"} \in SUBSET Parts
      /\ {"trash"} \in SUBSET Parts /\ {"public"} \in SUBSET Parts
      /\ {"user", "public"} \in SUBSET Parts
  BY DEF Parts
<1>3. /\ \A S \in SUBSET Parts : /\ Adds(work, user, S) \in Catalog
                                 /\ Removes(work, user, S) \in Catalog
      /\ [work EXCEPT !.root = zone] \in Catalog
      /\ [work EXCEPT !.zone = zone] \in Catalog
  BY <1>1, Catalogs
<1>4. /\ Effect("createUser") \in Catalog /\ Effect("createHome") \in Catalog
      /\ Effect("createTrash") \in Catalog /\ Effect("addToGroup") \in Catalog
      /\ Effect("deleteHome") \in Catalog /\ Effect("deleteTrash") \in Catalog
      /\ Effect("deleteUser") \in Catalog
      /\ Effect("renameCollection") \in Catalog /\ Effect("renameZone") \in Catalog
  BY <1>2, <1>3, Effects
<1>. QED
  BY <1>4, StepOf

LEMMA InitInv == Init => IInv
<1>. SUFFICES ASSUME Init PROVE IInv
  OBVIOUS
<1>1. PICK z \in Zones : saved = [has |-> [u \in Users |-> {}], root |-> z, zone |-> z]
  BY DEF Init
<1>2. saved \in Catalog /\ work = saved
  BY <1>1 DEF Init, Catalog
<1>3. policy \in Policies /\ user \in Users /\ zone \in Zones /\ next = 1
      /\ outcome = "success"
  BY DEF Init
<1>4. TypeOK
  BY <1>2, <1>3, Plans DEF TypeOK
<1>5. CatalogConsistent
  BY <1>1 DEF CatalogConsistent
<1>. QED
  BY <1>2, <1>3, <1>4, <1>5 DEF IInv, Transaction, Running

LEMMA TypeStep == TypeOK /\ [Next]_vars => TypeOK'
<1>. SUFFICES ASSUME TypeOK, [Next]_vars PROVE TypeOK'
  OBVIOUS
<1>. USE DEF TypeOK
<1>1. CASE Fire
  <2>1. Len(Plan[policy']) \in Nat
    BY <1>1, Plans DEF Fire
  <2>. QED
    BY <1>1, <2>1 DEF Fire
<1>2. CASE StepSucceeds
  <2>1. next' \in 1..(Len(Plan[policy']) + 1)
    BY <1>2, Plans DEF StepSucceeds, HasStep
  <2>. QED
    BY <1>2, <2>1, EffectType DEF StepSucceeds
<1>3. CASE StepMisses
  <2>1. next' \in 1..(Len(Plan[policy']) + 1)
    BY <1>3, Plans DEF StepMisses, HasStep
  <2>. QED
    BY <1>3, <2>1 DEF StepMisses
<1>4. CASE PolicyRaises
  BY <1>4 DEF PolicyRaises
<1>5. CASE Commit
  BY <1>5 DEF Commit
<1>6. CASE UNCHANGED vars
  BY <1>6 DEF vars
<1>. QED
  BY <1>1, <1>2, <1>3, <1>4, <1>5, <1>6 DEF Next

-----------------------------------------------------------------------------
\* The transaction.

\* The bindings of Progress, one policy at a time.
LEMMA Created ==
    /\ CreatedBefore(1) = {}
    /\ CreatedBefore(2) = CreatedBefore(1) \cup {"user"}
    /\ CreatedBefore(3) = CreatedBefore(2) \cup {"home"}
    /\ CreatedBefore(4) = CreatedBefore(3) \cup {"trash"}
    /\ CreatedBefore(5) = CreatedBefore(4) \cup {"public"}
    /\ CreatedBefore(5) = Parts
<1>1. CreatedBefore(1) = {}
  BY DEF CreatedBefore, Parts
<1>2. CreatedBefore(2) = {"user"}
  BY DEF CreatedBefore, Parts
<1>3. CreatedBefore(3) = {"user", "home"}
  BY DEF CreatedBefore, Parts
<1>4. CreatedBefore(4) = {"user", "home", "trash"}
  BY DEF CreatedBefore, Parts
<1>5. CreatedBefore(5) = {"user", "home", "trash", "public"}
  BY DEF CreatedBefore, Parts
<1>. QED
  BY <1>1, <1>2, <1>3, <1>4, <1>5 DEF Parts

LEMMA Deleted ==
    /\ DeletedBefore(1) = {}
    /\ DeletedBefore(2) = DeletedBefore(1) \cup {"home"}
    /\ DeletedBefore(3) = DeletedBefore(2) \cup {"trash"}
    /\ DeletedBefore(4) = DeletedBefore(3) \cup {"user", "public"}
    /\ DeletedBefore(4) = Parts
<1>1. DeletedBefore(1) = {}
  BY DEF DeletedBefore, Parts
<1>2. DeletedBefore(2) = {"home"}
  BY DEF DeletedBefore, Parts
<1>3. DeletedBefore(3) = {"home", "trash"}
  BY DEF DeletedBefore, Parts
<1>4. DeletedBefore(4) = {"user", "home", "trash", "public"}
  BY DEF DeletedBefore, Parts
<1>. QED
  BY <1>1, <1>2, <1>3, <1>4 DEF Parts

\* A policy that creates, deletes or renames takes a step further.
LEMMA Further ==
    ASSUME NEW c \in Catalog, NEW u \in Users, NEW S, NEW T
    PROVE  /\ Adds(Adds(c, u, S), u, T) = Adds(c, u, S \cup T)
           /\ Removes(Removes(c, u, S), u, T) = Removes(c, u, S \cup T)
           /\ Adds(c, u, {}) = c /\ Removes(c, u, {}) = c
<1>. DEFINE h == c.has[u]
            with(e, A) == [e EXCEPT !.has[u] = A]
<1>1. \A A, B : /\ with(c, A).has[u] = A
                /\ with(with(c, A), B) = with(c, B)
  <2>. TAKE A, B
  <2>. QED
    BY DEF Catalog
<1>2. with(c, h) = c
  BY DEF Catalog
<1>3. /\ (h \cup S) \cup T = h \cup (S \cup T)
      /\ (h \ S) \ T = h \ (S \cup T)
      /\ h \cup {} = h /\ h \ {} = h
  OBVIOUS
<1>4. /\ \A A : Adds(c, u, A) = with(c, h \cup A) /\ Removes(c, u, A) = with(c, h \ A)
      /\ \A e, A : /\ Adds(e, u, A) = with(e, e.has[u] \cup A)
                   /\ Removes(e, u, A) = with(e, e.has[u] \ A)
  BY DEF Adds, Removes
<1>. HIDE DEF h, with
<1>5. Adds(Adds(c, u, S), u, T) = Adds(c, u, S \cup T)
  <2>1. Adds(c, u, S) = with(c, h \cup S)
    BY <1>4
  <2>2. Adds(Adds(c, u, S), u, T) = with(with(c, h \cup S), (h \cup S) \cup T)
    BY <1>1, <1>4, <2>1
  <2>. QED
    BY <1>1, <1>3, <1>4, <2>2
<1>6. Removes(Removes(c, u, S), u, T) = Removes(c, u, S \cup T)
  <2>1. Removes(c, u, S) = with(c, h \ S)
    BY <1>4
  <2>2. Removes(Removes(c, u, S), u, T) = with(with(c, h \ S), (h \ S) \ T)
    BY <1>1, <1>4, <2>1
  <2>. QED
    BY <1>1, <1>3, <1>4, <2>2
<1>7. Adds(c, u, {}) = c /\ Removes(c, u, {}) = c
  BY <1>2, <1>3, <1>4
<1>. QED
  BY <1>5, <1>6, <1>7

LEMMA RemovesTwice ==
    ASSUME NEW c \in Catalog, NEW u \in Users, NEW S, NEW T
    PROVE  Removes(Removes(c, u, S), u, T) = Removes(c, u, S \cup T)
  BY Further

LEMMA Renaming ==
    ASSUME NEW c \in Catalog, NEW r, NEW z, NEW x
    PROVE  /\ [Renames(c, r, z) EXCEPT !.root = x] = Renames(c, x, z)
           /\ [Renames(c, r, z) EXCEPT !.zone = x] = Renames(c, r, x)
           /\ Renames(c, c.root, c.zone) = c
  BY DEF Renames, Catalog

\* A policy that has done nothing yet has its progress right.
LEMMA NothingDone ==
    ASSUME TypeOK', work' = saved', next' = 1
    PROVE  Progress'
<1>1. saved' \in Catalog /\ user' \in Users
  BY DEF TypeOK
<1>2. CreatedBefore(next') = {} /\ DeletedBefore(next') = {}
  BY Created, Deleted
<1>3. /\ Adds(saved', user', CreatedBefore(next')) = saved'
      /\ Removes(saved', user', DeletedBefore(next')) = saved'
  BY <1>1, <1>2, Further
<1>4. Renames(saved', IF next' > 1 THEN zone' ELSE saved'.root,
                      IF next' > 2 THEN zone' ELSE saved'.zone) = saved'
  BY <1>1, Renaming
<1>. QED
  BY <1>3, <1>4 DEF Progress

\* A step that succeeds adds what it does to what the policy has done.
LEMMA Advances ==
    ASSUME TypeOK, CatalogConsistent, Progress, StepSucceeds
    PROVE  Progress'
<1>1. /\ HasStep /\ Possible(Step) /\ work' = Effect(Step) /\ next' = next + 1
      /\ policy' = policy /\ user' = user /\ zone' = zone /\ saved' = saved
  BY DEF StepSucceeds
<1>2. saved \in Catalog /\ work \in Catalog /\ user \in Users /\ zone \in Zones
  BY DEF TypeOK
<1>3. CASE policy = "acCreateUser"
  <2>1. work = Adds(saved, user, CreatedBefore(next))
    BY <1>3 DEF Progress
  <2>2. PICK T : /\ Effect(Step) = Adds(work, user, T)
                 /\ CreatedBefore(next + 1) = CreatedBefore(next) \cup T
    <3>1. \/ next = 1 /\ Step = "createUser"
          \/ next = 2 /\ Step = "createHome"
          \/ next = 3 /\ Step = "createTrash"
          \/ next = 4 /\ Step = "addToGroup"
      BY <1>1, <1>3, StepOf
    <3>. QED
      BY <3>1, Effects, Created
  <2>3. work' = Adds(saved, user, CreatedBefore(next + 1))
    <3>1. work' = Adds(Adds(saved, user, CreatedBefore(next)), user, T)
      BY <1>1, <2>1, <2>2
    <3>2. Adds(Adds(saved, user, CreatedBefore(next)), user, T)
             = Adds(saved, user, CreatedBefore(next) \cup T)
      BY <1>2, Further
    <3>. QED
      BY <2>2, <3>1, <3>2
  <2>4. saved.has[user] = {}
    <3>1. CASE next > 1
      BY <1>3, <3>1 DEF Progress
    <3>2. CASE next = 1
      <4>1. work = saved
        BY <1>2, <2>1, <3>2, Further, Created
      <4>2. Step = "createUser"
        BY <1>1, <1>3, <3>2, StepOf
      <4>3. "user" \notin saved.has[user]
        BY <1>1, <4>1, <4>2 DEF Possible
      <4>. QED
        BY <1>2, <4>3 DEF CatalogConsistent, Parts
    <3>. QED
      BY <3>1, <3>2 DEF TypeOK
  <2>. QED
    BY <1>1, <1>3, <2>3, <2>4 DEF Progress
<1>4. CASE policy = "acDeleteUser"
  <2>1. work = Removes(saved, user, DeletedBefore(next))
    BY <1>4 DEF Progress
  <2>2. PICK T : /\ Effect(Step) = Removes(work, user, T)
                 /\ DeletedBefore(next + 1) = DeletedBefore(next) \cup T
    <3>1. \/ next = 1 /\ Step = "deleteHome"
          \/ next = 2 /\ Step = "deleteTrash"
          \/ next = 3 /\ Step = "deleteUser"
      BY <1>1, <1>4, StepOf
    <3>. QED
      BY <3>1, Effects, Deleted
  <2>3. work' = Removes(saved, user, DeletedBefore(next + 1))
    <3>1. work' = Removes(Removes(saved, user, DeletedBefore(next)), user, T)
      BY <1>1, <2>1, <2>2
    <3>2. Removes(Removes(saved, user, DeletedBefore(next)), user, T)
             = Removes(saved, user, DeletedBefore(next) \cup T)
      BY <1>2, RemovesTwice
    <3>. QED
      BY <2>2, <3>1, <3>2
  <2>. QED
    BY <1>1, <1>4, <2>3 DEF Progress
<1>5. CASE policy = "acRenameLocalZone"
  <2>1. work = Renames(saved, IF next > 1 THEN zone ELSE saved.root,
                              IF next > 2 THEN zone ELSE saved.zone)
    BY <1>5 DEF Progress
  <2>2. \/ next = 1 /\ Step = "renameCollection"
        \/ next = 2 /\ Step = "renameZone"
    BY <1>1, <1>5, StepOf
  <2>3. \/ next = 1 /\ work' = Renames(saved, zone, saved.zone)
        \/ next = 2 /\ work' = Renames(saved, zone, zone)
    <3>1. CASE next = 1 /\ Step = "renameCollection"
      BY <1>1, <1>2, <2>1, <3>1, Effects, Renaming
    <3>2. CASE next = 2 /\ Step = "renameZone"
      BY <1>1, <1>2, <2>1, <3>2, Effects, Renaming
    <3>. QED
      BY <2>2, <3>1, <3>2
  <2>. QED
    BY <1>1, <1>5, <2>3 DEF Progress
<1>. QED
  BY <1>3, <1>4, <1>5 DEF TypeOK, Policies

\* A miss the policy does not look at is that of a collection that is not there,
\* and leaves the transaction as if it had been deleted.
LEMMA MissesNothing ==
    ASSUME TypeOK, CatalogConsistent, Progress, ReliableServer, StepMisses,
           Step \notin Tested
    PROVE  Progress'
<1>1. /\ HasStep /\ next' = next + 1 /\ work' = work
      /\ policy' = policy /\ user' = user /\ zone' = zone /\ saved' = saved
  BY DEF StepMisses
<1>2. Step \in {"deleteHome", "deleteTrash"} /\ ~Possible(Step)
  BY DEF StepMisses, ReliableServer
<1>3. /\ policy = "acDeleteUser"
      /\ \/ next = 1 /\ Step = "deleteHome"
         \/ next = 2 /\ Step = "deleteTrash"
  BY <1>1, <1>2, StepOf
<1>4. saved \in Catalog /\ user \in Users /\ work = Removes(saved, user, DeletedBefore(next))
  BY <1>3 DEF TypeOK, Progress
<1>5. work.has[user] = saved.has[user] \ DeletedBefore(next)
  BY <1>4 DEF Removes, Catalog
<1>6. saved.has[user] = {}
  <2>1. "home" \notin saved.has[user] \/ "trash" \notin saved.has[user]
    <3>1. CASE next = 1 /\ Step = "deleteHome"
      BY <1>2, <1>5, <3>1, Deleted DEF Possible
    <3>2. CASE next = 2 /\ Step = "deleteTrash"
      <4>1. "trash" \notin work.has[user]
        BY <1>2, <3>2 DEF Possible
      <4>2. "trash" \notin DeletedBefore(next)
        BY <3>2 DEF DeletedBefore
      <4>. QED
        BY <1>5, <4>1, <4>2
    <3>. QED
      BY <1>3, <3>1, <3>2
  <2>. QED
    BY <1>4, <2>1 DEF CatalogConsistent, Parts
<1>7. Removes(saved, user, DeletedBefore(next)) = Removes(saved, user, DeletedBefore(next + 1))
  BY <1>6 DEF Removes
<1>. QED
  BY <1>1, <1>3, <1>4, <1>7 DEF Progress

\* What a policy has done when it commits is all of it.
LEMMA CommitsAll ==
    ASSUME TypeOK, CatalogConsistent, Progress, Commit
    PROVE  CatalogConsistent'
<1>1. saved' = work /\ ~HasStep /\ Running
  BY DEF Commit
<1>2. saved \in Catalog /\ user \in Users /\ policy \in Policies /\ next = Len(Plan[policy]) + 1
  BY <1>1, Plans DEF TypeOK, HasStep
<1>3. \A u \in Users : saved.has[u] \in {{}, Parts}
  BY DEF CatalogConsistent
<1>4. CASE policy = "acCreateUser"
  <2>1. next = 5
    BY <1>2, <1>4, Plans
  <2>2. work = Adds(saved, user, Parts)
    BY <1>4, <2>1, Created DEF Progress
  <2>3. /\ \A u \in Users : work.has[u] = saved.has[u] \/ work.has[u] = saved.has[u] \cup Parts
        /\ work.root = saved.root /\ work.zone = saved.zone
    BY <1>2, <2>2 DEF Adds, Catalog
  <2>4. \A u \in Users : work.has[u] \in {{}, Parts}
    BY <1>3, <2>3
  <2>. QED
    BY <1>1, <2>3, <2>4 DEF CatalogConsistent
<1>5. CASE policy = "acDeleteUser"
  <2>1. next = 4
    BY <1>2, <1>5, Plans
  <2>2. work = Removes(saved, user, Parts)
    BY <1>5, <2>1, Deleted DEF Progress
  <2>3. /\ \A u \in Users : work.has[u] = saved.has[u] \/ work.has[u] = saved.has[u] \ Parts
        /\ work.root = saved.root /\ work.zone = saved.zone
    BY <1>2, <2>2 DEF Removes, Catalog
  <2>4. \A u \in Users : work.has[u] \in {{}, Parts}
    BY <1>3, <2>3
  <2>. QED
    BY <1>1, <2>3, <2>4 DEF CatalogConsistent
<1>6. CASE policy = "acRenameLocalZone"
  <2>1. next = 3
    BY <1>2, <1>6, Plans
  <2>2. work = Renames(saved, zone, zone)
    BY <1>6, <2>1 DEF Progress
  <2>3. work.has = saved.has /\ work.root = zone /\ work.zone = zone
    BY <1>2, <2>2 DEF Renames, Catalog
  <2>. QED
    BY <1>1, <1>3, <2>3 DEF CatalogConsistent
<1>. QED
  BY <1>2, <1>4, <1>5, <1>6 DEF Policies

LEMMA TransactionStep == IInv /\ [Next]_vars => Transaction'
<1>. SUFFICES ASSUME TypeOK, Transaction, [Next]_vars, ReliableServer
              PROVE  /\ CatalogConsistent'
                     /\ Running' => Progress'
                     /\ ~Running' => work' = saved'
  BY DEF IInv, Transaction
<1>1. CatalogConsistent /\ (Running => Progress) /\ (~Running => work = saved)
  BY DEF Transaction
<1>2. TypeOK'
  BY TypeStep
<1>3. saved' = saved => CatalogConsistent'
  BY <1>1 DEF CatalogConsistent
<1>4. CASE Fire
  <2>1. saved' = saved /\ work' = saved' /\ next' = 1 /\ Running'
    BY <1>1, <1>4 DEF Fire, Running
  <2>2. Progress'
    BY <1>2, <2>1, NothingDone
  <2>. QED
    BY <1>3, <2>1, <2>2
<1>5. CASE StepSucceeds
  <2>1. saved' = saved /\ Running /\ Running'
    BY <1>5 DEF StepSucceeds, HasStep, Running
  <2>. QED
    BY <1>1, <1>3, <1>5, <2>1, Advances
<1>6. CASE StepMisses
  <2>1. saved' = saved /\ Running
    BY <1>6 DEF StepMisses, HasStep
  <2>2. CASE Step \in Tested
    <3>1. work' = saved' /\ ~Running'
      BY <1>6, <2>2 DEF StepMisses, Running
    <3>. QED
      BY <1>3, <2>1, <3>1
  <2>3. CASE Step \notin Tested
    <3>1. Running'
      BY <1>6, <2>1, <2>3 DEF StepMisses, Running
    <3>. QED
      BY <1>1, <1>3, <1>6, <2>1, <2>3, <3>1, MissesNothing
  <2>. QED
    BY <2>2, <2>3
<1>7. CASE PolicyRaises
  <2>1. saved' = saved /\ work' = saved' /\ ~Running'
    BY <1>7 DEF PolicyRaises, Running, ReliableServer
  <2>. QED
    BY <1>3, <2>1
<1>8. CASE Commit
  <2>1. saved' = work /\ work' = work /\ Running /\ ~Running'
    BY <1>8 DEF Commit, Running
  <2>. QED
    BY <1>1, <1>8, <2>1, CommitsAll
<1>9. CASE UNCHANGED vars
  <2>1. /\ saved' = saved /\ work' = work /\ (Running' <=> Running)
        /\ policy' = policy /\ user' = user /\ zone' = zone /\ next' = next
    BY <1>9 DEF vars, Running
  <2>2. Progress => Progress'
    BY <2>1 DEF Progress
  <2>. QED
    BY <1>1, <1>3, <2>1, <2>2
<1>. QED
  BY <1>4, <1>5, <1>6, <1>7, <1>8, <1>9 DEF Next

LEMMA NextInv == IInv /\ [Next]_vars => IInv'
  BY TypeStep, TransactionStep DEF IInv

-----------------------------------------------------------------------------
\* The variables have their types: above all, a policy is always at one of its
\* steps or after the last, whatever callback answered.
THEOREM TypeCorrect == Spec => []TypeOK
  BY InitInv, NextInv, PTL DEF Spec, IInv

\* What acCreateUser, acDeleteUser and acRenameLocalZone commit is consistent, for
\* any users and zones, when the server rolls back after a policy that raised and
\* no collection misses but one that is not there: no other miss, in any order
\* of policies, leaves a user half created, half deleted or a zone half renamed.
THEOREM CommitsConsistent == ReliableServer => (Spec => []CatalogConsistent)
<1>1. IInv => (ReliableServer => CatalogConsistent)
  BY DEF IInv, Transaction
<1>2. Spec => []IInv
  BY InitInv, NextInv, PTL DEF Spec
<1>3. CASE ReliableServer
  <2>1. IInv => CatalogConsistent
    BY <1>1, <1>3
  <2>. QED
    BY <1>2, <2>1, PTL
<1>. QED
  BY <1>3

-----------------------------------------------------------------------------
\* The refinement.

\* A commit adds, removes or renames the whole, or finds nothing to remove.
LEMMA CommitsWhole ==
    ASSUME TypeOK, CatalogConsistent, Progress, Commit
    PROVE  [Whole!Next]_saved
<1>1. saved' = work /\ ~HasStep /\ Running
  BY DEF Commit
<1>2. /\ saved \in Catalog /\ user \in Users /\ zone \in Zones /\ policy \in Policies
      /\ next = Len(Plan[policy]) + 1
  BY <1>1, Plans DEF TypeOK, HasStep
<1>3. CASE policy = "acCreateUser"
  <2>1. next = 5
    BY <1>2, <1>3, Plans
  <2>2. work = Adds(saved, user, Parts) /\ saved.has[user] = {}
    BY <1>3, <2>1, Created DEF Progress
  <2>3. saved.has[user] \cup Parts = Parts
    BY <2>2
  <2>4. work = [saved EXCEPT !.has[user] = Parts]
    BY <2>2, <2>3 DEF Adds
  <2>5. Whole!CreateUser(user)
    BY <1>1, <2>2, <2>4 DEF Whole!CreateUser
  <2>. QED
    BY <1>2, <2>5 DEF Whole!Next
<1>4. CASE policy = "acDeleteUser"
  <2>1. next = 4
    BY <1>2, <1>4, Plans
  <2>2. work = Removes(saved, user, Parts)
    BY <1>4, <2>1, Deleted DEF Progress
  <2>3. CASE saved.has[user] = {}
    <3>1. Removes(saved, user, Parts) = Removes(saved, user, {})
      BY <2>3 DEF Removes
    <3>2. work = saved
      BY <1>2, <2>2, <3>1, Further
    <3>. QED
      BY <1>1, <3>2
  <2>4. CASE saved.has[user] = Parts
    <3>1. saved.has[user] \ Parts = {}
      BY <2>4
    <3>2. work = [saved EXCEPT !.has[user] = {}]
      BY <2>2, <3>1 DEF Removes
    <3>3. Whole!DeleteUser(user)
      BY <1>1, <2>4, <3>2 DEF Whole!DeleteUser
    <3>. QED
      BY <1>2, <3>3 DEF Whole!Next
  <2>. QED
    BY <1>2, <2>3, <2>4 DEF CatalogConsistent
<1>5. CASE policy = "acRenameLocalZone"
  <2>1. next = 3
    BY <1>2, <1>5, Plans
  <2>2. work = Renames(saved, zone, zone)
    BY <1>5, <2>1 DEF Progress
  <2>3. Whole!RenameLocalZone(zone)
    BY <1>1, <2>2 DEF Renames, Whole!RenameLocalZone
  <2>. QED
    BY <1>2, <2>3 DEF Whole!Next
<1>. QED
  BY <1>2, <1>3, <1>4, <1>5 DEF Policies

\* The policies of core.py.template change the committed catalog by whole users and
\* zones only, for any users and zones and in any order, under the condition of
\* CommitsConsistent: what a policy that ended early had done is in no later commit.
THEOREM CommitsAreWhole == ReliableServer => (Spec => PoliciesWhole)
<1>. SUFFICES ASSUME ReliableServer PROVE Spec => PoliciesWhole
  OBVIOUS
<1>1. Init => Whole!Init
  BY DEF Init, Whole!Init
<1>2. IInv /\ [Next]_vars => [Whole!Next]_saved
  <2>. SUFFICES ASSUME IInv, [Next]_vars PROVE [Whole!Next]_saved
    OBVIOUS
  <2>1. CASE Commit
    <3>1. TypeOK /\ CatalogConsistent /\ Progress
      BY <2>1 DEF IInv, Transaction, Commit
    <3>. QED
      BY <2>1, <3>1, CommitsWhole
  <2>2. CASE saved' = saved
    BY <2>2
  <2>. QED
    BY <2>1, <2>2 DEF Next, Fire, StepSucceeds, StepMisses, PolicyRaises, vars
<1>3. Spec => []IInv
  BY InitInv, NextInv, PTL DEF Spec
<1>. QED
  BY <1>1, <1>2, <1>3, PTL DEF Spec, PoliciesWhole, Whole!Spec
=============================================================================
