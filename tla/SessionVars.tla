---------------------------- MODULE SessionVars ----------------------------
(***************************************************************************)
(* session_vars.get_map(rei), a client of the bindings: it reads a         *)
(* RuleExecInfo, of the server or made by the rule, and the objects its    *)
(* pointers lead to, of which any may be None.  Reading an attribute of    *)
(* None, or one a class does not have, raises AttributeError and leaves    *)
(* the rule without a map.                                                 *)
(***************************************************************************)
EXTENDS StructBindings, StructTables

CONSTANT Unbacked   \* of New: KeyValPairs made with a positive len

\* Their arrays are null pointers: the constructor takes nothing else for them,
\* and they cannot be assigned to.
ASSUME UnbackedAssumption == Unbacked \subseteq New

VARIABLE map    \* what get_map returned of rei as it is: key -> where the value comes from

vars == <<bindingVars, map>>

InitMap == Init /\ map = <<>>

\* The classes of what the pointers of a RuleExecInfo lead to.
Target ==
    [rsComm |-> "RsComm", doinp |-> "DataObjInp", doi |-> "DataObjInfo",
     coi |-> "CollInfo", uoic |-> "UserInfo", uoip |-> "UserInfo",
     uoio |-> "UserInfo", condInputData |-> "KeyValPair"]

Has(part) == Pointee(part) # Null

\* What an expression of get_map gives: a value, and the attributes it was read
\* through, or None, or an AttributeError; or a null pointer is read.
ReadThrough(path) == [kind |-> "value", path |-> path]

NoValue == [kind |-> "None", path |-> <<>>]

Raised == [kind |-> "AttributeError", path |-> <<>>]

Undefined == [kind |-> "undefined", path |-> <<>>]

\* rei.part.attr
Get(part, attr) ==
    IF Has(part) /\ attr \in Attributes(Target[part]) THEN ReadThrough(<<part, attr>>) ELSE Raised

\* {key: rei.part.attr, ...} if rei.part is not None else {key: None, ...}
Of(part, keys) ==
    [key \in DOMAIN keys |-> IF Has(part) THEN Get(part, keys[key]) ELSE NoValue]

ConnectionKeys ==
    [client_address |-> "clientAddr", connection_count |-> "connectCnt",
     socket |-> "sock", option |-> "option", status |-> "status",
     api_number |-> "apiInx"]

Connection == Of("rsComm", ConnectionKeys)

EitherKeys == [object_path |-> "objPath", size |-> "dataSize"]

\* Variant: only one of the two is tested for.
ObjectOfEitherUntested ==
    [key \in DOMAIN EitherKeys |->
        IF Has("doi") THEN Get("doi", EitherKeys[key]) ELSE Get("doinp", EitherKeys[key])]

\* What both doi and doinp have, the former first.
ObjectOfEither ==
    [key \in DOMAIN EitherKeys |->
        IF ~(Has("doi") \/ Has("doinp")) THEN NoValue
        ELSE IF Has("doi") THEN Get("doi", EitherKeys[key]) ELSE Get("doinp", EitherKeys[key])]

DataObjectKeys ==
    [type |-> "dataType", checksum |-> "chksum", file_path |-> "filePath",
     replica_number |-> "replNum", replication_status |-> "replStatus",
     write_flag |-> "writeFlag", owner |-> "dataOwnerName",
     owner_zone |-> "dataOwnerZone", expiry |-> "dataExpiry",
     comments |-> "dataComments", create_time |-> "dataCreate",
     modify_time |-> "dataModify", access_time |-> "dataAccess", id |-> "dataId",
     collection_id |-> "collId", status_string |-> "statusString",
     destination_resource_name |-> "destRescName",
     backup_resource_name |-> "backupRescName", resource_name |-> "rescName"]

DataObject == Of("doi", DataObjectKeys)

CollectionKeys ==
    [id |-> "collId", name |-> "collName",
     parent_collection_name |-> "collParentName", owner |-> "collOwnerName",
     expiry |-> "collExpiry", comments |-> "collComments",
     create_time |-> "collCreate", modify_time |-> "collModify",
     access_time |-> "collAccess", inheritance |-> "collInheritance"]

Collection == Of("coi", CollectionKeys)

UserAttributes == {"userName", "rodsZone", "userType", "sysUid"}
AuthAttributes == {"authScheme", "authFlag", "flag", "ppid", "host", "authStr"}
OtherAttributes == {"userInfo", "userComments", "userCreate", "userModify"}

\* get_map_for_user_struct reads them all, the last two through authInfo and
\* userOtherInfo.
UserStruct(path) ==
    IF /\ UserAttributes \cup {"authInfo", "userOtherInfo"} \subseteq Attributes("UserInfo")
       /\ AuthAttributes \subseteq Attributes("AuthInfo")
       /\ OtherAttributes \subseteq Attributes("UserOtherInfo")
    THEN ReadThrough(path) ELSE Raised

\* The user of the rei, or that of its connection.
User(part, ofConnection) ==
    IF Has(part) THEN UserStruct(<<part>>)
    ELSE IF ~Has("rsComm") THEN NoValue
    ELSE IF Get("rsComm", ofConnection) = Raised THEN Raised
    ELSE UserStruct(<<"rsComm", ofConnection>>)

Users ==
    [client_user |-> User("uoic", "clientUser"),
     proxy_user |-> User("uoip", "proxyUser"),
     other_user |-> IF Has("uoio") THEN UserStruct(<<"uoio">>) ELSE NoValue]

\* dict((key[i], value[i]) for i in range(0, len)): both arrays are shown with len
\* elements, so that every index is in range; to show one, the code reads len
\* pointers from wherever the member points to.
Pairs ==
    IF ~Has("condInputData") THEN NoValue
    ELSE IF \E attr \in {"len", "key", "value"} : Get("condInputData", attr) = Raised THEN Raised
    ELSE IF Pointee("condInputData") \in Unbacked THEN Undefined
    ELSE ReadThrough(<<"condInputData", "key", "value">>)

Others ==
    [operation_type |-> IF Has("doinp") THEN Get("doinp", "oprType") ELSE NoValue,
     key_value_pairs |-> Pairs,
     plugin_instance_name |-> IF "pluginInstanceName" \in Attributes(class)
                              THEN ReadThrough(<<"rei", "pluginInstanceName">>) ELSE Raised,
     status |-> IF "status" \in Attributes(class) THEN ReadThrough(<<"rei", "status">>) ELSE Raised]

Parts ==
    [connection |-> Connection, either |-> ObjectOfEither, data_object |-> DataObject,
     collection |-> Collection, users |-> Users, others |-> Others]

\* session_vars.get_map(rei)
GetMap ==
    /\ Using /\ class = "RuleExecInfo"
    /\ map = <<>>
    /\ map' = Parts
    /\ UNCHANGED bindingVars

Next == (BindingsNext /\ map' = <<>>) \/ GetMap

Spec == InitMap /\ [][Next]_vars

-----------------------------------------------------------------------------
\* The type invariant.
TypeOK ==
    /\ stage \in {"idle", "building", "built", "raised", "received", "used"}
    /\ stage # "idle" => class \in DOMAIN Layout
    /\ stage \in {"building", "built", "received", "used"} =>
          /\ DOMAIN struct = Members(class)
          /\ \A m \in Members(class) : DOMAIN struct[m] = Cells(class, m)
    /\ stage = "building" => member \in 1..Len(Layout[class]) + 1
    /\ stage = "building" /\ member \in Members(class) =>
          /\ element \in Cells(class, member)
          /\ index_into_array \in 0..Layout[class][member].size - 1
    /\ index \in 0..Len(args)
    /\ statements \in 0..MaxStatements

\* The objects that a value of the map may come from.
Sources ==
    [connection  |-> [key \in DOMAIN ConnectionKeys |-> {"rsComm"}],
     either      |-> [key \in DOMAIN EitherKeys |-> {"doi", "doinp"}],
     data_object |-> [key \in DOMAIN DataObjectKeys |-> {"doi"}],
     collection  |-> [key \in DOMAIN CollectionKeys |-> {"coi"}],
     users       |-> [client_user |-> {"uoic", "rsComm"}, proxy_user |-> {"uoip", "rsComm"},
                      other_user |-> {"uoio"}],
     others      |-> [operation_type |-> {"doinp"}, key_value_pairs |-> {"condInputData"},
                      plugin_instance_name |-> {"rei"}, status |-> {"rei"}]]

IsThere(object) == object = "rei" \/ Has(object)

\* Whatever parts the rei has, get_map never raises, and every value is None
\* exactly if none of the objects it may come from is there: nothing that is there
\* is left out.  A null pointer is read for no pairs but those a rule made itself
\* with a positive len.
MapComplete ==
    map # <<>> =>
       \A part \in DOMAIN Sources : \A key \in DOMAIN Sources[part] :
          /\ map[part][key] # Raised
          /\ map[part][key] = NoValue <=> \A object \in Sources[part][key] : ~IsThere(object)
          /\ map[part][key] = Undefined => Pointee("condInputData") \in Unbacked
=============================================================================
