---------------------------- MODULE StructTables ----------------------------
(***************************************************************************)
(* The classes of irods_types: the members that the constructor of each    *)
(* takes, in its order, and the attribute a member is bound to.            *)
(*                                                                         *)
(* Only classes with a constructor are here; the enumerations and the      *)
(* classes of the arrays have none.                                        *)
(***************************************************************************)
EXTENDS Integers, Sequences

CONSTANT ArraySize  \* elements of every array member

ASSUME ArraySizeAssumption == ArraySize \in Nat \ {0}

Listed(form, access, names) ==
    [i \in DOMAIN names |->
        [name |-> names[i], form |-> form, access |-> access,
         size |-> IF form \in {"array", "pointers"} THEN ArraySize ELSE 1,
         attrs |-> IF access = "none" THEN {} ELSE {names[i]}]]

Value(names) == Listed("value", "value", names)             \* add_property of a member
Writable(names) == Listed("value", "writable", names)       \* def_readwrite
Array(names) == Listed("array", "view", names)              \* array_ref{s->m}
CString(names) == Listed("pointer", "c_string", names)      \* array_ref<char, true>{s->m}
CStrings(names) == Listed("pointers", "c_strings", names)   \* an array of those
Counted(names) == Listed("pointer", "counted", names)       \* array_ref{s->m, s->len}
Reference(names) == Listed("pointer", "reference", names)   \* make_getter, make_setter
Raising(names) == Listed("pointer", "none", names)          \* a getter that raises
Hidden(form, names) == Listed(form, "none", names)          \* no attribute

\* Bound under other names than that of the member.
As(attrs, members) == [i \in DOMAIN members |-> [members[i] EXCEPT !.attrs = attrs]]

-----------------------------------------------------------------------------
BulkOprInp == Array(<<"objPath">>) \o Value(<<"attriArray", "condInput">>)
CheckAuthCredentialsInput == Array(<<"username", "zone", "password">>)
DataCopyInp == Value(<<"dataOprInp", "portalOprOut">>)
DataObjCopyInp == Value(<<"srcDataObjInp", "destDataObjInp">>)
PortList ==
    Value(<<"portNum", "cookie", "sock", "windowSize">>)
    \o Array(<<"hostAddr">>)
DataObjInp ==
    Array(<<"objPath">>)
    \o Value(<<"createMode", "openFlags", "offset", "dataSize",
          "numThreads", "oprType">>) \o Reference(<<"specColl">>)
    \o Value(<<"condInput">>)
OpenedDataObjInp ==
    Value(<<"l1descInx", "len", "whence", "oprType", "offset",
          "bytesWritten", "condInput">>)
PortalOprOut ==
    Value(<<"status", "l1descInx", "numThreads">>)
    \o Array(<<"chksum">>) \o Value(<<"portList">>)
DataOprInp ==
    Value(<<"oprType", "numThreads", "srcL3descInx", "destL3descInx",
          "srcRescTypeInx", "destRescTypeInx", "offset", "dataSize",
          "condInput">>)
CollInp == Array(<<"collName">>) \o Value(<<"flags", "oprType", "condInput">>)
PortalOpr ==
    Value(<<"oprType", "dataOprInp", "portList">>)
    \o Array(<<"shared_secret">>)
OpenStat ==
    Value(<<"dataSize">>) \o Array(<<"dataType", "dataMode">>)
    \o Value(<<"l3descInx", "replStatus", "rescTypeInx", "replNum">>)
ExecCmd ==
    Array(<<"cmd", "cmdArgv", "execAddr", "hintPath">>)
    \o Value(<<"addPathToArgv", "dummy", "condInput">>)
ExecCmdOut == Value(<<"stdoutBuf", "stderrBuf", "status">>)
FileCreateOut == Array(<<"file_name">>)
FileLseekInp_t == Value(<<"fileInx", "offset", "whence">>)
FileLseekOut_t == Value(<<"offset">>)
FileOpenInp ==
    As({"resc_name"}, Array(<<"resc_name_">>))
    \o As({"resc_hier"}, Array(<<"resc_hier_">>))
    \o Array(<<"objPath">>) \o Value(<<"otherFlags", "addr">>)
    \o Array(<<"fileName">>)
    \o Value(<<"flags", "mode", "dataSize", "condInput">>)
    \o Array(<<"in_pdmo">>)
FileRenameInp ==
    Value(<<"addr">>)
    \o Array(<<"oldFileName", "newFileName", "rescHier", "objPath">>)
FileRenameOut == Array(<<"file_name">>)
RodsEnv ==
    Array(<<"rodsUserName", "rodsHost">>) \o Value(<<"rodsPort">>)
    \o Array(<<"rodsHome", "rodsCwd", "rodsAuthScheme", "rodsDefResource",
          "rodsZone">>) \o Value(<<"rodsLogLevel">>)
    \o Array(<<"rodsAuthFile", "rodsClientServerPolicy",
          "rodsClientServerNegotiation">>)
    \o Value(<<"rodsEncryptionKeySize", "rodsEncryptionSaltSize",
          "rodsEncryptionNumHashRounds">>)
    \o Array(<<"rodsEncryptionAlgorithm", "rodsDefaultHashScheme",
          "rodsMatchHashPolicy", "irodsSSLCACertificatePath",
          "irodsSSLCACertificateFile", "irodsSSLVerifyServer">>)
    \o Value(<<"irodsMaxSizeForSingleBuffer",
          "irodsDefaultNumberTransferThreads",
          "irodsTransBufferSizeForParaTrans",
          "irodsConnectionPoolRefreshTime">>)
    \o Array(<<"irodsPluginDirectory">>)
    \o Value(<<"tcp_keepalive_intvl", "tcp_keepalive_probes",
          "tcp_keepalive_time">>)
OperProgress ==
    Value(<<"oprType", "flag", "totalNumFiles", "totalFileSize",
          "totalNumFilesDone", "totalFileSizeDone">>)
    \o Array(<<"curFileName">>)
    \o Value(<<"curFileSize", "curFileSizeDone">>)
RuleExecInfo ==
    Value(<<"status">>) \o Array(<<"statusStr", "ruleName">>)
    \o Reference(<<"rsComm">>) \o Array(<<"pluginInstanceName">>)
    \o Reference(<<"msParamArray">>)
    \o Value(<<"inOutMsParamArray", "l1descInx">>)
    \o Reference(<<"doinp", "doi">>) \o Array(<<"rescName">>)
    \o Reference(<<"uoic", "uoip", "coi", "uoio", "condInputData">>)
    \o Array(<<"ruleSet">>) \o Reference(<<"next">>)
ThreadContext == Hidden("pointer", <<"reconnThr", "lock", "cond">>)
CollEnt ==
    Value(<<"objType", "replNum", "replStatus", "dataMode", "dataSize">>)
    \o CString(<<"collName", "dataName", "dataId", "createTime",
          "modifyTime", "chksum", "resource", "resc_hier", "phyPath",
          "ownerName", "dataType">>) \o Value(<<"specColl">>)
ModAccessControlInp ==
    Value(<<"recursiveFlag">>)
    \o CString(<<"accessLevel", "userName", "zone", "path">>)
MsParam ==
    As({"label", "type"}, CString(<<"label">>))
    \o Hidden("pointer", <<"type", "inOutStruct", "inpOutBuf">>)
MsParamArray == Value(<<"len", "oprType">>) \o Counted(<<"msParam">>)
SpecColl ==
    Writable(<<"collClass", "type">>)
    \o Array(<<"collection", "objPath", "resource", "rescHier", "phyPath",
          "cacheDir">>) \o Writable(<<"cacheDirty", "replNum">>)
KeyValPair ==
    Value(<<"len">>)
    \o As({"key"}, Counted(<<"keyWord">>)) \o Counted(<<"value">>)
DataObjInfo ==
    Array(<<"objPath", "rescName", "rescHier", "dataType">>)
    \o Value(<<"dataSize">>)
    \o Array(<<"chksum", "version", "filePath", "dataOwnerName",
          "dataOwnerZone">>) \o Value(<<"replNum", "replStatus">>)
    \o Array(<<"statusString">>)
    \o Value(<<"dataId", "collId", "dataMapId", "flags">>)
    \o Array(<<"dataComments", "dataMode", "dataExpiry", "dataCreate",
          "dataModify", "dataAccess">>)
    \o Value(<<"dataAccessInx", "writeFlag">>)
    \o Array(<<"destRescName", "backupRescName", "subPath">>)
    \o Reference(<<"specColl">>)
    \o Value(<<"regUid", "otherFlags", "condInput">>)
    \o Array(<<"in_pdmo">>) \o Reference(<<"next">>)
    \o Value(<<"rescId">>) \o Array(<<"dataAccessTime">>)
CollInfo ==
    Value(<<"collId">>)
    \o Array(<<"collName", "collParentName", "collOwnerName",
          "collOwnerZone">>) \o Value(<<"collMapId", "collAccessInx">>)
    \o Array(<<"collComments", "collInheritance", "collExpiry",
          "collCreate", "collModify", "collAccess", "collType",
          "collInfo1", "collInfo2">>) \o Value(<<"condInput">>)
    \o Reference(<<"next">>)
InxIvalPair == Value(<<"len">>) \o Counted(<<"inx", "value">>)
InxValPair == Value(<<"len">>) \o Counted(<<"inx", "value">>)
\* The attribute len is bound twice; the second binding is the one that stays.
TransferStat ==
    Hidden("value", <<"numThreads">>)
    \o As({"len"}, Value(<<"flags">>))
    \o As({"offset"}, Value(<<"bytesWritten">>))
CollOprStat ==
    Value(<<"filesCnt", "totalFileCnt", "bytesWritten">>)
    \o Array(<<"lastObjPath">>)
SubFile ==
    Value(<<"addr">>) \o Array(<<"subFilePath">>)
    \o Value(<<"mode", "flags">>) \o Hidden("value", <<"offset">>)
    \o Reference(<<"specColl">>)
RodsObjStat ==
    Writable(<<"objSize", "objType", "dataMode">>)
    \o Array(<<"dataId", "chksum", "ownerName", "ownerZone", "createTime",
          "modifyTime">>) \o Reference(<<"specColl">>)
    \o Array(<<"rescHier">>)
DataSeg == Value(<<"len", "offset">>)
FileRestartInfo ==
    Array(<<"fileName", "objPath">>)
    \o Value(<<"numSeg", "status", "fileSize">>)
    \o Array(<<"dataSeg">>)
FileRestart ==
    Value(<<"flags", "writtenSinceUpdated">>) \o Array(<<"infoFile">>)
    \o Value(<<"info">>)
RcComm ==
    Value(<<"irodsProt">>) \o Array(<<"host">>)
    \o Value(<<"sock", "portNum", "loggedIn", "localAddr", "remoteAddr",
          "proxyUser", "clientUser">>)
    \o Reference(<<"svrVersion", "rError">>)
    \o Value(<<"flag", "transStat", "apiInx", "status", "windowSize",
          "reconnectedSock", "reconnTime", "exit_flg">>)
    \o Reference(<<"thread_ctx">>)
    \o Value(<<"agentState", "clientState", "reconnThrState",
          "operProgress", "key_size", "salt_size", "num_hash_rounds">>)
    \o Array(<<"encryption_algorithm", "negotiation_results",
          "shared_secret">>) \o Value(<<"ssl_on">>)
    \o Hidden("pointer", <<"ssl_ctx", "ssl">>)
    \o Value(<<"fileRestart">>) \o Array(<<"session_signature">>)
PerfStat == Value(<<"orphanCnt", "nonOrphanCnt">>)
RsComm ==
    Value(<<"irodsProt", "sock", "connectCnt", "localAddr",
          "remoteAddr">>)
    \o As({"clientAddr", "reconnAddr"}, Array(<<"clientAddr">>))
    \o Value(<<"proxyUser", "clientUser", "myEnv", "cliVersion">>)
    \o Array(<<"option">>) \o Value(<<"procLogFlag", "rError">>)
    \o Reference(<<"portalOpr">>)
    \o Value(<<"apiInx", "status", "perfStat", "windowSize", "reconnFlag",
          "reconnSock", "reconnPort", "reconnectedSock">>)
    \o Hidden("array", <<"reconnAddr">>) \o Value(<<"cookie">>)
    \o Reference(<<"thread_ctx">>)
    \o Value(<<"agentState", "clientState", "reconnThrState",
          "gsiRequest">>) \o CString(<<"auth_scheme">>)
    \o As({"ssl_on", "ssl_do_accept", "ssl_do_shutdown"}, Value(<<"ssl_on">>))
    \o Hidden("pointer", <<"ssl_ctx", "ssl">>)
    \o Hidden("value", <<"ssl_do_accept", "ssl_do_shutdown">>)
    \o Array(<<"negotiation_results", "shared_secret">>)
    \o Value(<<"key_size", "salt_size", "num_hash_rounds">>)
    \o Array(<<"encryption_algorithm">>) \o Value(<<"session_props">>)
BytesBuf == Value(<<"len">>) \o Counted(<<"buf">>)
MsgHeader ==
    Array(<<"type">>)
    \o Value(<<"msgLen", "errorLen", "bsLen", "intInfo">>)
Version ==
    Value(<<"status">>) \o Array(<<"relVersion", "apiVersion">>)
    \o Value(<<"reconnPort">>) \o Array(<<"reconnAddr">>)
    \o Value(<<"cookie">>)
RodsHostAddr ==
    Array(<<"hostAddr", "zoneName">>)
    \o Value(<<"portNum", "dummyInt">>)
RErrMsg == Value(<<"status">>) \o Array(<<"msg">>)
RError == Value(<<"len">>) \o Counted(<<"errMsg">>)
GenQueryInp ==
    Writable(<<"maxRows", "continueInx", "rowOffset", "options",
          "condInput", "selectInp", "sqlCondInp">>)
SqlResult ==
    Writable(<<"attriInx">>) \o Value(<<"len">>)
    \o Raising(<<"value">>)
GenQueryOut ==
    Value(<<"rowCnt", "attriCnt", "continueInx", "totalRowCount">>)
    \o Array(<<"sqlResult">>)
RodsStat ==
    Value(<<"st_size", "st_dev", "st_ino", "st_mode", "st_nlink",
          "st_uid", "st_gid", "st_rdev", "st_atim", "st_mtim", "st_ctim",
          "st_blksize", "st_blocks">>)
RodsDirent ==
    Value(<<"d_offset", "d_ino", "d_reclen", "d_namlen">>)
    \o Array(<<"d_name">>)
AuthInfo ==
    Array(<<"authScheme">>) \o Value(<<"authFlag", "flag", "ppid">>)
    \o Array(<<"host", "authStr">>)
UserOtherInfo ==
    Array(<<"userInfo", "userComments", "userCreate", "userModify">>)
UserInfo ==
    Array(<<"userName", "rodsZone", "userType">>)
    \o Value(<<"sysUid", "authInfo", "userOtherInfo">>)
RuleExecDelInp == Array(<<"ruleExecId">>)
RuleExecSubmitInp ==
    Array(<<"ruleName", "reiFilePath", "userName", "exeAddress",
          "exeTime", "exeFrequency", "priority", "lastExecTime",
          "exeStatus", "estimateExeTime", "notificationAddr">>)
    \o Value(<<"condInput">>) \o Reference(<<"packedReiAndArgBBuf">>)
    \o Array(<<"ruleExecId">>)
SpecificQueryInp ==
    CString(<<"sql">>) \o CStrings(<<"args">>)
    \o Value(<<"maxRows", "continueInx", "rowOffset", "options",
          "condInput">>)
StructFileExtAndRegInp ==
    Array(<<"objPath", "collection">>)
    \o Value(<<"oprType", "flags", "condInput">>)
StructFileOprInp ==
    Value(<<"addr", "oprType", "flags">>) \o Reference(<<"specColl">>)
    \o Value(<<"condInput">>)
SubStructFileFdOprInp ==
    Value(<<"addr", "type", "fd", "len">>) \o Array(<<"resc_hier">>)
In_Addr == Value(<<"s_addr">>)
Sockaddr_In ==
    Value(<<"sin_family", "sin_port", "sin_addr">>)
    \o Hidden("array", <<"sin_zero">>)

-----------------------------------------------------------------------------
\* BOOST_PYTHON_MODULE(irods_types)
Structs ==
    [BulkOprInp |-> BulkOprInp,
     CheckAuthCredentialsInput |-> CheckAuthCredentialsInput,
     DataCopyInp |-> DataCopyInp, DataObjCopyInp |-> DataObjCopyInp,
     PortList |-> PortList, DataObjInp |-> DataObjInp,
     OpenedDataObjInp |-> OpenedDataObjInp, PortalOprOut |-> PortalOprOut,
     DataOprInp |-> DataOprInp, CollInp |-> CollInp, PortalOpr |-> PortalOpr,
     OpenStat |-> OpenStat, ExecCmd |-> ExecCmd, ExecCmdOut |-> ExecCmdOut,
     FileCreateOut |-> FileCreateOut, FileLseekInp_t |-> FileLseekInp_t,
     FileLseekOut_t |-> FileLseekOut_t, FileOpenInp |-> FileOpenInp,
     FileRenameInp |-> FileRenameInp, FileRenameOut |-> FileRenameOut,
     RodsEnv |-> RodsEnv, OperProgress |-> OperProgress,
     RuleExecInfo |-> RuleExecInfo, ThreadContext |-> ThreadContext,
     CollEnt |-> CollEnt, ModAccessControlInp |-> ModAccessControlInp,
     MsParam |-> MsParam, MsParamArray |-> MsParamArray,
     SpecColl |-> SpecColl, KeyValPair |-> KeyValPair,
     DataObjInfo |-> DataObjInfo, CollInfo |-> CollInfo,
     InxIvalPair |-> InxIvalPair, InxValPair |-> InxValPair,
     TransferStat |-> TransferStat, CollOprStat |-> CollOprStat,
     SubFile |-> SubFile, RodsObjStat |-> RodsObjStat, DataSeg |-> DataSeg,
     FileRestartInfo |-> FileRestartInfo, FileRestart |-> FileRestart,
     RcComm |-> RcComm, PerfStat |-> PerfStat, RsComm |-> RsComm,
     BytesBuf |-> BytesBuf, MsgHeader |-> MsgHeader, Version |-> Version,
     RodsHostAddr |-> RodsHostAddr, RErrMsg |-> RErrMsg, RError |-> RError,
     GenQueryInp |-> GenQueryInp, SqlResult |-> SqlResult,
     GenQueryOut |-> GenQueryOut, RodsStat |-> RodsStat,
     RodsDirent |-> RodsDirent, AuthInfo |-> AuthInfo,
     UserOtherInfo |-> UserOtherInfo, UserInfo |-> UserInfo,
     RuleExecDelInp |-> RuleExecDelInp,
     RuleExecSubmitInp |-> RuleExecSubmitInp,
     SpecificQueryInp |-> SpecificQueryInp,
     StructFileExtAndRegInp |-> StructFileExtAndRegInp,
     StructFileOprInp |-> StructFileOprInp,
     SubStructFileFdOprInp |-> SubStructFileFdOprInp, In_Addr |-> In_Addr,
     Sockaddr_In |-> Sockaddr_In]
=============================================================================
