------------------------------ MODULE DataModel ------------------------------
(***************************************************************************)
(* The clusters of the device as its generated tables describe them: what  *)
(* a controller may ask for (endpoint_config.h), which privilege it takes  *)
(* (access.h), which of it the firmware has compiled in                    *)
(* (static-cluster-config) and which commands have a case in the           *)
(* dispatcher (IMClusterCommandHandler.cpp).  The tables are generated     *)
(* from one file, lock-app.zap, but kept apart; nothing in the firmware    *)
(* compares them.                                                          *)
(*                                                                         *)
(* Clusters, commands and attributes go by their names; Descriptor is the  *)
(* same on both endpoints.                                                 *)
(***************************************************************************)
EXTENDS Naturals

-----------------------------------------------------------------------------
(***************************************************************************)
(* endpoint_config.h                                                       *)
(***************************************************************************)

ClustersOf == [root |->
        {"Descriptor", "AccessControl", "BasicInformation", "GeneralCommissioning",
         "NetworkCommissioning", "GeneralDiagnostics", "AdministratorCommissioning",
         "OperationalCredentials", "GroupKeyManagement"},
    lock |-> {"Identify", "Descriptor", "DoorLock"}]

Endpoints == DOMAIN ClustersOf
Clusters == UNION {ClustersOf[e] : e \in Endpoints}

Attributes == [
    AccessControl |->
        {"ACL", "Extension", "SubjectsPerAccessControlEntry",
        "TargetsPerAccessControlEntry", "AccessControlEntriesPerFabric",
        "FeatureMap", "ClusterRevision"},
    AdministratorCommissioning |->
        {"WindowStatus", "AdminFabricIndex", "AdminVendorId", "FeatureMap",
        "ClusterRevision"},
    BasicInformation |->
        {"DataModelRevision", "VendorName", "VendorID", "ProductName",
        "ProductID", "NodeLabel", "Location", "HardwareVersion",
        "HardwareVersionString", "SoftwareVersion", "SoftwareVersionString",
        "UniqueID", "CapabilityMinima", "SpecificationVersion",
        "MaxPathsPerInvoke", "ConfigurationVersion", "FeatureMap",
        "ClusterRevision"},
    Descriptor |->
        {"DeviceTypeList", "ServerList", "ClientList", "PartsList",
        "FeatureMap", "ClusterRevision"},
    DoorLock |->
        {"LockState", "LockType", "ActuatorEnabled", "DoorState",
        "NumberOfTotalUsersSupported", "NumberOfPINUsersSupported",
        "NumberOfRFIDUsersSupported",
        "NumberOfWeekDaySchedulesSupportedPerUser",
        "NumberOfYearDaySchedulesSupportedPerUser",
        "NumberOfHolidaySchedulesSupported", "MaxPINCodeLength",
        "MinPINCodeLength", "MaxRFIDCodeLength", "MinRFIDCodeLength",
        "CredentialRulesSupport", "NumberOfCredentialsSupportedPerUser",
        "SoundVolume", "OperatingMode", "SupportedOperatingModes",
        "WrongCodeEntryLimit", "UserCodeTemporaryDisableTime",
        "RequirePINforRemoteOperation", "FeatureMap", "ClusterRevision"},
    GeneralCommissioning |->
        {"Breadcrumb", "BasicCommissioningInfo", "RegulatoryConfig",
        "LocationCapability", "SupportsConcurrentConnection", "FeatureMap",
        "ClusterRevision"},
    GeneralDiagnostics |->
        {"NetworkInterfaces", "RebootCount", "UpTime",
        "TestEventTriggersEnabled", "FeatureMap", "ClusterRevision"},
    GroupKeyManagement |->
        {"GroupKeyMap", "GroupTable", "MaxGroupsPerFabric",
        "MaxGroupKeysPerFabric", "FeatureMap", "ClusterRevision"},
    Identify |->
        {"IdentifyTime", "IdentifyType", "FeatureMap", "ClusterRevision"},
    NetworkCommissioning |->
        {"MaxNetworks", "Networks", "ScanMaxTimeSeconds",
        "ConnectMaxTimeSeconds", "InterfaceEnabled", "LastNetworkingStatus",
        "LastNetworkID", "LastConnectErrorValue", "SupportedWiFiBands",
        "FeatureMap", "ClusterRevision"},
    OperationalCredentials |->
        {"NOCs", "Fabrics", "SupportedFabrics", "CommissionedFabrics",
        "TrustedRootCertificates", "CurrentFabricIndex", "FeatureMap",
        "ClusterRevision"}]

(* Every cluster has these as well; the SDK provides them. *)
GlobalAttributes == {"AcceptedCommandList", "GeneratedCommandList", "AttributeList"}

Writable == [
    AccessControl |-> {"ACL", "Extension"},
    AdministratorCommissioning |-> {},
    BasicInformation |-> {"NodeLabel", "Location"},
    Descriptor |-> {},
    DoorLock |->
        {"SoundVolume", "OperatingMode", "WrongCodeEntryLimit",
        "UserCodeTemporaryDisableTime", "RequirePINforRemoteOperation"},
    GeneralCommissioning |-> {"Breadcrumb"},
    GeneralDiagnostics |-> {},
    GroupKeyManagement |-> {"GroupKeyMap"},
    Identify |-> {"IdentifyTime"},
    NetworkCommissioning |-> {"InterfaceEnabled"},
    OperationalCredentials |-> {}]

AcceptedCommands == [
    AccessControl |-> {},
    AdministratorCommissioning |->
        {"OpenCommissioningWindow", "RevokeCommissioning"},
    BasicInformation |-> {},
    Descriptor |-> {},
    DoorLock |->
        {"LockDoor", "UnlockDoor", "UnlockWithTimeout", "SetWeekDaySchedule",
        "GetWeekDaySchedule", "ClearWeekDaySchedule", "SetYearDaySchedule",
        "GetYearDaySchedule", "ClearYearDaySchedule", "SetHolidaySchedule",
        "GetHolidaySchedule", "ClearHolidaySchedule", "SetUser", "GetUser",
        "ClearUser", "SetCredential", "GetCredentialStatus", "ClearCredential",
        "UnboltDoor"},
    GeneralCommissioning |->
        {"ArmFailSafe", "SetRegulatoryConfig", "CommissioningComplete"},
    GeneralDiagnostics |-> {"TestEventTrigger", "TimeSnapshot"},
    GroupKeyManagement |->
        {"KeySetWrite", "KeySetRead", "KeySetRemove", "KeySetReadAllIndices"},
    Identify |-> {"Identify", "TriggerEffect"},
    NetworkCommissioning |->
        {"ScanNetworks", "AddOrUpdateWiFiNetwork", "RemoveNetwork",
        "ConnectNetwork", "ReorderNetwork", "QueryIdentity"},
    OperationalCredentials |->
        {"AttestationRequest", "CertificateChainRequest", "CSRRequest",
        "AddNOC", "UpdateNOC", "UpdateFabricLabel", "RemoveFabric",
        "AddTrustedRootCertificate", "SetVIDVerificationStatement",
        "SignVIDVerificationRequest"}]

(* The responses. *)
GeneratedCommands == [
    AccessControl |-> {},
    AdministratorCommissioning |-> {},
    BasicInformation |-> {},
    Descriptor |-> {},
    DoorLock |->
        {"GetWeekDayScheduleResponse", "GetYearDayScheduleResponse",
        "GetHolidayScheduleResponse", "GetUserResponse",
        "SetCredentialResponse", "GetCredentialStatusResponse"},
    GeneralCommissioning |->
        {"ArmFailSafeResponse", "SetRegulatoryConfigResponse",
        "CommissioningCompleteResponse"},
    GeneralDiagnostics |-> {"TimeSnapshotResponse"},
    GroupKeyManagement |->
        {"KeySetReadResponse", "KeySetReadAllIndicesResponse"},
    Identify |-> {},
    NetworkCommissioning |->
        {"ScanNetworksResponse", "NetworkConfigResponse",
        "ConnectNetworkResponse", "QueryIdentityResponse"},
    OperationalCredentials |->
        {"AttestationResponse", "CertificateChainResponse", "CSRResponse",
        "NOCResponse", "SignVIDVerificationResponse"}]

-----------------------------------------------------------------------------
(***************************************************************************)
(* IMClusterCommandHandler.cpp: the cases of each DispatchServerCommand.   *)
(***************************************************************************)
LockCases == {"LockDoor", "UnlockDoor", "UnlockWithTimeout"}
ScheduleCases == {"SetWeekDaySchedule", "GetWeekDaySchedule", "ClearWeekDaySchedule",
                  "SetYearDaySchedule", "GetYearDaySchedule", "ClearYearDaySchedule",
                  "SetHolidaySchedule", "GetHolidaySchedule", "ClearHolidaySchedule"}
UserCases == {"SetUser", "GetUser", "ClearUser"}
CredentialCases == {"SetCredential", "GetCredentialStatus", "ClearCredential"}
DoorLockCases == LockCases \cup ScheduleCases \cup UserCases \cup CredentialCases \cup {"UnboltDoor"}

(* Slip: a case is missing. *)
GroupKeyManagementCasesShort == {"KeySetWrite", "KeySetRead", "KeySetRemove"}

GroupKeyManagementCases == {"KeySetWrite", "KeySetRead", "KeySetRemove", "KeySetReadAllIndices"}
IdentifyCases == {"Identify", "TriggerEffect"}
OperationalCredentialsCases ==
    {"AttestationRequest", "CertificateChainRequest", "CSRRequest", "AddNOC", "UpdateNOC",
     "UpdateFabricLabel", "RemoveFabric", "AddTrustedRootCertificate",
     "SetVIDVerificationStatement", "SignVIDVerificationRequest"}

(* A command that does not decode, or that its callback does not handle,   *)
(* is invalid.                                                             *)
DispatchServerCommand(cases, command, decodes) ==
    IF command \notin cases THEN "UnsupportedCommand"
    ELSE IF ~decodes THEN "InvalidCommand" ELSE "Success"

DispatchSingleClusterCommand(c, command, decodes) ==
    CASE c = "DoorLock" -> DispatchServerCommand(DoorLockCases, command, decodes)
      [] c = "GroupKeyManagement" -> DispatchServerCommand(GroupKeyManagementCases, command, decodes)
      [] c = "Identify" -> DispatchServerCommand(IdentifyCases, command, decodes)
      [] c = "OperationalCredentials" ->
             DispatchServerCommand(OperationalCredentialsCases, command, decodes)
      [] OTHER -> "UnsupportedCluster"

-----------------------------------------------------------------------------
(***************************************************************************)
(* access.h.  Each privilege includes those below it; what has no entry    *)
(* takes View to read, Operate to write and Operate to invoke (the SDK).   *)
(***************************************************************************)
None == 0
View == 1
Operate == 3
Manage == 4
Administer == 5
Privileges == {None, View, Operate, Manage, Administer}

ReadPrivilege(c, a) ==
    IF <<c, a>> \in {"AccessControl"} \X {"ACL", "Extension"}
                   \cup {"NetworkCommissioning"} \X {"MaxNetworks", "Networks", "LastNetworkingStatus",
                                                    "LastNetworkID", "LastConnectErrorValue"}
                   \cup {<<"OperationalCredentials", "NOCs">>}
      THEN Administer ELSE View

(* Slip: the settings of the lock have no entries. *)
WritePrivilegeUnlisted(c, a) == IF c = "AccessControl" THEN Administer ELSE Operate

WritePrivilege(c, a) ==
    IF <<c, a>> \in {"AccessControl"} \X {"ACL", "Extension"}
                   \cup {"DoorLock"} \X {"WrongCodeEntryLimit", "UserCodeTemporaryDisableTime",
                                        "RequirePINforRemoteOperation"}
                   \cup {<<"BasicInformation", "Location">>, <<"GeneralCommissioning", "Breadcrumb">>,
                         <<"NetworkCommissioning", "InterfaceEnabled">>}
      THEN Administer
    ELSE IF <<c, a>> \in {"DoorLock"} \X {"SoundVolume", "OperatingMode"}
                        \cup {<<"BasicInformation", "NodeLabel">>, <<"GroupKeyManagement", "GroupKeyMap">>}
      THEN Manage ELSE Operate

InvokePrivilege(c, command) ==
    IF \/ c \in {"GeneralCommissioning", "NetworkCommissioning", "AdministratorCommissioning",
                "OperationalCredentials", "GroupKeyManagement"}
       \/ c = "DoorLock" /\ command \in ScheduleCases \cup UserCases \cup CredentialCases
      THEN Administer
    ELSE IF c = "Identify" \/ command = "TestEventTrigger"
      THEN Manage ELSE Operate

-----------------------------------------------------------------------------
(***************************************************************************)
(* static-cluster-config: the same for some endpoint as for the one that   *)
(* has the cluster.                                                        *)
(***************************************************************************)

AccessControlEnabled == [
    attributes |->
        {"AcceptedCommandList", "AccessControlEntriesPerFabric", "ACL",
        "AttributeList", "ClusterRevision", "Extension", "FeatureMap",
        "GeneratedCommandList", "SubjectsPerAccessControlEntry",
        "TargetsPerAccessControlEntry"},
    commands |-> {}]

AdministratorCommissioningEnabled == [
    attributes |->
        {"AcceptedCommandList", "AdminFabricIndex", "AdminVendorId",
        "AttributeList", "ClusterRevision", "FeatureMap",
        "GeneratedCommandList", "WindowStatus"},
    commands |->
        {"OpenCommissioningWindow", "RevokeCommissioning"}]

BasicInformationEnabled == [
    attributes |->
        {"AcceptedCommandList", "AttributeList", "CapabilityMinima",
        "ClusterRevision", "ConfigurationVersion", "DataModelRevision",
        "FeatureMap", "GeneratedCommandList", "HardwareVersion",
        "HardwareVersionString", "Location", "MaxPathsPerInvoke", "NodeLabel",
        "ProductID", "ProductName", "SoftwareVersion", "SoftwareVersionString",
        "SpecificationVersion", "UniqueID", "VendorID", "VendorName"},
    commands |-> {}]

DescriptorEnabled == [
    attributes |->
        {"AcceptedCommandList", "AttributeList", "ClientList",
        "ClusterRevision", "DeviceTypeList", "FeatureMap",
        "GeneratedCommandList", "PartsList", "ServerList"},
    commands |-> {}]

DoorLockEnabled == [
    attributes |->
        {"AcceptedCommandList", "ActuatorEnabled", "AttributeList",
        "ClusterRevision", "CredentialRulesSupport", "DoorState", "FeatureMap",
        "GeneratedCommandList", "LockState", "LockType", "MaxPINCodeLength",
        "MaxRFIDCodeLength", "MinPINCodeLength", "MinRFIDCodeLength",
        "NumberOfCredentialsSupportedPerUser",
        "NumberOfHolidaySchedulesSupported", "NumberOfPINUsersSupported",
        "NumberOfRFIDUsersSupported", "NumberOfTotalUsersSupported",
        "NumberOfWeekDaySchedulesSupportedPerUser",
        "NumberOfYearDaySchedulesSupportedPerUser", "OperatingMode",
        "RequirePINforRemoteOperation", "SoundVolume",
        "SupportedOperatingModes", "UserCodeTemporaryDisableTime",
        "WrongCodeEntryLimit"},
    commands |->
        {"ClearCredential", "ClearHolidaySchedule", "ClearUser",
        "ClearWeekDaySchedule", "ClearYearDaySchedule", "GetCredentialStatus",
        "GetCredentialStatusResponse", "GetHolidaySchedule",
        "GetHolidayScheduleResponse", "GetUser", "GetUserResponse",
        "GetWeekDaySchedule", "GetWeekDayScheduleResponse",
        "GetYearDaySchedule", "GetYearDayScheduleResponse", "LockDoor",
        "SetCredential", "SetCredentialResponse", "SetHolidaySchedule",
        "SetUser", "SetWeekDaySchedule", "SetYearDaySchedule", "UnboltDoor",
        "UnlockDoor", "UnlockWithTimeout"}]

GeneralCommissioningEnabled == [
    attributes |->
        {"AcceptedCommandList", "AttributeList", "BasicCommissioningInfo",
        "Breadcrumb", "ClusterRevision", "FeatureMap", "GeneratedCommandList",
        "LocationCapability", "RegulatoryConfig",
        "SupportsConcurrentConnection"},
    commands |->
        {"ArmFailSafe", "ArmFailSafeResponse", "CommissioningComplete",
        "CommissioningCompleteResponse", "SetRegulatoryConfig",
        "SetRegulatoryConfigResponse"}]

GeneralDiagnosticsEnabled == [
    attributes |->
        {"AcceptedCommandList", "AttributeList", "ClusterRevision",
        "FeatureMap", "GeneratedCommandList", "NetworkInterfaces",
        "RebootCount", "TestEventTriggersEnabled", "UpTime"},
    commands |->
        {"TestEventTrigger", "TimeSnapshot", "TimeSnapshotResponse"}]

GroupKeyManagementEnabled == [
    attributes |->
        {"AcceptedCommandList", "AttributeList", "ClusterRevision",
        "FeatureMap", "GeneratedCommandList", "GroupKeyMap", "GroupTable",
        "MaxGroupKeysPerFabric", "MaxGroupsPerFabric"},
    commands |->
        {"KeySetRead", "KeySetReadAllIndices", "KeySetReadAllIndicesResponse",
        "KeySetReadResponse", "KeySetRemove", "KeySetWrite"}]

IdentifyEnabled == [
    attributes |->
        {"AcceptedCommandList", "AttributeList", "ClusterRevision",
        "FeatureMap", "GeneratedCommandList", "IdentifyTime", "IdentifyType"},
    commands |->
        {"Identify", "TriggerEffect"}]

NetworkCommissioningEnabled == [
    attributes |->
        {"AcceptedCommandList", "AttributeList", "ClusterRevision",
        "ConnectMaxTimeSeconds", "FeatureMap", "GeneratedCommandList",
        "InterfaceEnabled", "LastConnectErrorValue", "LastNetworkID",
        "LastNetworkingStatus", "MaxNetworks", "Networks",
        "ScanMaxTimeSeconds", "SupportedWiFiBands"},
    commands |->
        {"AddOrUpdateWiFiNetwork", "ConnectNetwork", "ConnectNetworkResponse",
        "NetworkConfigResponse", "QueryIdentity", "QueryIdentityResponse",
        "RemoveNetwork", "ReorderNetwork", "ScanNetworks",
        "ScanNetworksResponse"}]

OperationalCredentialsEnabled == [
    attributes |->
        {"AcceptedCommandList", "AttributeList", "ClusterRevision",
        "CommissionedFabrics", "CurrentFabricIndex", "Fabrics", "FeatureMap",
        "GeneratedCommandList", "NOCs", "SupportedFabrics",
        "TrustedRootCertificates"},
    commands |->
        {"AddNOC", "AddTrustedRootCertificate", "AttestationRequest",
        "AttestationResponse", "CertificateChainRequest",
        "CertificateChainResponse", "CSRRequest", "CSRResponse", "NOCResponse",
        "RemoveFabric", "SetVIDVerificationStatement",
        "SignVIDVerificationRequest", "SignVIDVerificationResponse",
        "UpdateFabricLabel", "UpdateNOC"}]

Enabled == [
    AccessControl |-> AccessControlEnabled,
    AdministratorCommissioning |-> AdministratorCommissioningEnabled,
    BasicInformation |-> BasicInformationEnabled,
    Descriptor |-> DescriptorEnabled,
    DoorLock |-> DoorLockEnabled,
    GeneralCommissioning |-> GeneralCommissioningEnabled,
    GeneralDiagnostics |-> GeneralDiagnosticsEnabled,
    GroupKeyManagement |-> GroupKeyManagementEnabled,
    Identify |-> IdentifyEnabled,
    NetworkCommissioning |-> NetworkCommissioningEnabled,
    OperationalCredentials |-> OperationalCredentialsEnabled]
=============================================================================
