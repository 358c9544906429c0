----------------------------- MODULE ClientCalls -----------------------------
(***************************************************************************)
(* The clients of the instance manager (pkg/client), and the commands of   *)
(* its command line that use one of them (app/cmd).  All methods share one *)
(* form: return an error if a parameter they need is empty or invalid,     *)
(* derive a context with a deadline, send the request, and turn the reply  *)
(* into a result.                                                          *)
(***************************************************************************)
EXTENDS Steps

(* A method: the parameters it checks ("label", "signal" and the like      *)
(* stand for a check of a parameter's form), whether it needs the name of  *)
(* the engine frontend for v2, and whether its context has a deadline      *)
(* (three minutes, six, or more than a day; only a stream has none).       *)
Method(needs, frontend, deadline) ==
    [needs |-> needs, frontend |-> frontend, deadline |-> deadline]

Unary(needs) == Method(needs, FALSE, TRUE)
UnaryOfFrontend(needs) == Method(needs, TRUE, TRUE)
Streamed(needs) == Method(needs, FALSE, FALSE)

(* validateProxyMethodParameters and the other checks.  The frontend is    *)
(* asked for only if the data engine is spelled "v2".                      *)
dataEngineV2 == "v2"
Needs(method, spelling) ==
    method.needs \cup
    (IF method.frontend /\ spelling = dataEngineV2 THEN {"engineFrontendName"} ELSE {})

(* Every name that ends in v2, in capitals or not, is v2; all others,      *)
(* known or not, are v1.                                                   *)
Spellings == {"v1", "v2", "V2"}
getDataEngine(spelling) == IF spelling \in {"v2", "V2"} THEN "V2" ELSE "V1"

(* Mutant of Hears: the caller looks at the error of the call only.        *)
Hears_NoTaskError(reply) == IF reply = "taskerror" THEN "ok" ELSE reply

(* BackupRestore makes an error of the one in the reply.                   *)
Hears(reply) == IF reply = "taskerror" THEN "error" ELSE reply

-----------------------------------------------------------------------------
(* proxy_*.go                                                              *)
OfEngine == {"engineName", "volumeName", "serviceAddress"}

ReplicaAdd == Unary(OfEngine \cup {"replicaName", "replicaAddress"})
ReplicaList == Unary(OfEngine)
ReplicaRebuildingStatus == Unary(OfEngine)
ReplicaRebuildingQosSet == Unary(OfEngine)
ReplicaVerifyRebuild == Unary(OfEngine \cup {"replicaAddress", "replicaName"})
ReplicaRemove == Unary({"serviceAddress", "engineName", "replicaAddressOrName"})
ReplicaModeUpdate == Unary({"serviceAddress", "replicaAddress"})
ReplicaRebuildConcurrentSyncLimitSet == Unary(OfEngine)
ReplicaRebuildConcurrentSyncLimitGet == Unary(OfEngine)

VolumeSnapshot == UnaryOfFrontend(OfEngine \cup {"label"})
SnapshotList == Unary(OfEngine)
SnapshotClone ==
    Unary(OfEngine \cup {"snapshotName", "fromEngineAddress", "fromVolumeName",
                         "fromEngineName"})
SnapshotCloneStatus == Unary(OfEngine)
SnapshotRevert == UnaryOfFrontend(OfEngine \cup {"name", "notVolumeHead"})

(* Mutant of SnapshotPurge: the frontend is not asked for.                 *)
SnapshotPurge_NoFrontend == Unary(OfEngine)

SnapshotPurge == UnaryOfFrontend(OfEngine)
SnapshotPurgeStatus == Unary(OfEngine)
SnapshotRemove == UnaryOfFrontend(OfEngine)
SnapshotHash == Unary(OfEngine)
SnapshotHashStatus == Unary(OfEngine)

VolumeGet == Unary(OfEngine)
VolumeExpand == UnaryOfFrontend(OfEngine)
VolumeFrontendStart == Unary(OfEngine \cup {"frontendName"})
VolumeFrontendShutdown == Unary(OfEngine)

(* The text of a number or of a flag, which they check too, is not empty.  *)
VolumeUnmapMarkSnapChainRemovedSet == Unary(OfEngine)
VolumeSnapshotMaxCountSet == Unary(OfEngine)
VolumeSnapshotMaxSizeSet == Unary(OfEngine)
RemountReadOnlyVolume == Unary({"volumeName"})
MetricsGet == Unary(OfEngine \cup {"dataEngine"})

CleanupBackupMountPoints == Unary({})
SnapshotBackup == Unary(OfEngine)
SnapshotBackupStatus == Unary(OfEngine \cup {"backupName"})
BackupRestore == Unary(OfEngine \cup {"url", "target", "backupVolumeName"})
BackupRestoreStatus == Unary(OfEngine)

SPDKBackingImageCreate == Unary({"name", "backingImageUUID", "checksum", "diskUUID", "size"})
SPDKBackingImageDelete == Unary({"name", "diskUUID"})
SPDKBackingImageGet == Unary({"name", "diskUUID"})
SPDKBackingImageList == Unary({})

ServerVersionGet == Unary({"serviceAddress"})

-----------------------------------------------------------------------------
(* instance.go and disk.go                                                 *)

InstanceCreate == Unary({"name", "instanceType"})
InstanceDelete == Unary({"name"})
InstanceGet == Unary({"name"})
InstanceList == Unary({})
InstanceLog == Streamed({"name"})
InstanceReplace == Unary({"name", "binary", "terminateSignal"})
InstanceSuspend == Unary({"name"})
InstanceResume == Unary({"name"})
InstanceSwitchOverTarget == Unary({"name", "targetAddress"})
InstanceDeleteTarget == Unary({"name"})
LogSetLevel == Unary({})
LogSetFlags == Unary({})
LogGetLevel == Unary({})
LogGetFlags == Unary({})

DiskCreate == Unary({"diskName", "diskPath", "diskType"})
DiskDelete == Unary({"diskName"})
DiskGet == Unary({"diskName", "diskType"})
DiskHealthGet == Unary({"diskName", "diskType"})
DiskReplicaInstanceList == Unary({"diskName"})
DiskReplicaInstanceDelete == Unary({"diskName", "diskUUID", "replicaInstanceName"})
DiskMetricsGet == Unary({"diskName", "diskType"})

CheckConnection == Unary({})
VersionGet == Unary({})

Methods ==
    [ReplicaAdd |-> ReplicaAdd, ReplicaList |-> ReplicaList,
     ReplicaRebuildingStatus |-> ReplicaRebuildingStatus,
     ReplicaRebuildingQosSet |-> ReplicaRebuildingQosSet,
     ReplicaVerifyRebuild |-> ReplicaVerifyRebuild, ReplicaRemove |-> ReplicaRemove,
     ReplicaModeUpdate |-> ReplicaModeUpdate,
     ReplicaRebuildConcurrentSyncLimitSet |-> ReplicaRebuildConcurrentSyncLimitSet,
     ReplicaRebuildConcurrentSyncLimitGet |-> ReplicaRebuildConcurrentSyncLimitGet,
     VolumeSnapshot |-> VolumeSnapshot, SnapshotList |-> SnapshotList,
     SnapshotClone |-> SnapshotClone, SnapshotCloneStatus |-> SnapshotCloneStatus,
     SnapshotRevert |-> SnapshotRevert, SnapshotPurge |-> SnapshotPurge,
     SnapshotPurgeStatus |-> SnapshotPurgeStatus, SnapshotRemove |-> SnapshotRemove,
     SnapshotHash |-> SnapshotHash, SnapshotHashStatus |-> SnapshotHashStatus,
     VolumeGet |-> VolumeGet, VolumeExpand |-> VolumeExpand,
     VolumeFrontendStart |-> VolumeFrontendStart,
     VolumeFrontendShutdown |-> VolumeFrontendShutdown,
     VolumeUnmapMarkSnapChainRemovedSet |-> VolumeUnmapMarkSnapChainRemovedSet,
     VolumeSnapshotMaxCountSet |-> VolumeSnapshotMaxCountSet,
     VolumeSnapshotMaxSizeSet |-> VolumeSnapshotMaxSizeSet,
     RemountReadOnlyVolume |-> RemountReadOnlyVolume, MetricsGet |-> MetricsGet,
     CleanupBackupMountPoints |-> CleanupBackupMountPoints,
     SnapshotBackup |-> SnapshotBackup, SnapshotBackupStatus |-> SnapshotBackupStatus,
     BackupRestore |-> BackupRestore, BackupRestoreStatus |-> BackupRestoreStatus,
     SPDKBackingImageCreate |-> SPDKBackingImageCreate,
     SPDKBackingImageDelete |-> SPDKBackingImageDelete,
     SPDKBackingImageGet |-> SPDKBackingImageGet,
     SPDKBackingImageList |-> SPDKBackingImageList, ServerVersionGet |-> ServerVersionGet,
     InstanceCreate |-> InstanceCreate, InstanceDelete |-> InstanceDelete,
     InstanceGet |-> InstanceGet, InstanceList |-> InstanceList,
     InstanceLog |-> InstanceLog, InstanceReplace |-> InstanceReplace,
     InstanceSuspend |-> InstanceSuspend, InstanceResume |-> InstanceResume,
     InstanceSwitchOverTarget |-> InstanceSwitchOverTarget,
     InstanceDeleteTarget |-> InstanceDeleteTarget, LogSetLevel |-> LogSetLevel,
     LogSetFlags |-> LogSetFlags, LogGetLevel |-> LogGetLevel, LogGetFlags |-> LogGetFlags,
     DiskCreate |-> DiskCreate, DiskDelete |-> DiskDelete, DiskGet |-> DiskGet,
     DiskHealthGet |-> DiskHealthGet, DiskReplicaInstanceList |-> DiskReplicaInstanceList,
     DiskReplicaInstanceDelete |-> DiskReplicaInstanceDelete,
     DiskMetricsGet |-> DiskMetricsGet, CheckConnection |-> CheckConnection,
     VersionGet |-> VersionGet]

-----------------------------------------------------------------------------
(* process_manager.go, and the commands that call it: a command opens a    *)
(* client (without TLS if it cannot be had with it), calls the method, and *)
(* prints what it returns.                                                 *)

ProcessCreate == Unary({"name", "binary"})
ProcessDelete == Unary({"name"})
ProcessGet == Unary({"name"})
ProcessList == Unary({})
ProcessReplace == Unary({"name", "binary", "terminateSignal"})

Command(method, name) ==
    {Manager(name) \o <<Call("PrintJSON")>>}
    \cup (IF method.needs # {} THEN {<<Open("pm"), Refuse>>} ELSE {})

createProcess == Command(ProcessCreate, "ProcessCreate")
deleteProcess == Command(ProcessDelete, "ProcessDelete")
getProcess == Command(ProcessGet, "ProcessGet")
listProcess == Command(ProcessList, "ProcessList")
replaceProcess == Command(ProcessReplace, "ProcessReplace")

(* The client's version, and the server's unless only the former is asked. *)
version == {<<Call("MarshalIndent")>>} \cup Command(VersionGet, "VersionGet")
=============================================================================
