----------------------------- MODULE ProxyCalls -----------------------------
(***************************************************************************)
(* The handlers of the proxy service (pkg/proxy), as scripts of Steps.  A  *)
(* handler looks up the operations of the request's data engine and does   *)
(* what that engine's version of it does.                                  *)
(***************************************************************************)
EXTENDS Steps, FiniteSets, SequencesExt

CONSTANTS
    Keys,       \* the keys of backupEnvAllowlist
    Unknown     \* a key that is not in it

ASSUME KeysAssumption == IsFiniteSet(Keys) /\ Unknown \notin Keys

-----------------------------------------------------------------------------
(* replica.go                                                              *)

ReplicaAdd ==
    ByEngine({Task("AddRestoreReplica"), Task("AddReplica")},
             {SPDK("EngineFrontendReplicaAdd")})

(* Every replica the engine knows must have an address.                    *)
ReplicaList ==
    ByEngine({Controller("ReplicaList")},
             {SPDK("EngineGet") \o <<Call("ReplicaAddressMap")>>})

ReplicaRebuildingStatus ==
    ByEngine({Task("RebuildStatus")}, {SPDK("EngineGet") \o <<Scan("rebuilding")>>})

ReplicaRebuildingQosSet ==
    ByEngine(Unimplemented, {SPDK("EngineGet") \o <<Scan("qos")>>})

ReplicaVerifyRebuild == ByEngine({Task("VerifyRebuildReplica")}, Unimplemented)

(* An error ends it and is logged.                                         *)
CancelSnapshotHashes ==
    <<Try("ReplicaList", 3), Try("GetSnapshotsInfo", 2),
      TryOpen("task", 1), Try("CancelSnapshotHashJob", 0)>>

ReplicaRemove ==
    ByEngine({<<Open("controller")>> \o CancelSnapshotHashes \o <<Call("ReplicaDelete")>>},
             {SPDK("EngineReplicaDelete")})

ReplicaModeUpdate == ByEngine({Controller("ReplicaUpdate")}, Unimplemented)

ReplicaRebuildConcurrentSyncLimitSet ==
    ByEngine({Controller("ReplicaRebuildConcurrentSyncLimitSet")}, Unimplemented)

ReplicaRebuildConcurrentSyncLimitGet ==
    ByEngine({Controller("ReplicaRebuildConcurrentSyncLimitGet")}, Unimplemented)

-----------------------------------------------------------------------------
(* snapshot.go                                                             *)

VolumeSnapshot ==
    ByEngine({Controller("VolumeSnapshot")}, {SPDK("EngineFrontendSnapshotCreate")})

SnapshotList ==
    ByEngine({Controller("ReplicaList") \o <<Call("GetSnapshotsInfo")>>}, {SPDK("EngineGet")})

SnapshotClone ==
    ByEngine({<<Open("controller_from"), Open("controller"), Call("CloneSnapshot")>>},
             {SPDK("EngineSnapshotClone")})

SnapshotCloneStatus ==
    ByEngine({Controller("CloneStatus")}, {SPDK("EngineGet") \o <<Scan("clone")>>})

SnapshotRevert ==
    ByEngine({Controller("VolumeRevert")}, {SPDK("EngineFrontendSnapshotRevert")})

(* The v2 data engine's error is dropped.                                  *)
SnapshotPurge ==
    ByEngine({Task("PurgeSnapshots")},
             {<<Open("spdk"), Try("EngineFrontendSnapshotPurge", 0)>>})

SnapshotPurgeStatus == ByEngine({Task("PurgeSnapshotStatus")}, {<<>>})

(* Mutant of SnapshotRemove: an error is logged and forgotten.             *)
SnapshotRemove_LoggedOnly ==
    LET each(method) == {<<>>, <<Try(method, 0)>>, <<Try(method, 0), Try(method, 0)>>}
    IN  ByEngine({<<Open("task")>> \o e : e \in each("DeleteSnapshot")},
                 {<<Open("spdk")>> \o e : e \in each("EngineFrontendSnapshotDelete")})

(* For each of the request's names; the last error is returned.            *)
SnapshotRemove ==
    LET each(method) == {<<>>, <<Each(method)>>, <<Each(method), Each(method)>>}
    IN  ByEngine({<<Open("task")>> \o e : e \in each("DeleteSnapshot")},
                 {<<Open("spdk")>> \o e : e \in each("EngineFrontendSnapshotDelete")})

SnapshotHash == ByEngine({Task("HashSnapshot")}, {SPDK("EngineSnapshotHash")})

SnapshotHashStatus ==
    ByEngine({Task("HashSnapshotStatus")}, {SPDK("EngineSnapshotHashStatus")})

-----------------------------------------------------------------------------
(* volume.go and metrics.go                                                *)

(* The engine comes from the local SPDK service; the frontend, which may   *)
(* be on another node, only adds to the answer.                            *)
VolumeGet ==
    ByEngine({Controller("VolumeGet")},
             {SPDK("EngineGet"),
              SPDK("EngineGet") \o <<TryOpen("frontend", 1), Try("EngineFrontendGet", 0)>>})

VolumeExpand == ByEngine({Controller("VolumeExpand")}, {SPDK("EngineFrontendExpand")})

VolumeFrontendStart == ByEngine({Controller("VolumeFrontendStart")}, Unimplemented)

VolumeFrontendShutdown == ByEngine({Controller("VolumeFrontendShutdown")}, Unimplemented)

VolumeUnmapMarkSnapChainRemovedSet ==
    ByEngine({Controller("VolumeUnmapMarkSnapChainRemovedSet")}, Unimplemented)

VolumeSnapshotMaxCountSet ==
    ByEngine({Controller("VolumeSnapshotMaxCountSet")}, {SPDK("EngineSnapshotMaxCountSet")})

VolumeSnapshotMaxSizeSet ==
    ByEngine({Controller("VolumeSnapshotMaxSizeSet")}, Unimplemented)

(* Only a volume that is mounted is mounted again.                         *)
RemountReadOnlyVolume ==
    LET prepare == <<Call("GetVolumeMountPointMap"), Call("NewNamespaceExecutor")>>
    IN  {prepare, prepare \o <<Call("mount")>>}

MetricsGet == ByEngine({Controller("MetricsGet")}, {SPDK("MetricsGet")})

-----------------------------------------------------------------------------
(* backup.go.  The credentials of a backup target travel through the       *)
(* environment of the instance manager: setEnv puts the request's entries  *)
(* there, GetBackupCredential of the backupstore library (external) takes  *)
(* them from there, a key at a time.                                       *)

(* validateBackupEnv: one entry that is not allowed rejects the request.   *)
ValidBackupEnv(envs) == \A i \in DOMAIN envs : envs[i] \in Keys

Exports(envs) == [i \in DOMAIN envs |-> Export(envs[i])]

(* Mutant of SetEnv: an entry is looked at when it is its turn.            *)
SetEnv_EntryByEntry(envs) ==
    [i \in DOMAIN envs |-> IF envs[i] \in Keys THEN Export(envs[i]) ELSE Refuse]

SetEnv(envs) == IF ValidBackupEnv(envs) THEN Exports(envs) ELSE <<Refuse>>

GetBackupCredential ==
    [i \in 1 .. Cardinality(Keys) |-> Read(SetToSeq(Keys)[i])] \o <<Call("GetBackupCredential")>>

(* The data engine is looked up only then.                                 *)
WithCredential(envs, script) == SetEnv(envs) \o GetBackupCredential \o script

SnapshotBackup(envs) ==
    [V1    |-> {WithCredential(envs, Task("CreateBackup"))},
     V2    |-> {WithCredential(envs, SPDK("EngineBackupCreate"))},
     other |-> {WithCredential(envs, <<Refuse>>)}]

(* What the data engine fails at is reported in the reply, in JSON if it is*)
(* a TaskError and as text if not.  Neither fails: a TaskError holds text, *)
(* and no other error that comes here has a field that JSON would show.    *)
BackupRestore(envs) ==
    [V1    |-> {WithCredential(envs, <<ErrorsInReply>> \o Task("RestoreBackup"))},
     V2    |-> {WithCredential(envs, <<ErrorsInReply>> \o SPDK("EngineBackupRestore"))},
     other |-> {WithCredential(envs, <<Refuse>>)}]

(* V1: the replica of the request or the first that has the backup; it     *)
(* must be RW.  ReplicaList has a controller client of its own.  V2: the   *)
(* status of the request's replica, which must not be empty, or of the     *)
(* first replica that has it.                                              *)
SnapshotBackupStatus ==
    LET replicas == <<Open("controller"), Open("controller_list"), Call("ReplicaList"),
                      Close("controller_list")>>
        fetch == <<Open("replica"), Call("FetchBackupStatus")>>
    IN  ByEngine({replicas \o <<Call("ReplicaIsRW")>> \o fetch,
                  replicas \o <<Scan("backup_v1")>> \o fetch},
                 {SPDK("EngineBackupStatus"), SPDK("EngineGet") \o <<Scan("backup_v2")>>})

BackupRestoreStatus == ByEngine({Task("RestoreStatus")}, {SPDK("EngineRestoreStatus")})

CleanupBackupMountPoints == {<<Call("CleanUpAllMounts")>>}

-----------------------------------------------------------------------------
(* backing_image.go, over a client that lives as long as the proxy, and    *)
(* proxy.go.                                                               *)

SPDKBackingImageCreate == {<<Call("BackingImageCreate")>>}
SPDKBackingImageDelete == {<<Call("BackingImageDelete")>>}
SPDKBackingImageGet == {<<Call("BackingImageGet")>>}
SPDKBackingImageList == {<<Call("BackingImageList")>>}

ServerVersionGet == {Controller("VersionDetailGet")}
=============================================================================
