---------------------------- MODULE InstanceCalls ----------------------------
(***************************************************************************)
(* The handlers of the instance service (pkg/instance) and of the disk     *)
(* service (pkg/disk), as scripts of Steps; InstanceWatch has the watch    *)
(* call.  VersionGet and Check are those of all services.                  *)
(***************************************************************************)
EXTENDS Steps

-----------------------------------------------------------------------------
(* instance.go.  With the v2 data engine an instance is an object of SPDK, *)
(* of one of five types; a handler refuses a type it does not know after   *)
(* it has created its client.                                              *)

RefusedBySPDK == <<Open("spdk"), Refuse>>

(* V1 refuses a sharded layout and a request without a process spec.  V2   *)
(* refuses a shard whose name is not the derived one and a shard group     *)
(* without shards.                                                         *)
InstanceCreate ==
    ByEngine({<<Refuse>>, Manager("ProcessCreate")},
             {SPDK("EngineCreate"), SPDK("EngineFrontendCreate"), SPDK("ReplicaCreate"),
              SPDK("ShardCreate"), SPDK("ShardGroupCreate"), RefusedBySPDK})

(* An engine is deleted only if the request asks for cleanup.              *)
InstanceDelete ==
    ByEngine({Manager("ProcessDelete")},
             {<<Open("spdk")>>, SPDK("EngineDelete"), SPDK("EngineFrontendDelete"),
              SPDK("ReplicaDelete"), SPDK("ShardDelete"), SPDK("ShardGroupDelete"),
              RefusedBySPDK})

InstanceGet ==
    ByEngine({Manager("ProcessGet")},
             {SPDK("EngineGet"), SPDK("EngineFrontendGet"), SPDK("ReplicaGet"),
              SPDK("ShardGet"), SPDK("ShardGroupGet"), RefusedBySPDK})

ListV1 == Manager("ProcessList") \o <<Close("pm")>>
ListV2 == SPDK("ReplicaList") \o <<Call("EngineList"), Call("EngineFrontendList"),
                                   Call("ShardList"), Call("ShardGroupList")>>

(* Of all data engines that are enabled.                                   *)
InstanceList == {ListV1, ListV1 \o ListV2}

(* V1 refuses a request without a process spec.                            *)
InstanceReplace == ByEngine({<<Refuse>>, Manager("ProcessReplace")}, Unimplemented)

(* Lines are received and sent until the end of the log.                   *)
InstanceLog == ByEngine({Manager("ProcessLog") \o <<Stream>>}, Unimplemented)

InstanceSuspend == ByEngine(Unimplemented, {SPDK("EngineFrontendSuspend"), RefusedBySPDK})
InstanceResume == ByEngine(Unimplemented, {SPDK("EngineFrontendResume"), RefusedBySPDK})
InstanceSwitchOverTarget ==
    ByEngine(Unimplemented, {SPDK("EngineFrontendSwitchOver"), RefusedBySPDK})
InstanceDeleteTarget == ByEngine(Unimplemented, {SPDK("EngineDeleteTarget"), RefusedBySPDK})

-----------------------------------------------------------------------------
(* log.go.  The level of v1 is the instance manager's own.                 *)

LogSetLevel == ByEngine({<<Call("ParseLevel")>>}, {SPDK("LogSetLevel")})
LogSetFlags == ByEngine({<<>>}, {SPDK("LogSetFlags")})
LogGetLevel == ByEngine({<<>>}, {<<>>})
LogGetFlags == ByEngine({<<>>}, {SPDK("LogGetFlags")})

-----------------------------------------------------------------------------
(* disk.go.  A request without the names it needs, and every request for   *)
(* a disk that is not a block device, is refused; the others go to SPDK    *)
(* over a client that lives as long as the server (and exists only if SPDK *)
(* is enabled, as it is here).                                             *)

OfBlockDisk(method) == {<<Refuse>>, <<Call(method)>>}

DiskCreate == OfBlockDisk("DiskCreate")
DiskDelete == OfBlockDisk("DiskDelete")
DiskGet == OfBlockDisk("DiskGet")
DiskHealthGet == OfBlockDisk("DiskHealthGet")
DiskReplicaInstanceList == OfBlockDisk("ReplicaList")
DiskReplicaInstanceDelete == OfBlockDisk("ReplicaDelete")
DiskMetricsGet == OfBlockDisk("MetricsGet")

-----------------------------------------------------------------------------
(* The version of the instance, disk or process manager service, a         *)
(* constant, and the health check that CheckConnection makes: each of the  *)
(* servers is there, or the program has not come to serve it.              *)

VersionGet == {<<>>}
Check == {<<>>}
=============================================================================
