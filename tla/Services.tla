------------------------------ MODULE Services ------------------------------
(***************************************************************************)
(* The proxy, instance and disk services at work, and their clients: a     *)
(* client method of ClientCalls checks its parameters and sends a request, *)
(* the handler takes the steps that ProxyCalls and InstanceCalls list,     *)
(* every step that leaves the handler may fail, and the handler answers,   *)
(* or the client gives up before that.                                     *)
(*                                                                         *)
(* All that concurrent handlers share is the environment of the instance   *)
(* manager, which SnapshotBackup and BackupRestore write and read.  Those  *)
(* two interleave here; the others, which commute with everything, run one *)
(* at a time.                                                              *)
(***************************************************************************)
EXTENDS ProxyCalls, InstanceCalls, ReplicaScan, LogStream

C == INSTANCE ClientCalls

CONSTANTS
    Threads,        \* goroutines that serve requests
    EnvLists        \* what requests have as Envs

ASSUME EnvListsAssumption == EnvLists \subseteq Seq(Keys \cup {Unknown})

VARIABLES
    calls,      \* calls[t]: the request that t serves
    env         \* env[k]: where the value of k in the environment comes from

vars == <<calls, env, scan, log>>

-----------------------------------------------------------------------------
(* Requests and their scripts.                                             *)

(* Proxy.ops, Server.ops: looked up by the request's data engine.          *)
EngineHandlers ==
    [ReplicaAdd |-> ReplicaAdd, ReplicaList |-> ReplicaList,
     ReplicaRebuildingStatus |-> ReplicaRebuildingStatus,
     ReplicaRebuildingQosSet |-> ReplicaRebuildingQosSet,
     ReplicaVerifyRebuild |-> ReplicaVerifyRebuild, ReplicaRemove |-> ReplicaRemove,
     ReplicaModeUpdate |-> ReplicaModeUpdate,
     ReplicaRebuildConcurrentSyncLimitSet |-> ReplicaRebuildConcurrentSyncLimitSet,
     ReplicaRebuildConcurrentSyncLimitGet |-> ReplicaRebuildConcurrentSyncLimitGet,
     VolumeSnapshot |-> VolumeSnapshot, SnapshotList |-> SnapshotList,
     SnapshotClone |-> SnapshotClone, SnapshotCloneStatus |-> SnapshotCloneStatus,
     SnapshotRevert |-> SnapshotRevert, SnapshotPurge |-> SnapshotPurge,
     SnapshotPurgeStatus |-> SnapshotPurgeStatus, SnapshotRemove |-> SnapshotRemove,
     SnapshotHash |-> SnapshotHash, SnapshotHashStatus |-> SnapshotHashStatus,
     VolumeGet |-> VolumeGet, VolumeExpand |-> VolumeExpand,
     VolumeFrontendStart |-> VolumeFrontendStart,
     VolumeFrontendShutdown |-> VolumeFrontendShutdown,
     VolumeUnmapMarkSnapChainRemovedSet |-> VolumeUnmapMarkSnapChainRemovedSet,
     VolumeSnapshotMaxCountSet |-> VolumeSnapshotMaxCountSet,
     VolumeSnapshotMaxSizeSet |-> VolumeSnapshotMaxSizeSet, MetricsGet |-> MetricsGet,
     SnapshotBackupStatus |-> SnapshotBackupStatus,
     BackupRestoreStatus |-> BackupRestoreStatus,
     InstanceCreate |-> InstanceCreate, InstanceDelete |-> InstanceDelete,
     InstanceGet |-> InstanceGet, InstanceReplace |-> InstanceReplace,
     InstanceLog |-> InstanceLog, InstanceSuspend |-> InstanceSuspend,
     InstanceResume |-> InstanceResume, InstanceSwitchOverTarget |-> InstanceSwitchOverTarget,
     InstanceDeleteTarget |-> InstanceDeleteTarget,
     LogSetLevel |-> LogSetLevel, LogSetFlags |-> LogSetFlags,
     LogGetLevel |-> LogGetLevel, LogGetFlags |-> LogGetFlags]

OtherHandlers ==
    [RemountReadOnlyVolume |-> RemountReadOnlyVolume,
     CleanupBackupMountPoints |-> CleanupBackupMountPoints,
     SPDKBackingImageCreate |-> SPDKBackingImageCreate,
     SPDKBackingImageDelete |-> SPDKBackingImageDelete,
     SPDKBackingImageGet |-> SPDKBackingImageGet,
     SPDKBackingImageList |-> SPDKBackingImageList,
     ServerVersionGet |-> ServerVersionGet, InstanceList |-> InstanceList,
     DiskCreate |-> DiskCreate, DiskDelete |-> DiskDelete, DiskGet |-> DiskGet,
     DiskHealthGet |-> DiskHealthGet, DiskReplicaInstanceList |-> DiskReplicaInstanceList,
     DiskReplicaInstanceDelete |-> DiskReplicaInstanceDelete,
     DiskMetricsGet |-> DiskMetricsGet, VersionGet |-> VersionGet, CheckConnection |-> Check]

(* The commands that use a client of the process manager.                  *)
Commands ==
    [createProcess |-> C!createProcess, deleteProcess |-> C!deleteProcess,
     getProcess |-> C!getProcess, listProcess |-> C!listProcess,
     replaceProcess |-> C!replaceProcess, version |-> C!version]

BackupRPCs == {"SnapshotBackup", "BackupRestore"}
RPCs == DOMAIN EngineHandlers \cup DOMAIN OtherHandlers \cup DOMAIN Commands \cup BackupRPCs

(* The data engine of a request: as a client translates its name, or one   *)
(* that no client of this repository sends.                                *)
Spellings == C!Spellings \cup {"other"}
DataEngine(spelling) == IF spelling = "other" THEN "other" ELSE C!getDataEngine(spelling)

Scripts(rpc, engine, envs) ==
    CASE rpc = "SnapshotBackup"         -> SnapshotBackup(envs)[engine]
      [] rpc = "BackupRestore"          -> BackupRestore(envs)[engine]
      [] rpc \in DOMAIN OtherHandlers   -> OtherHandlers[rpc]
      [] rpc \in DOMAIN Commands        -> Commands[rpc]
      [] rpc \in DOMAIN EngineHandlers  -> IF engine = "other" THEN Unimplemented
                                           ELSE EngineHandlers[rpc][engine]

(* The requests that go to an engine frontend by its name, and the methods *)
(* of the SPDK client (external), which refuse an empty one.               *)
FrontendRPCs == {"ReplicaAdd", "VolumeSnapshot", "SnapshotRevert", "SnapshotPurge",
                 "SnapshotRemove", "VolumeExpand"}
FrontendMethods ==
    {"EngineFrontendReplicaAdd", "EngineFrontendSnapshotCreate", "EngineFrontendSnapshotRevert",
     "EngineFrontendSnapshotPurge", "EngineFrontendSnapshotDelete", "EngineFrontendExpand"}

-----------------------------------------------------------------------------
(* The value of a key: who has set it, by a request with valid entries     *)
(* only or not.  A request that is over is "earlier".                      *)
Value(t, ok) == [by |-> t, valid |-> ok]
Unset == Value("nobody", TRUE)

Idle == [rpc     |-> "none",
         nameless |-> "no",                     \* how v2 is spelled in a request without
                                                \* the name of a frontend
         client  |-> "none",                    \* "waiting" or "gone"
         envs    |-> <<>>,                      \* Envs of a backup request
         todo    |-> <<>>,                      \* the steps left
         open    |-> {},                        \* the clients that are open
         lastErr |-> FALSE,                     \* lastErr # nil
         inReply |-> FALSE,                     \* see ErrorsInReply
         cred    |-> [k \in Keys |-> "unread"], \* whose credential it has
         reply   |-> "none",
         failed  |-> {},                        \* history: what has failed
         alone   |-> TRUE]                      \* history: no other backup call ran

Values == [by : Threads \cup {"nobody", "earlier"}, valid : BOOLEAN]
Clients == {"controller", "controller_from", "controller_list", "frontend", "pm", "replica",
            "spdk", "task"}

TypeOK ==
    /\ DOMAIN calls = Threads
    /\ \A t \in Threads :
         /\ calls[t].rpc \in RPCs \cup {"none"}
         /\ calls[t].envs \in EnvLists \cup {<<>>}
         /\ calls[t].open \subseteq Clients
         /\ calls[t].reply \in {"none", "ok", "error", "taskerror", "refused"}
         /\ calls[t].client \in {"none", "waiting", "gone"}
         /\ calls[t].cred \in [Keys -> {v.by : v \in Values} \cup {"unread"}]
    /\ env \in [Keys -> Values]
    /\ ScanTypeOK
    /\ LogTypeOK

Init ==
    /\ calls = [t \in Threads |-> Idle]
    /\ env = [k \in Keys |-> Unset]
    /\ ScanInit
    /\ LogInit

-----------------------------------------------------------------------------
Running(t) == calls[t].rpc # "none" /\ calls[t].reply = "none"
At(t, kinds) ==
    /\ Running(t)
    /\ calls[t].todo # <<>>
    /\ Head(calls[t].todo).do \in kinds
What(t) == Head(calls[t].todo).what

Update(t, c) == calls' = [calls EXCEPT ![t] = c]
Done(t) == [calls[t] EXCEPT !.todo = Tail(@)]

(* The deferred Close of every client; a task's waits for the context.     *)
Return(t, c, reply) ==
    Update(t, [c EXCEPT !.reply = reply, !.todo = <<>>, !.open = @ \cap {"task"}])

(* Only backup requests run side by side; the others are looked at before  *)
(* the first of these, for they do not touch the environment, and before   *)
(* the first log, for no request but another log replaces what it leaves.  *)
Others(t) == {u \in Threads \ {t} : calls[u].rpc # "none"}

Comes(rpc, t) ==
    /\ rpc \in BackupRPCs \/ \A k \in Keys : env[k] = Unset
    /\ rpc = "InstanceLog" \/ log = NoLog
    /\ \A u \in Others(t) : {rpc, calls[u].rpc} \subseteq BackupRPCs

(* A client method finds a parameter empty or invalid.                     *)
ClientRefuses(t) ==
    /\ calls[t] = Idle
    /\ \E rpc \in RPCs \cap DOMAIN C!Methods, spelling \in C!Spellings :
         /\ Comes(rpc, t)
         /\ C!Needs(C!Methods[rpc], spelling) # {}
         /\ Update(t, [Idle EXCEPT !.rpc = rpc, !.client = "waiting", !.reply = "refused"])
    /\ UNCHANGED <<env, scan, log>>

(* A request comes in, from a client method whose checks it has passed, or *)
(* from elsewhere.  Only where a frontend is named does it make a          *)
(* difference to spell v2 as V2.                                           *)
Spelled(rpc, spelling, nameless) ==
    /\ spelling = "V2" => rpc \in FrontendRPCs
    /\ nameless # "no" =>
         /\ nameless = spelling /\ DataEngine(spelling) = "V2"
         /\ rpc \in FrontendRPCs
         /\ "engineFrontendName" \notin C!Needs(C!Methods[rpc], spelling)

Request(t, rpc, spelling, nameless, envs, script) ==
    [Idle EXCEPT !.rpc = rpc, !.nameless = nameless, !.envs = envs, !.todo = script,
                 !.client = IF spelling # "other" /\ rpc \in DOMAIN C!Methods
                            THEN "waiting" ELSE "none",
                 !.alone = Others(t) = {}]

Start(t) ==
    /\ calls[t] = Idle
    /\ \E rpc \in RPCs, spelling \in Spellings, nameless \in Spellings \cup {"no"},
          envs \in EnvLists \cup {<<>>} :
         /\ Comes(rpc, t)
         /\ Spelled(rpc, spelling, nameless)
         /\ rpc \notin BackupRPCs => envs = <<>>
         /\ \E script \in Scripts(rpc, DataEngine(spelling), envs) :
              calls' = [u \in Threads |->
                          IF u = t THEN Request(t, rpc, spelling, nameless, envs, script)
                          ELSE IF u \in Others(t) THEN [calls[u] EXCEPT !.alone = FALSE]
                          ELSE calls[u]]
    /\ UNCHANGED <<env, scan, log>>

(* The deadline of the client passes: there is no telling how long the     *)
(* calls of its handler take.  The handler's context, which has the same   *)
(* deadline, ends, and with it the task's client.  The handler works on:   *)
(* most of its calls have contexts of their own, and those that use the    *)
(* handler's (EngineFrontendExpand) or a task fail, like all calls may.    *)
GiveUp(t) ==
    /\ Running(t)
    /\ calls[t].client = "waiting"
    /\ C!Methods[calls[t].rpc].deadline
    /\ Update(t, [calls[t] EXCEPT !.client = "gone", !.open = @ \ {"task"}])
    /\ UNCHANGED <<env, scan, log>>

OpenClient(t) ==
    /\ At(t, {"open", "tryopen"})
    /\ Update(t, [Done(t) EXCEPT !.open = @ \cup {What(t)}])
    /\ UNCHANGED <<env, scan, log>>

CloseClient(t) ==
    /\ At(t, {"close"})
    /\ Update(t, [Done(t) EXCEPT !.open = @ \ {What(t)}])
    /\ UNCHANGED <<env, scan, log>>

CallSucceeds(t) ==
    /\ At(t, {"call", "try", "each"})
    /\ ~(calls[t].nameless # "no" /\ What(t) \in FrontendMethods)
    /\ Update(t, Done(t))
    /\ UNCHANGED <<env, scan, log>>

(* The handler returns the error; BackupRestore puts it into its reply.    *)
Fails(t, what) ==
    Return(t, [calls[t] EXCEPT !.failed = @ \cup {what}],
           IF calls[t].inReply THEN "taskerror" ELSE "error")

StepFails(t) ==
    /\ At(t, {"open", "call", "export"})
    /\ Fails(t, What(t))
    /\ UNCHANGED <<env, scan, log>>

TryFails(t) ==
    /\ At(t, {"try", "tryopen"})
    /\ LET todo == calls[t].todo
       IN  Update(t, [calls[t] EXCEPT !.todo = SubSeq(todo, Head(todo).skip + 2, Len(todo)),
                                      !.failed = @ \cup {What(t)}])
    /\ UNCHANGED <<env, scan, log>>

EachFails(t) ==
    /\ At(t, {"each"})
    /\ Update(t, [Done(t) EXCEPT !.lastErr = TRUE, !.failed = @ \cup {What(t)}])
    /\ UNCHANGED <<env, scan, log>>

RefuseRequest(t) ==
    /\ At(t, {"refuse"})
    /\ Return(t, calls[t], "error")
    /\ UNCHANGED <<env, scan, log>>

EnterDataEngine(t) ==
    /\ At(t, {"inreply"})
    /\ Update(t, [Done(t) EXCEPT !.inReply = TRUE])
    /\ UNCHANGED <<env, scan, log>>

(* Mutant of Setenv: the entry is not cut, all of it is taken for a key.   *)
Setenv_WholeEntry(t) ==
    /\ At(t, {"export"})
    /\ env' = (Unknown :> Value(t, ValidBackupEnv(calls[t].envs))) @@ env
    /\ Update(t, Done(t))
    /\ UNCHANGED <<scan, log>>

(* Mutant of Setenv: a key that has a value keeps it.                      *)
Setenv_Keep(t) ==
    /\ At(t, {"export"})
    /\ env' = [env EXCEPT ![What(t)] =
                 IF @ = Unset THEN Value(t, ValidBackupEnv(calls[t].envs)) ELSE @]
    /\ Update(t, Done(t))
    /\ UNCHANGED <<scan, log>>

Setenv(t) ==
    /\ At(t, {"export"})
    /\ env' = [k \in DOMAIN env \cup {What(t)} |->
                 IF k = What(t) THEN Value(t, ValidBackupEnv(calls[t].envs)) ELSE env[k]]
    /\ Update(t, Done(t))
    /\ UNCHANGED <<scan, log>>

Getenv(t) ==
    /\ At(t, {"read"})
    /\ Update(t, [Done(t) EXCEPT !.cred[What(t)] = env[What(t)].by])
    /\ UNCHANGED <<env, scan, log>>

BeginScan(t) ==
    /\ At(t, {"scan"})
    /\ ScanBegin(What(t))
    /\ UNCHANGED <<calls, env, log>>

ScanStep ==
    /\ ScanNext
    /\ UNCHANGED <<calls, env, log>>

EndScan(t) ==
    /\ At(t, {"scan"})
    /\ scan.outcome # "none"
    /\ IF scan.outcome = "ok" THEN Update(t, Done(t)) ELSE Fails(t, What(t))
    /\ ScanDone
    /\ UNCHANGED <<env, log>>

(* InstanceLog receives the lines of a log and sends them on.              *)
BeginStream(t) ==
    /\ At(t, {"stream"})
    /\ LogBegin
    /\ UNCHANGED <<calls, env, scan>>

StreamLine(t) ==
    /\ At(t, {"stream"})
    /\ LogRecv \/ LogSent
    /\ UNCHANGED <<calls, env, scan>>

EndStream(t) ==
    /\ At(t, {"stream"})
    /\ LogEOF
    /\ Update(t, Done(t))
    /\ UNCHANGED <<env, scan>>

StreamFails(t) ==
    /\ At(t, {"stream"})
    /\ LogLeave \/ LogError
    /\ Fails(t, What(t))
    /\ UNCHANGED <<env, scan>>

LogPipeline ==
    /\ LogNext
    /\ UNCHANGED <<calls, env, scan>>

Answer(t) ==
    /\ Running(t)
    /\ calls[t].todo = <<>>
    /\ Return(t, calls[t], IF calls[t].lastErr THEN "error" ELSE "ok")
    /\ UNCHANGED <<env, scan, log>>

(* The call is over: gRPC cancels its context, and the goroutine of        *)
(* esync.NewTask closes the task's client.  The goroutines of a log live   *)
(* on by themselves.                                                       *)
ContextDone(t) ==
    /\ calls[t].reply # "none"
    /\ Update(t, [Idle EXCEPT !.open = calls[t].open \ {"task"}])
    /\ env' = [k \in Keys |-> IF env[k].by = t THEN [env[k] EXCEPT !.by = "earlier"] ELSE env[k]]
    /\ UNCHANGED <<scan, log>>

HandlerStep(t) ==
    \/ ClientRefuses(t) \/ Start(t) \/ GiveUp(t)
    \/ OpenClient(t) \/ CloseClient(t)
    \/ CallSucceeds(t) \/ StepFails(t) \/ TryFails(t) \/ EachFails(t)
    \/ RefuseRequest(t) \/ EnterDataEngine(t)
    \/ Setenv(t) \/ Getenv(t)
    \/ BeginScan(t) \/ EndScan(t)
    \/ BeginStream(t) \/ StreamLine(t) \/ EndStream(t) \/ StreamFails(t)
    \/ Answer(t) \/ ContextDone(t)

Next == ScanStep \/ LogPipeline \/ \E t \in Threads : HandlerStep(t)

Spec == Init /\ [][Next]_vars

-----------------------------------------------------------------------------
(* Properties.                                                             *)

(* No connection outlives its request: whichever step failed, and in       *)
(* whichever loop, every client the handler has created gets closed (the   *)
(* deferred closes, and the ones inside of the replica loops).             *)
NoClientLeak ==
    /\ \A t \in Threads : calls[t].rpc = "none" => calls[t].open = {}
    /\ scan.loop = "none" => scan.client = NoClient

(* What the caller of a client method, or of a command, gets.              *)
CallerHears(t) ==
    CASE calls[t].client = "gone" \/ calls[t].reply = "refused" -> "error"
      [] calls[t].client = "waiting"                           -> C!Hears(calls[t].reply)
      [] calls[t].client = "none"                              -> calls[t].reply

(* The calls that a handler makes without depending on them: their errors  *)
(* are logged, and the answer is worth having without them.                *)
BestEffort(rpc) ==
    CASE rpc = "ReplicaRemove" -> {"ReplicaList", "GetSnapshotsInfo", "task",
                                   "CancelSnapshotHashJob"}
      [] rpc = "VolumeGet"     -> {"frontend", "EngineFrontendGet"}
      [] OTHER                 -> {}

(* The one call whose error is assigned and then lost (snapshot.go:574).   *)
Swallowed == {"EngineFrontendSnapshotPurge"}

(* A caller that hears of success can count on all of the work: no call    *)
(* the handler depends on has failed, not the first of several snapshots,  *)
(* not one of the lists an answer is put together from, nor one whose      *)
(* error is hidden in a reply (BackupRestore).  The purge of v2 is left to *)
(* PurgeIsDone.                                                            *)
OKMeansDone ==
    \A t \in Threads :
        CallerHears(t) = "ok" => calls[t].failed \subseteq BestEffort(calls[t].rpc) \cup Swallowed

(* The same of a purge, v1 or v2: "EngineFrontendSnapshotPurge purges      *)
(* snapshots through the engine frontend path" and returns an error if it  *)
(* does not, "failed to purge snapshots" is what the caller is to hear     *)
(* then (proxy_snapshot.go:308), and there is no status to ask for later   *)
(* (snapshot.go:621).                                                      *)
PurgeIsDone ==
    \A t \in Threads :
        calls[t].rpc = "SnapshotPurge" /\ CallerHears(t) = "ok" => calls[t].failed = {}

(* A v2 request without the name of an engine frontend reaches nothing,    *)
(* and the caller hears of it, be it from the client, from SPDK, or        *)
(* because there was nothing to do.  It does so even for a purge, whose    *)
(* error the handler drops, but then only thanks to the check of the       *)
(* client, which knows one of the two spellings of v2                      *)
(* (proxy_snapshot.go:295); PurgeIsDone is about the other one.            *)
OKMeansNamed ==
    \A t \in Threads :
        CallerHears(t) = "ok" /\ calls[t].nameless # "no" =>
            calls[t].failed = {} \/ (calls[t].rpc = "SnapshotPurge" /\ calls[t].nameless = "V2")

(* "a single unsafe key rejects the whole request and no partial state     *)
(* leaks into the running process" (env_allowlist.go:60-63): whatever is   *)
(* in the environment was put there by a request with allowed keys only.   *)
NoPartialEnv == \A k \in Keys : env[k].valid

(* A backup call that no other one overlaps gets the credentials of its    *)
(* own request, whatever earlier calls have left in the environment        *)
(* (setEnv "so that github.com/longhorn/backupstore helpers [...] can      *)
(* observe them", backup.go:540-542).                                      *)
OwnCredentials ==
    \A t \in Threads, k \in Keys :
        /\ calls[t].alone
        /\ calls[t].cred[k] # "unread"
        /\ \E i \in DOMAIN calls[t].envs : calls[t].envs[i] = k
        => calls[t].cred[k] = t
=============================================================================
