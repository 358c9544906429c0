--------------------------- MODULE ServicesProofs ---------------------------
(***************************************************************************)
(* Proofs about Services, for every set of threads, keys and replicas and  *)
(* every length of a log.  The invariant has six parts that hardly depend  *)
(* on each other: what a script can hold and thus each call (CallsOK),     *)
(* what is in the environment (EnvOK), whose credentials a backup call     *)
(* reads (CredentialsOK), what a loop over the replicas has heard          *)
(* (ScanInv), how far a log has come (LogInv) and who is still there to    *)
(* move it on (Joined).                                                    *)
(***************************************************************************)
EXTENDS Services, TLAPS, SequenceTheorems, FiniteSetTheorems, WellFoundedInduction

-----------------------------------------------------------------------------
(* The scripts.  Every step of every script of every handler and command   *)
(* is in form (StepOK), and so is what is left of one.                     *)

(* The calls that may have failed although the request ends well.          *)
Excused(rpc) == BestEffort(rpc) \cup (IF rpc = "SnapshotPurge" THEN Swallowed ELSE {})

(* What is known of each step of a script.                                 *)
StepOK(s, rpc, envs) ==
    /\ s.skip \in Nat
    /\ s.do \in {"open", "tryopen"} => s.what \in Clients
    /\ s.do = "scan" => s.what \in Loops
    /\ s.do \in {"try", "tryopen"} => s.what \in Excused(rpc)
    /\ s.do \in {"export", "read"} => s.what \in Keys
    /\ s.do = "export" => ValidBackupEnv(envs)

ScriptOK(script, rpc, envs) ==
    \E S : script \in Seq(S) /\ \A s \in S : StepOK(s, rpc, envs)

(* How scripts in form are put together.                                   *)
LEMMA Script ==
    ASSUME NEW rpc, NEW envs, NEW S, NEW script \in Seq(S), \A s \in S : StepOK(s, rpc, envs)
    PROVE  ScriptOK(script, rpc, envs)
  BY DEF ScriptOK

LEMMA Short ==
    ASSUME NEW rpc, NEW envs
    PROVE  /\ ScriptOK(<<>>, rpc, envs)
           /\ \A a : StepOK(a, rpc, envs) => ScriptOK(<<a>>, rpc, envs)
           /\ \A a, b : StepOK(a, rpc, envs) /\ StepOK(b, rpc, envs) =>
                           ScriptOK(<<a, b>>, rpc, envs)
  <1>1. ScriptOK(<<>>, rpc, envs)
    <2> DEFINE S == {}
    <2>1. <<>> \in Seq(S) /\ \A s \in S : StepOK(s, rpc, envs)
      OBVIOUS
    <2> HIDE DEF S
    <2>2. QED BY <2>1, Script
  <1>2. ASSUME NEW a, StepOK(a, rpc, envs) PROVE ScriptOK(<<a>>, rpc, envs)
    <2> DEFINE S == {a}
    <2>1. <<a>> \in Seq(S) /\ \A s \in S : StepOK(s, rpc, envs)
      BY <1>2
    <2> HIDE DEF S
    <2>2. QED BY <2>1, Script
  <1>3. ASSUME NEW a, NEW b, StepOK(a, rpc, envs), StepOK(b, rpc, envs)
        PROVE  ScriptOK(<<a, b>>, rpc, envs)
    <2> DEFINE S == {a, b}
    <2>1. <<a, b>> \in Seq(S) /\ \A s \in S : StepOK(s, rpc, envs)
      BY <1>3
    <2> HIDE DEF S
    <2>2. QED BY <2>1, Script
  <1>4. QED BY <1>1, <1>2, <1>3

LEMMA Concat ==
    ASSUME NEW rpc, NEW envs, NEW s, NEW u, ScriptOK(s, rpc, envs), ScriptOK(u, rpc, envs)
    PROVE  ScriptOK(s \o u, rpc, envs)
  <1>1. PICK S : s \in Seq(S) /\ \A x \in S : StepOK(x, rpc, envs)
    BY DEF ScriptOK
  <1>2. PICK U : u \in Seq(U) /\ \A x \in U : StepOK(x, rpc, envs)
    BY DEF ScriptOK
  <1>3. s \in Seq(S \cup U) /\ u \in Seq(S \cup U)
    BY <1>1, <1>2
  <1>4. s \o u \in Seq(S \cup U)
    BY <1>3
  <1>5. QED BY <1>1, <1>2, <1>4 DEF ScriptOK

(* What is left of a script after a step or a failed try is one too.       *)
LEMMA Suffix ==
    ASSUME NEW rpc, NEW envs, NEW s, ScriptOK(s, rpc, envs), s # <<>>
    PROVE  /\ StepOK(Head(s), rpc, envs)
           /\ ScriptOK(Tail(s), rpc, envs)
           /\ \A n \in Nat : ScriptOK(SubSeq(s, n + 2, Len(s)), rpc, envs)
  <1>1. PICK S : s \in Seq(S) /\ \A x \in S : StepOK(x, rpc, envs)
    BY DEF ScriptOK
  <1>2. Head(s) \in S /\ Tail(s) \in Seq(S)
    BY <1>1
  <1>3. ASSUME NEW n \in Nat
        PROVE  SubSeq(s, n + 2, Len(s)) \in Seq(S)
    <2>1. \A i \in (n+2) .. Len(s) : s[i] \in S
      BY <1>1
    <2>2. QED BY <2>1, <1>1, SubSeqProperties
  <1>4. QED BY <1>1, <1>2, <1>3 DEF ScriptOK

(* The steps that are fine in every script.                                *)
LEMMA AnyScript ==
    ASSUME NEW rpc, NEW envs
    PROVE  /\ \A m : /\ StepOK(Call(m), rpc, envs) /\ StepOK(Each(m), rpc, envs)
                     /\ StepOK(Close(m), rpc, envs)
           /\ \A c \in Clients : StepOK(Open(c), rpc, envs) 
           /\ StepOK(Refuse, rpc, envs) /\ StepOK(Stream, rpc, envs) /\ StepOK(ErrorsInReply, rpc, envs)
           /\ \A l \in Loops : StepOK(Scan(l), rpc, envs)
           /\ \A m \in Excused(rpc), n \in Nat : StepOK(Try(m, n), rpc, envs)
           /\ \A c \in Excused(rpc) \cap Clients, n \in Nat : StepOK(TryOpen(c, n), rpc, envs)
           /\ \A k \in Keys : StepOK(Read(k), rpc, envs)
           /\ ValidBackupEnv(envs) => \A k \in Keys : StepOK(Export(k), rpc, envs)
  BY DEF StepOK, Step, Call, Each, Open, Close, Refuse, Stream, ErrorsInReply, Scan, Try,
         TryOpen, Read, Export

LEMMA Parts ==
    ASSUME NEW rpc, NEW envs, NEW m
    PROVE  /\ ScriptOK(Task(m), rpc, envs)
           /\ ScriptOK(Controller(m), rpc, envs)
           /\ ScriptOK(SPDK(m), rpc, envs)
           /\ ScriptOK(Manager(m), rpc, envs)
  <1>1. {"task", "controller", "spdk", "pm"} \subseteq Clients BY DEF Clients
  <1>2. QED BY <1>1, AnyScript, Short DEF Task, Controller, SPDK, Manager

AllOK(scripts, rpc, envs) == \A script \in scripts : ScriptOK(script, rpc, envs)

LEMMA Sets ==
    ASSUME NEW rpc, NEW envs
    PROVE  /\ \A a : ScriptOK(a, rpc, envs) => AllOK({a}, rpc, envs)
           /\ \A a, b : ScriptOK(a, rpc, envs) /\ ScriptOK(b, rpc, envs) => AllOK({a, b}, rpc, envs)
           /\ AllOK(Unimplemented, rpc, envs)
  BY Short, AnyScript DEF AllOK, Unimplemented

LEMMA ByEngineOK ==
    ASSUME NEW rpc, NEW envs, NEW v1, NEW v2, AllOK(v1, rpc, envs), AllOK(v2, rpc, envs),
           NEW engine \in {"V1", "V2"}
    PROVE  AllOK(ByEngine(v1, v2)[engine], rpc, envs)
  BY DEF ByEngine


(* The scripts, source file by source file.                                *)
LEMMA ReplicaScripts ==
    ASSUME NEW envs, NEW engine \in {"V1", "V2"}
    PROVE  /\ \A rpc :
                /\ AllOK(ReplicaAdd[engine], rpc, envs)
                /\ AllOK(ReplicaList[engine], rpc, envs)
                /\ AllOK(ReplicaRebuildingStatus[engine], rpc, envs)
                /\ AllOK(ReplicaRebuildingQosSet[engine], rpc, envs)
                /\ AllOK(ReplicaVerifyRebuild[engine], rpc, envs)
                /\ AllOK(ReplicaModeUpdate[engine], rpc, envs)
                /\ AllOK(ReplicaRebuildConcurrentSyncLimitSet[engine], rpc, envs)
                /\ AllOK(ReplicaRebuildConcurrentSyncLimitGet[engine], rpc, envs)
           /\ AllOK(ReplicaRemove[engine], "ReplicaRemove", envs)
  <1>1. ASSUME NEW rpc
        PROVE  /\ AllOK(ReplicaList[engine], rpc, envs)
               /\ AllOK(ReplicaRebuildingStatus[engine], rpc, envs)
               /\ AllOK(ReplicaRebuildingQosSet[engine], rpc, envs)
    <2>1. /\ ScriptOK(<<Call("ReplicaAddressMap")>>, rpc, envs)
          /\ \A l \in Loops : ScriptOK(<<Scan(l)>>, rpc, envs)
      BY Short, AnyScript
    <2>2. /\ ScriptOK(SPDK("EngineGet") \o <<Call("ReplicaAddressMap")>>, rpc, envs)
          /\ \A l \in Loops : ScriptOK(SPDK("EngineGet") \o <<Scan(l)>>, rpc, envs)
      BY <2>1, Parts, Concat
    <2>3. "rebuilding" \in Loops /\ "qos" \in Loops
      BY DEF Loops
    <2>4. QED
      BY <2>2, <2>3, Parts, Sets, ByEngineOK
      DEF ReplicaList, ReplicaRebuildingStatus, ReplicaRebuildingQosSet
  <1>2. ASSUME NEW rpc
        PROVE  /\ AllOK(ReplicaAdd[engine], rpc, envs)
               /\ AllOK(ReplicaVerifyRebuild[engine], rpc, envs)
               /\ AllOK(ReplicaModeUpdate[engine], rpc, envs)
               /\ AllOK(ReplicaRebuildConcurrentSyncLimitSet[engine], rpc, envs)
               /\ AllOK(ReplicaRebuildConcurrentSyncLimitGet[engine], rpc, envs)
    BY Parts, Sets, ByEngineOK
    DEF ReplicaAdd, ReplicaVerifyRebuild, ReplicaModeUpdate,
        ReplicaRebuildConcurrentSyncLimitSet, ReplicaRebuildConcurrentSyncLimitGet
  <1>3. AllOK(ReplicaRemove[engine], "ReplicaRemove", envs)
    <2> DEFINE Fine(step) == StepOK(step, "ReplicaRemove", envs)
    <2>1. Fine(Open("controller")) /\ Fine(Call("ReplicaDelete"))
      BY AnyScript DEF Clients
    <2>2. /\ Fine(Try("ReplicaList", 3)) /\ Fine(Try("GetSnapshotsInfo", 2))
          /\ Fine(TryOpen("task", 1)) /\ Fine(Try("CancelSnapshotHashJob", 0))
      BY AnyScript DEF Clients, Excused, BestEffort, Swallowed
    <2> HIDE DEF Fine
    <2> DEFINE S == {Try("ReplicaList", 3), Try("GetSnapshotsInfo", 2), TryOpen("task", 1),
                     Try("CancelSnapshotHashJob", 0)}
    <2>3. CancelSnapshotHashes \in Seq(S) /\ \A s \in S : Fine(s)
      BY <2>2 DEF CancelSnapshotHashes
    <2> HIDE DEF S
    <2>4. ScriptOK(CancelSnapshotHashes, "ReplicaRemove", envs)
      BY <2>3, Script DEF Fine
    <2>5. ScriptOK(<<Open("controller")>> \o CancelSnapshotHashes \o <<Call("ReplicaDelete")>>,
                   "ReplicaRemove", envs)
      BY <2>1, <2>4, Short, Concat DEF Fine
    <2>6. QED
      BY <2>5, Parts, Sets, ByEngineOK DEF ReplicaRemove
  <1>4. QED BY <1>1, <1>2, <1>3

LEMMA SnapshotScripts ==
    ASSUME NEW envs, NEW engine \in {"V1", "V2"}
    PROVE  /\ \A rpc :
                /\ AllOK(VolumeSnapshot[engine], rpc, envs)
                /\ AllOK(SnapshotList[engine], rpc, envs)
                /\ AllOK(SnapshotClone[engine], rpc, envs)
                /\ AllOK(SnapshotCloneStatus[engine], rpc, envs)
                /\ AllOK(SnapshotRevert[engine], rpc, envs)
                /\ AllOK(SnapshotPurgeStatus[engine], rpc, envs)
                /\ AllOK(SnapshotRemove[engine], rpc, envs)
                /\ AllOK(SnapshotHash[engine], rpc, envs)
                /\ AllOK(SnapshotHashStatus[engine], rpc, envs)
           /\ AllOK(SnapshotPurge[engine], "SnapshotPurge", envs)
  <1>1. ASSUME NEW rpc
        PROVE  /\ AllOK(VolumeSnapshot[engine], rpc, envs)
               /\ AllOK(SnapshotRevert[engine], rpc, envs)
               /\ AllOK(SnapshotPurgeStatus[engine], rpc, envs)
               /\ AllOK(SnapshotHash[engine], rpc, envs)
               /\ AllOK(SnapshotHashStatus[engine], rpc, envs)
    BY Parts, Sets, Short, ByEngineOK
    DEF VolumeSnapshot, SnapshotRevert, SnapshotPurgeStatus, SnapshotHash, SnapshotHashStatus
  <1>2. ASSUME NEW rpc
        PROVE  /\ AllOK(SnapshotList[engine], rpc, envs)
               /\ AllOK(SnapshotClone[engine], rpc, envs)
               /\ AllOK(SnapshotCloneStatus[engine], rpc, envs)
    <2>1. /\ ScriptOK(<<Call("GetSnapshotsInfo")>>, rpc, envs)
          /\ ScriptOK(<<Scan("clone")>>, rpc, envs)
          /\ ScriptOK(<<Open("controller_from"), Open("controller")>>, rpc, envs)
          /\ ScriptOK(<<Call("CloneSnapshot")>>, rpc, envs)
      BY Short, AnyScript DEF Loops, Clients
    <2>2. <<Open("controller_from"), Open("controller"), Call("CloneSnapshot")>> =
          <<Open("controller_from"), Open("controller")>> \o <<Call("CloneSnapshot")>>
      OBVIOUS
    <2>3. /\ ScriptOK(Controller("ReplicaList") \o <<Call("GetSnapshotsInfo")>>, rpc, envs)
          /\ ScriptOK(SPDK("EngineGet") \o <<Scan("clone")>>, rpc, envs)
          /\ ScriptOK(<<Open("controller_from"), Open("controller"), Call("CloneSnapshot")>>,
                      rpc, envs)
      BY <2>1, <2>2, Parts, Concat
    <2>4. QED
      BY <2>3, Parts, Sets, ByEngineOK DEF SnapshotList, SnapshotClone, SnapshotCloneStatus
  <1>3. ASSUME NEW rpc
        PROVE  AllOK(SnapshotRemove[engine], rpc, envs)
    <2> DEFINE each(method) == {<<>>, <<Each(method)>>, <<Each(method), Each(method)>>}
    <2>1. \A method : \A e \in each(method) : ScriptOK(e, rpc, envs)
      BY Short, AnyScript
    <2>2. ScriptOK(<<Open("task")>>, rpc, envs) /\ ScriptOK(<<Open("spdk")>>, rpc, envs)
      BY Short, AnyScript DEF Clients
    <2> HIDE DEF each
    <2>3. /\ AllOK({<<Open("task")>> \o e : e \in each("DeleteSnapshot")}, rpc, envs)
          /\ AllOK({<<Open("spdk")>> \o e : e \in each("EngineFrontendSnapshotDelete")},
                   rpc, envs)
      <3>1. /\ \A e \in each("DeleteSnapshot") : ScriptOK(<<Open("task")>> \o e, rpc, envs)
            /\ \A e \in each("EngineFrontendSnapshotDelete") :
                  ScriptOK(<<Open("spdk")>> \o e, rpc, envs)
        BY <2>1, <2>2, Concat
      <3>2. QED BY <3>1, Zenon DEF AllOK
    <2>4. SnapshotRemove =
            ByEngine({<<Open("task")>> \o e : e \in each("DeleteSnapshot")},
                     {<<Open("spdk")>> \o e : e \in each("EngineFrontendSnapshotDelete")})
      BY Zenon DEF SnapshotRemove, each
    <2>5. QED BY <2>3, <2>4, ByEngineOK
  <1>4. AllOK(SnapshotPurge[engine], "SnapshotPurge", envs)
    <2>1. ScriptOK(<<Open("spdk"), Try("EngineFrontendSnapshotPurge", 0)>>, "SnapshotPurge",
                   envs)
      BY Short, AnyScript DEF Clients, Excused, BestEffort, Swallowed
    <2>2. QED BY <2>1, Parts, Sets, ByEngineOK DEF SnapshotPurge
  <1>5. QED BY <1>1, <1>2, <1>3, <1>4

LEMMA VolumeScripts ==
    ASSUME NEW envs, NEW engine \in {"V1", "V2"}
    PROVE  /\ \A rpc :
                /\ AllOK(VolumeExpand[engine], rpc, envs)
                /\ AllOK(VolumeFrontendStart[engine], rpc, envs)
                /\ AllOK(VolumeFrontendShutdown[engine], rpc, envs)
                /\ AllOK(VolumeUnmapMarkSnapChainRemovedSet[engine], rpc, envs)
                /\ AllOK(VolumeSnapshotMaxCountSet[engine], rpc, envs)
                /\ AllOK(VolumeSnapshotMaxSizeSet[engine], rpc, envs)
                /\ AllOK(MetricsGet[engine], rpc, envs)
                /\ AllOK(RemountReadOnlyVolume, rpc, envs)
           /\ AllOK(VolumeGet[engine], "VolumeGet", envs)
  <1>1. ASSUME NEW rpc
        PROVE  /\ AllOK(VolumeExpand[engine], rpc, envs)
               /\ AllOK(VolumeFrontendStart[engine], rpc, envs)
               /\ AllOK(VolumeFrontendShutdown[engine], rpc, envs)
               /\ AllOK(VolumeUnmapMarkSnapChainRemovedSet[engine], rpc, envs)
               /\ AllOK(VolumeSnapshotMaxCountSet[engine], rpc, envs)
               /\ AllOK(VolumeSnapshotMaxSizeSet[engine], rpc, envs)
               /\ AllOK(MetricsGet[engine], rpc, envs)
    BY Parts, Sets, ByEngineOK
    DEF VolumeExpand, VolumeFrontendStart, VolumeFrontendShutdown,
        VolumeUnmapMarkSnapChainRemovedSet, VolumeSnapshotMaxCountSet,
        VolumeSnapshotMaxSizeSet, MetricsGet
  <1>2. ASSUME NEW rpc
        PROVE  AllOK(RemountReadOnlyVolume, rpc, envs)
    <2> DEFINE prepare == <<Call("GetVolumeMountPointMap"), Call("NewNamespaceExecutor")>>
    <2>1. ScriptOK(prepare, rpc, envs) /\ ScriptOK(<<Call("mount")>>, rpc, envs)
      BY Short, AnyScript
    <2>2. RemountReadOnlyVolume = {prepare, prepare \o <<Call("mount")>>}
      BY DEF RemountReadOnlyVolume
    <2> HIDE DEF prepare
    <2>3. ScriptOK(prepare \o <<Call("mount")>>, rpc, envs)
      BY <2>1, Concat
    <2>4. QED BY <2>1, <2>2, <2>3, Sets
  <1>3. AllOK(VolumeGet[engine], "VolumeGet", envs)
    <2>1. ScriptOK(<<TryOpen("frontend", 1), Try("EngineFrontendGet", 0)>>, "VolumeGet", envs)
      BY Short, AnyScript DEF Clients, Excused, BestEffort, Swallowed
    <2>2. ScriptOK(SPDK("EngineGet") \o <<TryOpen("frontend", 1), Try("EngineFrontendGet", 0)>>,
                   "VolumeGet", envs)
      BY <2>1, Parts, Concat
    <2>3. QED BY <2>2, Parts, Sets, ByEngineOK DEF VolumeGet
  <1>4. QED BY <1>1, <1>2, <1>3

(* SetToSeq enumerates the keys of the allowlist.                          *)
LEMMA KeySeq ==
    ASSUME NEW i \in 1 .. Cardinality(Keys)
    PROVE  Cardinality(Keys) \in Nat /\ SetToSeq(Keys)[i] \in Keys
  <1>1. Cardinality(Keys) \in Nat /\ ExistsBijection(1 .. Cardinality(Keys), Keys)
    BY KeysAssumption, FS_CardinalityType
  <1>2. \E f \in [1 .. Cardinality(Keys) -> Keys] : IsInjective(f)
    BY <1>1 DEF ExistsBijection, Bijection, Injection, IsInjective
  <1>3. SetToSeq(Keys) \in [1 .. Cardinality(Keys) -> Keys]
    BY <1>2 DEF SetToSeq
  <1>4. QED BY <1>1, <1>3

LEMMA SetEnvScript ==
    ASSUME NEW rpc, NEW envs \in Seq(Keys \cup {Unknown})
    PROVE  ScriptOK(SetEnv(envs), rpc, envs)
  <1>1. CASE ValidBackupEnv(envs)
    <2> DEFINE S == {Export(k) : k \in Keys}
    <2>1. \A i \in DOMAIN envs : envs[i] \in Keys
      BY <1>1 DEF ValidBackupEnv
    <2>2. Exports(envs) \in Seq(S)
      BY <2>1 DEF Exports
    <2>3. \A s \in S : StepOK(s, rpc, envs)
      BY <1>1, AnyScript
    <2> HIDE DEF S
    <2>4. QED BY <1>1, <2>2, <2>3, Script DEF SetEnv
  <1>2. CASE ~ValidBackupEnv(envs)
    BY <1>2, Short, AnyScript DEF SetEnv
  <1>3. QED BY <1>1, <1>2

LEMMA CredentialScript ==
    ASSUME NEW rpc, NEW envs
    PROVE  ScriptOK(GetBackupCredential, rpc, envs)
  <1> DEFINE S == {Read(k) : k \in Keys}
             reads == [i \in 1 .. Cardinality(Keys) |-> Read(SetToSeq(Keys)[i])]
  <1>1. reads \in Seq(S)
    <2>1. Cardinality(Keys) \in Nat
      BY KeysAssumption, FS_CardinalityType
    <2>2. \A i \in 1 .. Cardinality(Keys) : Read(SetToSeq(Keys)[i]) \in S
      BY KeySeq
    <2> HIDE DEF S
    <2>3. QED BY <2>1, <2>2
  <1>2. \A s \in S : StepOK(s, rpc, envs)
    BY AnyScript
  <1>3. GetBackupCredential = reads \o <<Call("GetBackupCredential")>>
    BY DEF GetBackupCredential
  <1> HIDE DEF S, reads
  <1>4. ScriptOK(reads, rpc, envs) /\ ScriptOK(<<Call("GetBackupCredential")>>, rpc, envs)
    BY <1>1, <1>2, Script, Short, AnyScript
  <1>5. QED BY <1>3, <1>4, Concat

LEMMA BackupScripts ==
    ASSUME NEW envs \in Seq(Keys \cup {Unknown}), NEW engine \in {"V1", "V2"}
    PROVE  \A rpc :
                /\ AllOK(SnapshotBackup(envs)[engine], rpc, envs)
                /\ AllOK(BackupRestore(envs)[engine], rpc, envs)
                /\ AllOK(SnapshotBackup(envs).other, rpc, envs)
                /\ AllOK(BackupRestore(envs).other, rpc, envs)
                /\ AllOK(SnapshotBackupStatus[engine], rpc, envs)
                /\ AllOK(BackupRestoreStatus[engine], rpc, envs)
  <1> SUFFICES ASSUME NEW rpc
               PROVE  /\ AllOK(SnapshotBackup(envs)[engine], rpc, envs)
                      /\ AllOK(BackupRestore(envs)[engine], rpc, envs)
                      /\ AllOK(SnapshotBackup(envs).other, rpc, envs)
                      /\ AllOK(BackupRestore(envs).other, rpc, envs)
                      /\ AllOK(SnapshotBackupStatus[engine], rpc, envs)
                      /\ AllOK(BackupRestoreStatus[engine], rpc, envs)
    OBVIOUS
  <1>1. ScriptOK(SetEnv(envs), rpc, envs)
    BY SetEnvScript
  <1>2. ScriptOK(GetBackupCredential, rpc, envs)
    BY CredentialScript
  <1>3. ASSUME NEW script, ScriptOK(script, rpc, envs)
        PROVE  ScriptOK(WithCredential(envs, script), rpc, envs)
    BY <1>1, <1>2, <1>3, Concat DEF WithCredential
  <1>4. /\ ScriptOK(<<ErrorsInReply>>, rpc, envs) /\ ScriptOK(<<Refuse>>, rpc, envs)
        /\ \A m : /\ ScriptOK(<<ErrorsInReply>> \o Task(m), rpc, envs)
                  /\ ScriptOK(<<ErrorsInReply>> \o SPDK(m), rpc, envs)
    BY Short, AnyScript, Parts, Concat
  <1>5. /\ AllOK(SnapshotBackup(envs)[engine], rpc, envs)
        /\ AllOK(SnapshotBackup(envs).other, rpc, envs)
        /\ AllOK(BackupRestore(envs)[engine], rpc, envs)
        /\ AllOK(BackupRestore(envs).other, rpc, envs)
    <2>1. /\ AllOK({WithCredential(envs, <<Refuse>>)}, rpc, envs)
          /\ \A m : /\ AllOK({WithCredential(envs, Task(m))}, rpc, envs)
                    /\ AllOK({WithCredential(envs, SPDK(m))}, rpc, envs)
                    /\ AllOK({WithCredential(envs, <<ErrorsInReply>> \o Task(m))}, rpc, envs)
                    /\ AllOK({WithCredential(envs, <<ErrorsInReply>> \o SPDK(m))}, rpc, envs)
      BY <1>3, <1>4, Parts, Sets
    <2>2. CASE engine = "V1"
      BY <2>1, <2>2 DEF SnapshotBackup, BackupRestore
    <2>3. CASE engine = "V2"
      BY <2>1, <2>3 DEF SnapshotBackup, BackupRestore
    <2>4. QED BY <2>2, <2>3
  <1>6. AllOK(BackupRestoreStatus[engine], rpc, envs)
    BY Parts, Sets, ByEngineOK DEF BackupRestoreStatus
  <1>7. AllOK(SnapshotBackupStatus[engine], rpc, envs)
    <2> DEFINE replicas == <<Open("controller"), Open("controller_list"), Call("ReplicaList"),
                             Close("controller_list")>>
               fetch == <<Open("replica"), Call("FetchBackupStatus")>>
    <2>1. replicas = <<Open("controller"), Open("controller_list")>> \o
                     <<Call("ReplicaList"), Close("controller_list")>>
      OBVIOUS
    <2>2. /\ ScriptOK(<<Open("controller"), Open("controller_list")>>, rpc, envs)
          /\ ScriptOK(<<Call("ReplicaList"), Close("controller_list")>>, rpc, envs)
          /\ ScriptOK(<<Call("ReplicaIsRW")>>, rpc, envs)
          /\ ScriptOK(<<Scan("backup_v1")>>, rpc, envs)
          /\ ScriptOK(<<Scan("backup_v2")>>, rpc, envs)
          /\ ScriptOK(fetch, rpc, envs)
      BY Short, AnyScript DEF Clients, Loops
    <2>3. SnapshotBackupStatus =
            ByEngine({replicas \o <<Call("ReplicaIsRW")>> \o fetch,
                      replicas \o <<Scan("backup_v1")>> \o fetch},
                     {SPDK("EngineBackupStatus"), SPDK("EngineGet") \o <<Scan("backup_v2")>>})
      BY DEF SnapshotBackupStatus
    <2> HIDE DEF replicas, fetch
    <2>4. ScriptOK(replicas, rpc, envs)
      BY <2>1, <2>2, Concat
    <2>5. /\ ScriptOK(replicas \o <<Call("ReplicaIsRW")>> \o fetch, rpc, envs)
          /\ ScriptOK(replicas \o <<Scan("backup_v1")>> \o fetch, rpc, envs)
          /\ ScriptOK(SPDK("EngineGet") \o <<Scan("backup_v2")>>, rpc, envs)
      BY <2>2, <2>4, Parts, Concat
    <2>6. QED BY <2>3, <2>5, Parts, Sets, ByEngineOK
  <1>8. QED BY <1>5, <1>6, <1>7

LEMMA InstanceScripts ==
    ASSUME NEW envs, NEW engine \in {"V1", "V2"}, NEW rpc
    PROVE  /\ AllOK(InstanceCreate[engine], rpc, envs)
           /\ AllOK(InstanceDelete[engine], rpc, envs)
           /\ AllOK(InstanceGet[engine], rpc, envs)
           /\ AllOK(InstanceReplace[engine], rpc, envs)
           /\ AllOK(InstanceLog[engine], rpc, envs)
           /\ AllOK(InstanceSuspend[engine], rpc, envs)
           /\ AllOK(InstanceResume[engine], rpc, envs)
           /\ AllOK(InstanceSwitchOverTarget[engine], rpc, envs)
           /\ AllOK(InstanceDeleteTarget[engine], rpc, envs)
           /\ AllOK(LogSetLevel[engine], rpc, envs)
           /\ AllOK(LogSetFlags[engine], rpc, envs)
           /\ AllOK(LogGetLevel[engine], rpc, envs)
           /\ AllOK(LogGetFlags[engine], rpc, envs)
           /\ AllOK(InstanceList, rpc, envs)
  <1>1. /\ ScriptOK(RefusedBySPDK, rpc, envs)
        /\ ScriptOK(<<Refuse>>, rpc, envs)
        /\ ScriptOK(<<Open("spdk")>>, rpc, envs)
        /\ ScriptOK(<<Stream>>, rpc, envs)
        /\ ScriptOK(<<Close("pm")>>, rpc, envs)
        /\ ScriptOK(<<Call("ParseLevel")>>, rpc, envs)
        /\ ScriptOK(<<Call("EngineList"), Call("EngineFrontendList")>>, rpc, envs)
        /\ ScriptOK(<<Call("ShardList"), Call("ShardGroupList")>>, rpc, envs)
    BY Short, AnyScript DEF RefusedBySPDK, Clients
  <1>2. AllOK(InstanceCreate[engine], rpc, envs)
    <2>1. AllOK({<<Refuse>>, Manager("ProcessCreate")}, rpc, envs)
      BY <1>1, Parts, Sets
    <2>2. AllOK({SPDK("EngineCreate"), SPDK("EngineFrontendCreate"), SPDK("ReplicaCreate"),
                 SPDK("ShardCreate"), SPDK("ShardGroupCreate"), RefusedBySPDK}, rpc, envs)
      BY <1>1, Parts DEF AllOK
    <2>3. QED BY <2>1, <2>2, ByEngineOK DEF InstanceCreate
  <1>3. AllOK(InstanceDelete[engine], rpc, envs)
    <2>1. AllOK({Manager("ProcessDelete")}, rpc, envs)
      BY <1>1, Parts, Sets
    <2>2. AllOK({<<Open("spdk")>>, SPDK("EngineDelete"), SPDK("EngineFrontendDelete"),
                 SPDK("ReplicaDelete"), SPDK("ShardDelete"), SPDK("ShardGroupDelete"),
                 RefusedBySPDK}, rpc, envs)
      BY <1>1, Parts DEF AllOK
    <2>3. QED BY <2>1, <2>2, ByEngineOK DEF InstanceDelete
  <1>4. AllOK(InstanceGet[engine], rpc, envs)
    <2>1. AllOK({Manager("ProcessGet")}, rpc, envs)
      BY <1>1, Parts, Sets
    <2>2. AllOK({SPDK("EngineGet"), SPDK("EngineFrontendGet"), SPDK("ReplicaGet"),
                 SPDK("ShardGet"), SPDK("ShardGroupGet"), RefusedBySPDK}, rpc, envs)
      BY <1>1, Parts DEF AllOK
    <2>3. QED BY <2>1, <2>2, ByEngineOK DEF InstanceGet
  <1>5. AllOK(InstanceReplace[engine], rpc, envs)
    BY <1>1, Parts, Sets, ByEngineOK DEF InstanceReplace
  <1>6. AllOK(InstanceLog[engine], rpc, envs)
    <2>1. ScriptOK(Manager("ProcessLog") \o <<Stream>>, rpc, envs)
      BY <1>1, Parts, Concat
    <2>2. QED BY <2>1, Sets, ByEngineOK DEF InstanceLog
  <1>7. /\ AllOK(InstanceSuspend[engine], rpc, envs)
        /\ AllOK(InstanceResume[engine], rpc, envs)
        /\ AllOK(InstanceSwitchOverTarget[engine], rpc, envs)
        /\ AllOK(InstanceDeleteTarget[engine], rpc, envs)
    BY <1>1, Parts, Sets, ByEngineOK
    DEF InstanceSuspend, InstanceResume, InstanceSwitchOverTarget, InstanceDeleteTarget
  <1>8. /\ AllOK(LogSetLevel[engine], rpc, envs)
        /\ AllOK(LogSetFlags[engine], rpc, envs)
        /\ AllOK(LogGetLevel[engine], rpc, envs)
        /\ AllOK(LogGetFlags[engine], rpc, envs)
    BY <1>1, Short, Parts, Sets, ByEngineOK DEF LogSetLevel, LogSetFlags, LogGetLevel, LogGetFlags
  <1>9. AllOK(InstanceList, rpc, envs)
    <2>1. ScriptOK(ListV1, rpc, envs)
      BY <1>1, Parts, Concat DEF ListV1
    <2>3. <<Call("EngineList"), Call("EngineFrontendList"), Call("ShardList"),
            Call("ShardGroupList")>> =
          <<Call("EngineList"), Call("EngineFrontendList")>> \o
          <<Call("ShardList"), Call("ShardGroupList")>>
      OBVIOUS
    <2>4. ScriptOK(<<Call("EngineList"), Call("EngineFrontendList"), Call("ShardList"),
                     Call("ShardGroupList")>>, rpc, envs)
      BY <1>1, <2>3, Concat
    <2>5. ScriptOK(ListV2, rpc, envs)
      BY <2>4, Parts, Concat DEF ListV2
    <2>6. QED BY <2>1, <2>5, Concat, Sets DEF InstanceList
  <1>10. QED BY <1>2, <1>3, <1>4, <1>5, <1>6, <1>7, <1>8, <1>9

LEMMA DiskScripts ==
    ASSUME NEW envs, NEW rpc
    PROVE  /\ \A m : AllOK(OfBlockDisk(m), rpc, envs) /\ AllOK({<<Call(m)>>}, rpc, envs)
           /\ AllOK({<<>>}, rpc, envs)
           /\ AllOK(ServerVersionGet, rpc, envs)
  BY Short, AnyScript, Parts, Sets DEF OfBlockDisk, ServerVersionGet

LEMMA CommandScripts ==
    ASSUME NEW envs, NEW rpc, NEW method, NEW name
    PROVE  /\ AllOK(C!Command(method, name), rpc, envs)
           /\ AllOK(C!version, rpc, envs)
  <1>1. /\ \A m : C!Manager(m) = Manager(m) /\ C!Call(m) = Call(m)
        /\ C!Open("pm") = Open("pm") /\ C!Refuse = Refuse
    BY DEF C!Manager, C!Call, C!Open, C!Refuse, C!Step, Manager, Call, Open, Refuse, Step
  <1>2. /\ \A m : ScriptOK(<<Call(m)>>, rpc, envs)
        /\ ScriptOK(<<Open("pm"), Refuse>>, rpc, envs)
    BY Short, AnyScript DEF Clients
  <1>3. \A m : ScriptOK(Manager(m) \o <<Call("PrintJSON")>>, rpc, envs)
    BY <1>2, Parts, Concat
  <1>4. \A x, y : AllOK(C!Command(x, y), rpc, envs)
    BY <1>1, <1>2, <1>3 DEF C!Command, AllOK
  <1>5. QED
    BY <1>1, <1>2, <1>4 DEF C!version, AllOK

LEMMA EnvListsOK == EnvLists \cup {<<>>} \subseteq Seq(Keys \cup {Unknown})
  <1>1. <<>> \in Seq(Keys \cup {Unknown})
    OBVIOUS
  <1>2. QED BY <1>1, EnvListsAssumption, Zenon

(* The tables of the handlers.                                             *)
LEMMA Handlers ==
    ASSUME NEW envs \in EnvLists \cup {<<>>}, NEW rpc \in DOMAIN EngineHandlers,
           NEW engine \in {"V1", "V2"}
    PROVE  AllOK(EngineHandlers[rpc][engine], rpc, envs)
  <1>1. CASE rpc \in {"ReplicaAdd", "ReplicaList", "ReplicaRebuildingStatus",
                      "ReplicaRebuildingQosSet", "ReplicaVerifyRebuild", "ReplicaRemove",
                      "ReplicaModeUpdate", "ReplicaRebuildConcurrentSyncLimitSet",
                      "ReplicaRebuildConcurrentSyncLimitGet"}
    <2>1. /\ EngineHandlers["ReplicaAdd"] = ReplicaAdd
          /\ EngineHandlers["ReplicaList"] = ReplicaList
          /\ EngineHandlers["ReplicaRebuildingStatus"] = ReplicaRebuildingStatus
          /\ EngineHandlers["ReplicaRebuildingQosSet"] = ReplicaRebuildingQosSet
          /\ EngineHandlers["ReplicaVerifyRebuild"] = ReplicaVerifyRebuild
          /\ EngineHandlers["ReplicaRemove"] = ReplicaRemove
          /\ EngineHandlers["ReplicaModeUpdate"] = ReplicaModeUpdate
          /\ EngineHandlers["ReplicaRebuildConcurrentSyncLimitSet"] = ReplicaRebuildConcurrentSyncLimitSet
          /\ EngineHandlers["ReplicaRebuildConcurrentSyncLimitGet"] = ReplicaRebuildConcurrentSyncLimitGet
      BY DEF EngineHandlers
    <2>2. QED BY <1>1, <2>1, ReplicaScripts
  <1>2. CASE rpc \in {"VolumeSnapshot", "SnapshotList", "SnapshotClone", "SnapshotCloneStatus",
                      "SnapshotRevert", "SnapshotPurge", "SnapshotPurgeStatus",
                      "SnapshotRemove", "SnapshotHash", "SnapshotHashStatus"}
    <2>1. /\ EngineHandlers["VolumeSnapshot"] = VolumeSnapshot
          /\ EngineHandlers["SnapshotList"] = SnapshotList
          /\ EngineHandlers["SnapshotClone"] = SnapshotClone
          /\ EngineHandlers["SnapshotCloneStatus"] = SnapshotCloneStatus
          /\ EngineHandlers["SnapshotRevert"] = SnapshotRevert
          /\ EngineHandlers["SnapshotPurge"] = SnapshotPurge
          /\ EngineHandlers["SnapshotPurgeStatus"] = SnapshotPurgeStatus
          /\ EngineHandlers["SnapshotRemove"] = SnapshotRemove
          /\ EngineHandlers["SnapshotHash"] = SnapshotHash
          /\ EngineHandlers["SnapshotHashStatus"] = SnapshotHashStatus
      BY DEF EngineHandlers
    <2>2. QED BY <1>2, <2>1, SnapshotScripts
  <1>3. CASE rpc \in {"VolumeGet", "VolumeExpand", "VolumeFrontendStart",
                      "VolumeFrontendShutdown", "VolumeUnmapMarkSnapChainRemovedSet",
                      "VolumeSnapshotMaxCountSet", "VolumeSnapshotMaxSizeSet", "MetricsGet"}
    <2>1. /\ EngineHandlers["VolumeGet"] = VolumeGet
          /\ EngineHandlers["VolumeExpand"] = VolumeExpand
          /\ EngineHandlers["VolumeFrontendStart"] = VolumeFrontendStart
          /\ EngineHandlers["VolumeFrontendShutdown"] = VolumeFrontendShutdown
          /\ EngineHandlers["VolumeUnmapMarkSnapChainRemovedSet"] = VolumeUnmapMarkSnapChainRemovedSet
          /\ EngineHandlers["VolumeSnapshotMaxCountSet"] = VolumeSnapshotMaxCountSet
          /\ EngineHandlers["VolumeSnapshotMaxSizeSet"] = VolumeSnapshotMaxSizeSet
          /\ EngineHandlers["MetricsGet"] = MetricsGet
      BY DEF EngineHandlers
    <2>2. QED BY <1>3, <2>1, VolumeScripts
  <1>4. CASE rpc \in {"SnapshotBackupStatus", "BackupRestoreStatus"}
    <2>1. /\ EngineHandlers["SnapshotBackupStatus"] = SnapshotBackupStatus
          /\ EngineHandlers["BackupRestoreStatus"] = BackupRestoreStatus
      BY DEF EngineHandlers
    <2>2. envs \in Seq(Keys \cup {Unknown})
      BY EnvListsOK
    <2>3. QED BY <1>4, <2>1, <2>2, BackupScripts
  <1>5. CASE rpc \in {"InstanceCreate", "InstanceDelete", "InstanceGet", "InstanceReplace",
                      "InstanceLog", "InstanceSuspend", "InstanceResume",
                      "InstanceSwitchOverTarget", "InstanceDeleteTarget", "LogSetLevel",
                      "LogSetFlags", "LogGetLevel", "LogGetFlags"}
    <2>1. /\ EngineHandlers["InstanceCreate"] = InstanceCreate
          /\ EngineHandlers["InstanceDelete"] = InstanceDelete
          /\ EngineHandlers["InstanceGet"] = InstanceGet
          /\ EngineHandlers["InstanceReplace"] = InstanceReplace
          /\ EngineHandlers["InstanceLog"] = InstanceLog
          /\ EngineHandlers["InstanceSuspend"] = InstanceSuspend
          /\ EngineHandlers["InstanceResume"] = InstanceResume
          /\ EngineHandlers["InstanceSwitchOverTarget"] = InstanceSwitchOverTarget
          /\ EngineHandlers["InstanceDeleteTarget"] = InstanceDeleteTarget
          /\ EngineHandlers["LogSetLevel"] = LogSetLevel
          /\ EngineHandlers["LogSetFlags"] = LogSetFlags
          /\ EngineHandlers["LogGetLevel"] = LogGetLevel
          /\ EngineHandlers["LogGetFlags"] = LogGetFlags
      BY DEF EngineHandlers
    <2>2. QED BY <1>5, <2>1, InstanceScripts
  <1>6. QED BY <1>1, <1>2, <1>3, <1>4, <1>5 DEF EngineHandlers

LEMMA OtherScripts ==
    ASSUME NEW envs, NEW rpc \in DOMAIN OtherHandlers
    PROVE  AllOK(OtherHandlers[rpc], rpc, envs)
  <1>1. CASE rpc \in {"DiskCreate", "DiskDelete", "DiskGet", "DiskHealthGet",
                      "DiskReplicaInstanceList", "DiskReplicaInstanceDelete", "DiskMetricsGet"}
    <2>1. /\ OtherHandlers["DiskCreate"] = DiskCreate
          /\ OtherHandlers["DiskDelete"] = DiskDelete
          /\ OtherHandlers["DiskGet"] = DiskGet
          /\ OtherHandlers["DiskHealthGet"] = DiskHealthGet
          /\ OtherHandlers["DiskReplicaInstanceList"] = DiskReplicaInstanceList
          /\ OtherHandlers["DiskReplicaInstanceDelete"] = DiskReplicaInstanceDelete
          /\ OtherHandlers["DiskMetricsGet"] = DiskMetricsGet
      BY DEF OtherHandlers
    <2>2. /\ AllOK(DiskCreate, rpc, envs) /\ AllOK(DiskDelete, rpc, envs)
          /\ AllOK(DiskGet, rpc, envs) /\ AllOK(DiskHealthGet, rpc, envs)
          /\ AllOK(DiskReplicaInstanceList, rpc, envs)
          /\ AllOK(DiskReplicaInstanceDelete, rpc, envs)
          /\ AllOK(DiskMetricsGet, rpc, envs)
      BY DiskScripts
      DEF DiskCreate, DiskDelete, DiskGet, DiskHealthGet, DiskReplicaInstanceList,
          DiskReplicaInstanceDelete, DiskMetricsGet
    <2>3. QED BY <1>1, <2>1, <2>2
  <1>2. CASE rpc \in {"RemountReadOnlyVolume", "CleanupBackupMountPoints",
                      "SPDKBackingImageCreate", "SPDKBackingImageDelete", "SPDKBackingImageGet",
                      "SPDKBackingImageList", "ServerVersionGet", "InstanceList", "VersionGet",
                      "CheckConnection"}
    <2>1. /\ OtherHandlers["RemountReadOnlyVolume"] = RemountReadOnlyVolume
          /\ OtherHandlers["CleanupBackupMountPoints"] = CleanupBackupMountPoints
          /\ OtherHandlers["SPDKBackingImageCreate"] = SPDKBackingImageCreate
          /\ OtherHandlers["SPDKBackingImageDelete"] = SPDKBackingImageDelete
          /\ OtherHandlers["SPDKBackingImageGet"] = SPDKBackingImageGet
          /\ OtherHandlers["SPDKBackingImageList"] = SPDKBackingImageList
          /\ OtherHandlers["ServerVersionGet"] = ServerVersionGet
          /\ OtherHandlers["InstanceList"] = InstanceList
          /\ OtherHandlers["VersionGet"] = VersionGet
          /\ OtherHandlers["CheckConnection"] = Check
      BY DEF OtherHandlers
    <2>2. AllOK(RemountReadOnlyVolume, rpc, envs)
      BY VolumeScripts
    <2>3. AllOK(InstanceList, rpc, envs)
      BY InstanceScripts
    <2>4. /\ AllOK(CleanupBackupMountPoints, rpc, envs)
          /\ AllOK(SPDKBackingImageCreate, rpc, envs)
          /\ AllOK(SPDKBackingImageDelete, rpc, envs)
          /\ AllOK(SPDKBackingImageGet, rpc, envs)
          /\ AllOK(SPDKBackingImageList, rpc, envs)
          /\ AllOK(VersionGet, rpc, envs) /\ AllOK(Check, rpc, envs)
          /\ AllOK(ServerVersionGet, rpc, envs)
      BY DiskScripts
      DEF CleanupBackupMountPoints, SPDKBackingImageCreate, SPDKBackingImageDelete,
          SPDKBackingImageGet, SPDKBackingImageList, VersionGet, Check
    <2>5. QED BY <1>2, <2>1, <2>2, <2>3, <2>4
  <1>3. QED BY <1>1, <1>2 DEF OtherHandlers

(* All together: whatever the request, its script is in form.              *)
LEMMA AllScripts ==
    ASSUME NEW envs \in EnvLists \cup {<<>>}, NEW rpc \in RPCs, NEW spelling \in Spellings,
           NEW script \in Scripts(rpc, DataEngine(spelling), envs)
    PROVE  ScriptOK(script, rpc, envs)
  <1>1. DataEngine(spelling) \in {"V1", "V2", "other"}
    BY DEF DataEngine, C!getDataEngine
  <1>2. envs \in Seq(Keys \cup {Unknown})
    BY EnvListsOK
  <1>3. /\ "SnapshotBackup" \notin DOMAIN OtherHandlers \cup DOMAIN Commands \cup DOMAIN EngineHandlers
        /\ "BackupRestore" \notin DOMAIN OtherHandlers \cup DOMAIN Commands \cup DOMAIN EngineHandlers
        /\ DOMAIN OtherHandlers \cap DOMAIN Commands = {}
        /\ DOMAIN EngineHandlers \cap (DOMAIN OtherHandlers \cup DOMAIN Commands) = {}
    BY DEF OtherHandlers, Commands, EngineHandlers
  <1>4. CASE rpc \in BackupRPCs
    <2>1. Scripts(rpc, DataEngine(spelling), envs) =
            IF rpc = "SnapshotBackup" THEN SnapshotBackup(envs)[DataEngine(spelling)]
            ELSE BackupRestore(envs)[DataEngine(spelling)]
      BY <1>3, <1>4 DEF Scripts, BackupRPCs
    <2>2. QED BY <1>1, <1>2, <2>1, BackupScripts DEF AllOK
  <1>5. CASE rpc \in DOMAIN OtherHandlers
    <2>1. Scripts(rpc, DataEngine(spelling), envs) = OtherHandlers[rpc]
      BY <1>3, <1>5 DEF Scripts
    <2>2. QED BY <1>5, <2>1, OtherScripts DEF AllOK
  <1>6. CASE rpc \in DOMAIN Commands
    <2>1. Scripts(rpc, DataEngine(spelling), envs) = Commands[rpc]
      BY <1>3, <1>6 DEF Scripts
    <2>2. AllOK(Commands[rpc], rpc, envs)
      BY <1>6, CommandScripts
      DEF Commands, C!createProcess, C!deleteProcess, C!getProcess, C!listProcess, C!replaceProcess
    <2>3. QED BY <2>1, <2>2 DEF AllOK
  <1>7. CASE rpc \in DOMAIN EngineHandlers
    <2>1. Scripts(rpc, DataEngine(spelling), envs) =
            IF DataEngine(spelling) = "other" THEN Unimplemented
            ELSE EngineHandlers[rpc][DataEngine(spelling)]
      BY <1>3, <1>7 DEF Scripts
    <2>2. QED BY <1>1, <1>7, <2>1, Handlers, Sets DEF AllOK
  <1>8. QED BY <1>4, <1>5, <1>6, <1>7 DEF RPCs

-----------------------------------------------------------------------------
(* The calls.  What holds of the record of each call, and that each action *)
(* of a handler keeps it: only what has no consequence has failed in a     *)
(* call that ends well, and the clients are closed with the call.          *)

CallFields == {"rpc", "nameless", "client", "envs", "todo", "open", "lastErr",
               "inReply", "cred", "reply", "failed", "alone"}
IsCall(c) == c = [f \in CallFields |-> c[f]]

(* What the type invariant says of one call, and the form of its records.  *)
CallTypeOK(c) ==
    /\ IsCall(c)
    /\ c.rpc \in RPCs \cup {"none"}
    /\ c.envs \in EnvLists \cup {<<>>}
    /\ c.open \subseteq Clients
    /\ c.reply \in {"none", "ok", "error", "taskerror", "refused"}
    /\ c.client \in {"none", "waiting", "gone"}
    /\ c.cred \in [Keys -> {v.by : v \in Values} \cup {"unread"}]
    /\ ScriptOK(c.todo, c.rpc, c.envs)

OpenOK(c) ==
    /\ c.reply # "none" => c.open \subseteq {"task"}
    /\ c.rpc = "none" => c = Idle

FailedOK(c) ==
    \/ c.failed \subseteq Excused(c.rpc)
    \/ c.reply = "none" /\ c.lastErr
    \/ c.reply \in {"error", "taskerror"}

NamelessOK(c) ==
    c.nameless # "no" =>
        /\ c.nameless \in Spellings
        /\ DataEngine(c.nameless) = "V2"
        /\ c.rpc \in FrontendRPCs
        /\ "engineFrontendName" \notin C!Needs(C!Methods[c.rpc], c.nameless)

CallOK(c) == CallTypeOK(c) /\ OpenOK(c) /\ FailedOK(c) /\ NamelessOK(c)

LEMMA TypeOfIdle == CallTypeOK(Idle)
  <1>1. <<>> \in Seq({}) OBVIOUS
  <1>2. ScriptOK(<<>>, "none", <<>>) BY Short
  <1>3. QED BY <1>1, <1>2 DEF CallTypeOK, IsCall, Idle, CallFields

LEMMA IdleOK == CallOK(Idle)
  BY TypeOfIdle DEF CallOK, OpenOK, FailedOK, NamelessOK, Idle

(* Of a call that runs, the fields in changed have become those of d.      *)
Becomes(c, d, changed) ==
    /\ CallOK(c) /\ c.rpc # "none" /\ c.reply = "none"
    /\ IsCall(d)
    /\ \A f \in CallFields \ changed : d[f] = c[f]

(* Most actions change only what the parts but the first do not look at.   *)
LEMMA Kept ==
    ASSUME NEW c, NEW d,
           Becomes(c, d, {"todo", "open", "inReply", "cred", "alone"}), CallTypeOK(d)
    PROVE  CallOK(d)
  <1>1. OpenOK(d) /\ FailedOK(d) /\ NamelessOK(d)
    BY DEF Becomes, CallFields, CallOK, OpenOK, FailedOK, NamelessOK
  <1>2. QED BY <1>1 DEF CallOK

CallsOK == calls = [t \in Threads |-> calls[t]] /\ \A t \in Threads : CallOK(calls[t])

(* An action changes one call; the others stay in form.                    *)
LEMMA Updated ==
    ASSUME CallsOK, NEW t \in Threads, NEW d, Update(t, d), CallOK(d)
    PROVE  CallsOK'
  <1>1. calls' = [u \in Threads |-> IF u = t THEN d ELSE calls[u]]
    BY DEF CallsOK, Update
  <1>2. QED BY <1>1 DEF CallsOK

(* What a handler knows about the step that it is at.                      *)
LEMMA AtStep ==
    ASSUME CallsOK, NEW t \in Threads, NEW kinds, At(t, kinds)
    PROVE  /\ CallOK(calls[t]) /\ CallTypeOK(calls[t]) /\ IsCall(calls[t])
           /\ calls[t].rpc # "none" /\ calls[t].reply = "none" /\ calls[t].todo # <<>>
           /\ Head(calls[t].todo).do \in kinds
           /\ StepOK(Head(calls[t].todo), calls[t].rpc, calls[t].envs)
           /\ ScriptOK(Tail(calls[t].todo), calls[t].rpc, calls[t].envs)
  <1>1. CallOK(calls[t]) /\ CallTypeOK(calls[t]) /\ IsCall(calls[t])
    BY DEF CallsOK, CallOK, CallTypeOK
  <1>2. QED BY <1>1, Suffix DEF At, Running, CallTypeOK

LEMMA OpenClientOK ==
    ASSUME CallsOK, NEW t \in Threads, OpenClient(t)
    PROVE  CallsOK'
  <1>1. At(t, {"open", "tryopen"})
    BY DEF OpenClient
  <1> DEFINE d == [Done(t) EXCEPT !.open = @ \cup {What(t)}]
  <1>2. /\ Becomes(calls[t], d, {"todo", "open"})
        /\ d.todo = Tail(calls[t].todo) /\ d.open = calls[t].open \cup {What(t)}
    BY <1>1, AtStep DEF Becomes, Done, IsCall, CallFields
  <1>3. What(t) \in Clients
    BY <1>1, AtStep DEF What, StepOK
  <1>4. Update(t, d)
    BY DEF OpenClient
  <1> HIDE DEF d
  <1>5. CallTypeOK(d)
    BY <1>1, <1>2, <1>3, AtStep DEF Becomes, CallFields, CallTypeOK
  <1>6. CallOK(d)
    BY <1>2, <1>5, Kept DEF Becomes
  <1>7. QED BY <1>4, <1>6, Updated

LEMMA GetenvOK ==
    ASSUME CallsOK, env \in [Keys -> Values], NEW t \in Threads, Getenv(t)
    PROVE  CallsOK'
  <1>1. At(t, {"read"})
    BY DEF Getenv
  <1> DEFINE d == [Done(t) EXCEPT !.cred[What(t)] = env[What(t)].by]
  <1>2. What(t) \in Keys
    BY <1>1, AtStep DEF What, StepOK
  <1>3. /\ Becomes(calls[t], d, {"todo", "cred"})
        /\ d.todo = Tail(calls[t].todo)
        /\ d.cred = [calls[t].cred EXCEPT ![What(t)] = env[What(t)].by]
    BY <1>1, AtStep DEF Becomes, Done, IsCall, CallFields
  <1>4. Update(t, d)
    BY DEF Getenv
  <1> HIDE DEF d
  <1>5. env[What(t)].by \in {v.by : v \in Values}
    BY <1>2
  <1>6. d.cred \in [Keys -> {v.by : v \in Values} \cup {"unread"}]
    <2> DEFINE B == {v.by : v \in Values} \cup {"unread"}
    <2>1. calls[t].cred \in [Keys -> B] /\ env[What(t)].by \in B
      BY <1>1, <1>5, AtStep DEF CallTypeOK
    <2> HIDE DEF B
    <2>2. d.cred \in [Keys -> B]
      BY <1>3, <2>1
    <2>3. QED BY <2>2 DEF B
  <1>7. CallTypeOK(d)
    BY <1>1, <1>3, <1>6, AtStep DEF Becomes, CallFields, CallTypeOK
  <1>8. QED BY <1>3, <1>4, <1>7, Kept, Updated DEF Becomes

LEMMA AdvanceOK ==
    ASSUME CallsOK, NEW t \in Threads, NEW kinds, At(t, kinds), Update(t, Done(t))
    PROVE  CallsOK'
  <1> DEFINE d == Done(t)
  <1>1. Becomes(calls[t], d, {"todo"}) /\ d.todo = Tail(calls[t].todo)
    BY AtStep DEF Becomes, Done, IsCall, CallFields
  <1>2. Update(t, d)
    OBVIOUS
  <1> HIDE DEF d
  <1>3. CallTypeOK(d)
    BY <1>1, AtStep DEF Becomes, CallFields, CallTypeOK
  <1>4. QED BY <1>1, <1>2, <1>3, Kept, Updated DEF Becomes

LEMMA CloseClientOK ==
    ASSUME CallsOK, NEW t \in Threads, CloseClient(t)
    PROVE  CallsOK'
  <1>1. At(t, {"close"})
    BY DEF CloseClient
  <1> DEFINE d == [Done(t) EXCEPT !.open = @ \ {What(t)}]
  <1>2. /\ Becomes(calls[t], d, {"todo", "open"})
        /\ d.todo = Tail(calls[t].todo) /\ d.open = calls[t].open \ {What(t)}
    BY <1>1, AtStep DEF Becomes, Done, IsCall, CallFields
  <1>3. Update(t, d)
    BY DEF CloseClient
  <1> HIDE DEF d
  <1>4. CallTypeOK(d)
    BY <1>1, <1>2, AtStep DEF Becomes, CallFields, CallTypeOK
  <1>5. QED BY <1>2, <1>3, <1>4, Kept, Updated DEF Becomes

LEMMA EnterDataEngineOK ==
    ASSUME CallsOK, NEW t \in Threads, EnterDataEngine(t)
    PROVE  CallsOK'
  <1>1. At(t, {"inreply"})
    BY DEF EnterDataEngine
  <1> DEFINE d == [Done(t) EXCEPT !.inReply = TRUE]
  <1>2. Becomes(calls[t], d, {"todo", "inReply"}) /\ d.todo = Tail(calls[t].todo)
    BY <1>1, AtStep DEF Becomes, Done, IsCall, CallFields
  <1>3. Update(t, d)
    BY DEF EnterDataEngine
  <1> HIDE DEF d
  <1>4. CallTypeOK(d)
    BY <1>1, <1>2, AtStep DEF Becomes, CallFields, CallTypeOK
  <1>5. QED BY <1>2, <1>3, <1>4, Kept, Updated DEF Becomes

(* A call that has failed where its handler can do without it.             *)
LEMMA TryFailsOK ==
    ASSUME CallsOK, NEW t \in Threads, TryFails(t)
    PROVE  CallsOK'
  <1>1. At(t, {"try", "tryopen"})
    BY DEF TryFails
  <1> DEFINE todo == calls[t].todo
             d == [calls[t] EXCEPT !.todo = SubSeq(todo, Head(todo).skip + 2, Len(todo)),
                                   !.failed = @ \cup {What(t)}]
  <1>2. /\ Becomes(calls[t], d, {"todo", "failed"})
        /\ d.todo = SubSeq(todo, Head(todo).skip + 2, Len(todo))
        /\ d.failed = calls[t].failed \cup {What(t)}
    BY <1>1, AtStep DEF Becomes, IsCall, CallFields
  <1>3. Update(t, d)
    BY DEF TryFails
  <1> HIDE DEF d
  <1>4. What(t) \in Excused(calls[t].rpc) /\ Head(todo).skip \in Nat
    BY <1>1, AtStep DEF What, StepOK
  <1>5. ScriptOK(d.todo, d.rpc, d.envs)
    BY <1>1, <1>2, <1>4, AtStep, Suffix DEF Becomes, CallFields, CallTypeOK
  <1>6. CallTypeOK(d)
    BY <1>1, <1>2, <1>5, AtStep DEF Becomes, CallFields, CallTypeOK
  <1>7. OpenOK(d) /\ FailedOK(d) /\ NamelessOK(d)
    BY <1>2, <1>4 DEF Becomes, CallFields, CallOK, OpenOK, FailedOK, NamelessOK
  <1>8. QED BY <1>3, <1>6, <1>7, Updated DEF CallOK

LEMMA EachFailsOK ==
    ASSUME CallsOK, NEW t \in Threads, EachFails(t)
    PROVE  CallsOK'
  <1>1. At(t, {"each"})
    BY DEF EachFails
  <1> DEFINE d == [Done(t) EXCEPT !.lastErr = TRUE, !.failed = @ \cup {What(t)}]
  <1>2. /\ Becomes(calls[t], d, {"todo", "lastErr", "failed"})
        /\ d.todo = Tail(calls[t].todo) /\ d.lastErr
    BY <1>1, AtStep DEF Becomes, Done, IsCall, CallFields
  <1>3. Update(t, d)
    BY DEF EachFails
  <1> HIDE DEF d
  <1>4. CallTypeOK(d)
    BY <1>1, <1>2, AtStep DEF Becomes, CallFields, CallTypeOK
  <1>5. OpenOK(d) /\ FailedOK(d) /\ NamelessOK(d)
    BY <1>2 DEF Becomes, CallFields, CallOK, OpenOK, FailedOK, NamelessOK
  <1>6. QED BY <1>3, <1>4, <1>5, Updated DEF CallOK

(* The client's deadline has passed.                                       *)
LEMMA GiveUpOK ==
    ASSUME CallsOK, NEW t \in Threads, GiveUp(t)
    PROVE  CallsOK'
  <1>1. /\ CallOK(calls[t]) /\ CallTypeOK(calls[t]) /\ IsCall(calls[t])
        /\ calls[t].rpc # "none" /\ calls[t].reply = "none" /\ calls[t].client = "waiting"
    BY DEF CallsOK, CallOK, CallTypeOK, GiveUp, Running
  <1> DEFINE d == [calls[t] EXCEPT !.client = "gone", !.open = @ \ {"task"}]
  <1>2. /\ Becomes(calls[t], d, {"client", "open"})
        /\ d.client = "gone" /\ d.open = calls[t].open \ {"task"}
    BY <1>1 DEF Becomes, IsCall, CallFields
  <1>3. Update(t, d)
    BY DEF GiveUp
  <1> HIDE DEF d
  <1>4. CallTypeOK(d)
    BY <1>1, <1>2 DEF Becomes, CallFields, CallTypeOK
  <1>5. OpenOK(d) /\ FailedOK(d) /\ NamelessOK(d)
    BY <1>2 DEF Becomes, CallFields, CallOK, OpenOK, FailedOK, NamelessOK
  <1>6. QED BY <1>3, <1>4, <1>5, Updated DEF CallOK

(* The handler returns: with an error, or without one if it has kept none. *)
LEMMA ReturnOK ==
    ASSUME CallsOK, NEW t \in Threads, Running(t), NEW failed,
           NEW reply \in {"ok", "error", "taskerror"},
           reply = "ok" => ~calls[t].lastErr /\ failed = calls[t].failed,
           Return(t, [calls[t] EXCEPT !.failed = failed], reply)
    PROVE  CallsOK'
  <1>1. /\ CallOK(calls[t]) /\ CallTypeOK(calls[t]) /\ IsCall(calls[t])
        /\ calls[t].rpc # "none" /\ calls[t].reply = "none"
    BY DEF CallsOK, CallOK, CallTypeOK, Running
  <1> DEFINE c == [calls[t] EXCEPT !.failed = failed]
             d == [c EXCEPT !.reply = reply, !.todo = <<>>, !.open = @ \cap {"task"}]
  <1>2. /\ Becomes(calls[t], d, {"failed", "reply", "todo", "open"})
        /\ d.failed = failed /\ d.reply = reply /\ d.todo = <<>>
        /\ d.open = calls[t].open \cap {"task"}
    BY <1>1 DEF Becomes, IsCall, CallFields
  <1>3. Update(t, d)
    BY DEF Return
  <1> HIDE DEF c, d
  <1>4. CallTypeOK(d)
    BY <1>1, <1>2, Short DEF Becomes, CallFields, CallTypeOK
  <1>5. OpenOK(d) /\ FailedOK(d) /\ NamelessOK(d)
    BY <1>1, <1>2 DEF Becomes, CallFields, CallOK, OpenOK, FailedOK, NamelessOK
  <1>6. QED BY <1>3, <1>4, <1>5, Updated DEF CallOK

LEMMA FailsOK ==
    ASSUME CallsOK, NEW t \in Threads, Running(t), NEW what, Fails(t, what)
    PROVE  CallsOK'
  <1> DEFINE reply == IF calls[t].inReply THEN "taskerror" ELSE "error"
  <1>1. Return(t, [calls[t] EXCEPT !.failed = calls[t].failed \cup {what}], reply)
    BY DEF Fails, CallsOK, CallOK, CallTypeOK, IsCall, CallFields
  <1>2. reply \in {"error", "taskerror"}
    OBVIOUS
  <1> HIDE DEF reply
  <1>3. QED BY <1>1, <1>2, ReturnOK

LEMMA AnswerOK ==
    ASSUME CallsOK, NEW t \in Threads, RefuseRequest(t) \/ Answer(t)
    PROVE  CallsOK'
  <1> DEFINE reply == IF RefuseRequest(t) \/ calls[t].lastErr THEN "error" ELSE "ok"
  <1>1. calls[t] = [calls[t] EXCEPT !.failed = calls[t].failed]
    BY DEF CallsOK, CallOK, CallTypeOK, IsCall, CallFields
  <1>2. Running(t)
    BY DEF RefuseRequest, Answer, At
  <1>3. CASE RefuseRequest(t)
    BY <1>1, <1>2, <1>3, ReturnOK DEF RefuseRequest
  <1>4. CASE Answer(t) /\ calls[t].lastErr
    BY <1>1, <1>2, <1>4, ReturnOK DEF Answer
  <1>5. CASE Answer(t) /\ ~calls[t].lastErr
    BY <1>1, <1>2, <1>5, ReturnOK DEF Answer
  <1>6. QED BY <1>3, <1>4, <1>5

LEMMA ContextDoneOK ==
    ASSUME CallsOK, NEW t \in Threads, ContextDone(t)
    PROVE  CallsOK'
  <1>1. calls[t].open \subseteq {"task"}
    BY DEF CallsOK, CallOK, OpenOK, ContextDone
  <1>2. [Idle EXCEPT !.open = calls[t].open \ {"task"}] = Idle
    <2>1. calls[t].open \ {"task"} = {}
      BY <1>1
    <2>2. IsCall(Idle) /\ Idle.open = {}
      BY TypeOfIdle DEF CallTypeOK, Idle
    <2>3. [Idle EXCEPT !.open = {}] = Idle
      BY <2>2 DEF IsCall, CallFields
    <2>4. QED BY <2>1, <2>3
  <1>3. QED BY <1>2, IdleOK, Updated DEF ContextDone

LEMMA ClientRefusesOK ==
    ASSUME CallsOK, NEW t \in Threads, ClientRefuses(t)
    PROVE  CallsOK'
  <1>1. PICK rpc \in RPCs \cap DOMAIN C!Methods :
          Update(t, [Idle EXCEPT !.rpc = rpc, !.client = "waiting", !.reply = "refused"])
    BY DEF ClientRefuses
  <1> DEFINE d == [Idle EXCEPT !.rpc = rpc, !.client = "waiting", !.reply = "refused"]
  <1>2. IsCall(d) /\ d.rpc = rpc /\ d.client = "waiting" /\ d.reply = "refused" /\
        \A f \in CallFields \ {"rpc", "client", "reply"} : d[f] = Idle[f]
    BY DEF IsCall, CallFields, Idle
  <1>3. Update(t, d)
    BY <1>1
  <1> HIDE DEF d
  <1>4. rpc # "none" /\ "none" \notin Excused(rpc)
    BY DEF RPCs, EngineHandlers, OtherHandlers, Commands, BackupRPCs, Excused, BestEffort, Swallowed
  <1>5. CallTypeOK(d)
    <2>1. ScriptOK(d.todo, d.rpc, d.envs)
      BY <1>2, Short DEF CallFields, Idle
    <2>2. QED BY <1>2, <2>1, TypeOfIdle DEF CallFields, CallTypeOK
  <1>6. OpenOK(d) /\ FailedOK(d) /\ NamelessOK(d)
    BY <1>2, <1>4 DEF CallFields, OpenOK, FailedOK, NamelessOK, Idle
  <1>7. QED BY <1>3, <1>5, <1>6, Updated DEF CallOK

(* A request comes in, with a script in form.                              *)
LEMMA StartOK ==
    ASSUME CallsOK, NEW t \in Threads, Start(t)
    PROVE  CallsOK'
  <1>1. PICK rpc \in RPCs, spelling \in Spellings, nameless \in Spellings \cup {"no"},
             envs \in EnvLists \cup {<<>>} :
          /\ Spelled(rpc, spelling, nameless)
          /\ \E script \in Scripts(rpc, DataEngine(spelling), envs) :
              calls' = [u \in Threads |->
                          IF u = t THEN Request(t, rpc, spelling, nameless, envs, script)
                          ELSE IF u \in Others(t) THEN [calls[u] EXCEPT !.alone = FALSE]
                          ELSE calls[u]]
    BY Zenon DEF Start
  <1>2. PICK script \in Scripts(rpc, DataEngine(spelling), envs) :
              calls' = [u \in Threads |->
                          IF u = t THEN Request(t, rpc, spelling, nameless, envs, script)
                          ELSE IF u \in Others(t) THEN [calls[u] EXCEPT !.alone = FALSE]
                          ELSE calls[u]]
    BY <1>1, Zenon
  <1> DEFINE d == Request(t, rpc, spelling, nameless, envs, script)
  <1>3. /\ IsCall(d) /\ d.rpc = rpc /\ d.nameless = nameless /\ d.envs = envs /\ d.todo = script
        /\ d.client \in {"waiting", "none"}
        /\ d.client = "waiting" => rpc \in DOMAIN C!Methods
        /\ \A f \in CallFields \ {"rpc", "nameless", "client", "envs", "todo", "alone"} :
              d[f] = Idle[f]
    BY DEF Request, IsCall, CallFields, Idle
  <1>4. ScriptOK(script, rpc, envs)
    BY AllScripts
  <1>5. calls' = [u \in Threads |-> IF u = t THEN d
                     ELSE IF u \in Others(t) THEN [calls[u] EXCEPT !.alone = FALSE]
                     ELSE calls[u]]
    BY <1>2
  <1> HIDE DEF d
  <1>6. CallOK(d)
    <2>1. rpc # "none"
      BY DEF RPCs, EngineHandlers, OtherHandlers, Commands, BackupRPCs
    <2>2. CallTypeOK(d)
      BY <1>3, <1>4, TypeOfIdle DEF CallFields, CallTypeOK, Idle
    <2>3. OpenOK(d) /\ FailedOK(d) /\ NamelessOK(d)
      BY <1>1, <1>3, <2>1
      DEF CallFields, OpenOK, FailedOK, NamelessOK, Idle, Spelled
    <2>4. QED BY <2>2, <2>3 DEF CallOK
  <1>7. ASSUME NEW u \in Threads, u # t
        PROVE  CallOK(calls'[u])
    <2>1. CASE u \in Others(t)
      <3> DEFINE f == [calls[u] EXCEPT !.alone = FALSE]
      <3>1. CallOK(calls[u]) /\ CallTypeOK(calls[u]) /\ IsCall(calls[u])
        BY DEF CallsOK, CallOK, CallTypeOK
      <3>2. IsCall(f) /\ \A g \in CallFields \ {"alone"} : f[g] = calls[u][g]
        BY <3>1 DEF IsCall, CallFields
      <3>3. calls'[u] = f /\ calls[u].rpc # "none"
        BY <1>5, <1>7, <2>1 DEF Others
      <3> HIDE DEF f
      <3>4. CallTypeOK(f)
        BY <3>1, <3>2 DEF CallFields, CallTypeOK
      <3>5. OpenOK(f) /\ FailedOK(f) /\ NamelessOK(f)
        BY <3>1, <3>2, <3>3
        DEF CallFields, CallOK, OpenOK, FailedOK, NamelessOK
      <3>6. QED BY <3>3, <3>4, <3>5 DEF CallOK
    <2>2. CASE u \notin Others(t)
      BY <1>5, <1>7, <2>2 DEF CallsOK
    <2>3. QED BY <2>1, <2>2
  <1>8. QED BY <1>5, <1>6, <1>7 DEF CallsOK

(* Every action of a handler keeps the calls in form.                      *)
LEMMA HandlerStepOK ==
    ASSUME CallsOK, env \in [Keys -> Values], NEW t \in Threads, HandlerStep(t)
    PROVE  CallsOK'
  <1>1. CASE CallSucceeds(t)
    BY <1>1, AdvanceOK DEF CallSucceeds
  <1>2. CASE Setenv(t)
    BY <1>2, AdvanceOK DEF Setenv
  <1>3. CASE StepFails(t)
    BY <1>3, FailsOK DEF StepFails, At
  <1>4. CASE EndScan(t)
    <2>1. At(t, {"scan"}) /\ Running(t)
      BY <1>4 DEF EndScan, At
    <2>2. Update(t, Done(t)) \/ Fails(t, What(t))
      BY <1>4 DEF EndScan
    <2>3. QED BY <2>1, <2>2, AdvanceOK, FailsOK
  <1>5. CASE EndStream(t)
    BY <1>5, AdvanceOK DEF EndStream
  <1>6. CASE StreamFails(t)
    BY <1>6, FailsOK DEF StreamFails, At
  <1>7. CASE BeginScan(t) \/ BeginStream(t) \/ StreamLine(t)
    BY <1>7 DEF BeginScan, BeginStream, StreamLine, CallsOK
  <1>8. QED
    BY <1>1, <1>2, <1>3, <1>4, <1>5, <1>6, <1>7, ClientRefusesOK, StartOK, GiveUpOK,
       OpenClientOK, CloseClientOK, TryFailsOK, EachFailsOK, AnswerOK, EnterDataEngineOK,
       GetenvOK, ContextDoneOK
    DEF HandlerStep

-----------------------------------------------------------------------------
(* The loops over the replicas.  What the loop has collected is a function *)
(* of what it has heard, and whom it has not asked yet is still to be      *)
(* asked, unless an answer has ended the loop.                             *)

(* A set of replicas that is not empty has a first one.                    *)
LEMMA Smallest ==
    ASSUME NEW S, S \subseteq Replicas, S # {}
    PROVE  Min(S) \in S
  <1>1. S \subseteq Nat
    BY ReplicasAssumption
  <1> DEFINE R == {p \in Nat \X Nat : p[1] < p[2]}
  <1>2. IsWellFoundedOn(R, Nat)
    BY NatLessThanWellFounded, Zenon DEF OpToRel
  <1>3. PICK x \in S : \A y \in S : <<y, x>> \notin R
    <2> HIDE DEF R
    <2>1. QED BY <1>1, <1>2, WFMin
  <1>4. ASSUME NEW y \in S
        PROVE  x <= y
    <2>1. SUFFICES ASSUME y < x
                   PROVE  FALSE
      BY <1>1
    <2> DEFINE p == <<y, x>>
    <2>2. p \in Nat \X Nat /\ p[1] < p[2]
      BY <1>1, <2>1
    <2> HIDE DEF p
    <2>3. p \in R
      BY <2>2
    <2>4. QED BY <1>3, <2>3 DEF p
  <1>5. QED BY <1>4 DEF Min

AskedOK ==
    /\ scan.todo \subseteq scan.wanted
    /\ \A r \in scan.todo : scan.answer[r] = "unasked"
    /\ \A r \in scan.wanted :
         /\ scan.answer[r] \in AnswersOf(scan.loop) \cup {"unasked", "noclient"}
         /\ scan.answer[r] = "unasked" /\ r \notin scan.todo =>
              \/ scan.loop = "rebuilding" /\ scan.firstErr
              \/ scan.loop \in {"backup_v1", "backup_v2"} /\ scan.status # {}

HeardOK ==
    /\ scan.noState = Heards({"nostate"})
    /\ scan.firstErr <=> Heards({"noclient", "error"}) # {}
    /\ scan.status =
         IF /\ scan.outcome # "none" /\ scan.loop = "clone"
            /\ Heards({"status"}) = {} /\ scan.noState # {}
         THEN {Min(scan.noState)} ELSE Heards({"status"})

ClientOK ==
    /\ scan.client \in scan.todo \cup {NoClient}
    /\ scan.loop = "none" => scan = NoScan
    /\ scan.outcome # "none" => scan.todo = {} /\ scan.outcome = Outcome

ScanInv == ScanTypeOK /\ AskedOK /\ HeardOK /\ ClientOK

LEMMA NoScanOK ==
    ASSUME scan = NoScan
    PROVE  ScanInv
  <1>1. ScanTypeOK
    BY DEF ScanTypeOK, NoScan, Answers
  <1>2. Heards({"nostate"}) = {} /\ Heards({"noclient", "error"}) = {} /\ Heards({"status"}) = {}
    BY DEF Heards, NoScan
  <1>3. AskedOK /\ HeardOK /\ ClientOK
    BY <1>2 DEF AskedOK, HeardOK, ClientOK, NoScan
  <1>4. QED BY <1>1, <1>3 DEF ScanInv

LEMMA ScanBeginOK ==
    ASSUME ScanInv, NEW loop \in Loops, ScanBegin(loop)
    PROVE  ScanInv'
  <1>1. PICK asked \in SUBSET Replicas :
          scan' = [NoScan EXCEPT !.loop = loop, !.todo = asked, !.wanted = asked,
                                 !.client = scan.client]
    BY DEF ScanBegin
  <1>2. scan.client = NoClient
    BY DEF ScanBegin, ScanInv, ClientOK, NoScan
  <1>3. /\ scan'.loop = loop /\ scan'.todo = asked /\ scan'.wanted = asked
        /\ scan'.client = NoClient /\ scan'.status = {} /\ scan'.noState = {}
        /\ scan'.firstErr = FALSE /\ scan'.outcome = "none"
        /\ \A r \in Replicas : scan'.answer[r] = "unasked"
    BY <1>1, <1>2 DEF NoScan
  <1>4. ScanTypeOK'
    BY <1>1, <1>2 DEF ScanTypeOK, NoScan, Answers
  <1>5. Heards({"nostate"})' = {} /\ Heards({"noclient", "error"})' = {} /\ Heards({"status"})' = {}
    BY <1>3 DEF Heards
  <1>6. AskedOK' /\ HeardOK' /\ ClientOK'
    BY <1>3, <1>5 DEF AskedOK, HeardOK, ClientOK, Loops
  <1>7. QED BY <1>4, <1>6 DEF ScanInv

LEMMA NextReplica ==
    ASSUME ScanInv, NEW r \in NextReplicas
    PROVE  /\ r \in scan.todo /\ r \in scan.wanted /\ r \in Replicas /\ r # NoClient
           /\ scan.answer[r] = "unasked" /\ scan.outcome = "none" /\ scan.loop \in Loops
  <1>1. scan.todo \subseteq Replicas
    BY DEF ScanInv, ScanTypeOK
  <1>2. r \in scan.todo
    BY <1>1, Smallest DEF NextReplicas
  <1>3. scan.outcome = "none" /\ scan.loop \in Loops
    BY <1>2 DEF ScanInv, ScanTypeOK, ClientOK, NoScan
  <1>4. QED
    BY <1>1, <1>2, <1>3, ReplicasAssumption DEF ScanInv, AskedOK, NoClient

LEMMA ScanOpenOK ==
    ASSUME ScanInv, ScanOpen
    PROVE  ScanInv'
  <1>1. PICK r \in NextReplicas : scan' = [scan EXCEPT !.client = r]
    BY DEF ScanOpen
  <1>2. /\ scan'.loop = scan.loop /\ scan'.todo = scan.todo /\ scan'.wanted = scan.wanted
        /\ scan'.client = r /\ scan'.status = scan.status /\ scan'.noState = scan.noState
        /\ scan'.firstErr = scan.firstErr /\ scan'.outcome = scan.outcome
        /\ scan'.answer = scan.answer
    BY <1>1 DEF ScanInv, ScanTypeOK
  <1>3. ScanTypeOK'
    BY <1>1, NextReplica DEF ScanInv, ScanTypeOK
  <1>4. \A S : Heards(S)' = Heards(S)
    BY <1>2 DEF Heards
  <1>5. AskedOK' /\ HeardOK' /\ ClientOK'
    BY <1>2, <1>4, NextReplica DEF ScanInv, AskedOK, HeardOK, ClientOK, Loops
  <1>6. QED BY <1>3, <1>5 DEF ScanInv

(* An answer, be it that there is no client to ask with, is taken in.      *)
LEMMA HeardInv ==
    ASSUME ScanInv, NEW r \in NextReplicas,
           NEW a \in AnswersOf(scan.loop) \cup {"noclient"}, Heard(r, a, NoClient)
    PROVE  ScanInv'
  <1>0. /\ r \in scan.todo /\ r \in scan.wanted /\ r \in Replicas
        /\ scan.answer[r] = "unasked" /\ scan.outcome = "none" /\ scan.loop \in Loops
    BY NextReplica
  <1>1. /\ scan'.loop = scan.loop /\ scan'.wanted = scan.wanted
        /\ scan'.todo = (IF Ends(scan.loop, a) THEN {} ELSE scan.todo \ {r})
        /\ scan'.client = NoClient
        /\ scan'.status = (IF a = "status" THEN scan.status \cup {r} ELSE scan.status)
        /\ scan'.noState = (IF a = "nostate" THEN scan.noState \cup {r} ELSE scan.noState)
        /\ scan'.firstErr = (scan.firstErr \/ a \in {"noclient", "error"})
        /\ scan'.outcome = "none"
        /\ scan'.answer = [scan.answer EXCEPT ![r] = a]
    BY <1>0 DEF ScanInv, ScanTypeOK, Heard, NoStateSeen, ErrorSeen
  <1>2. a \in Answers
    BY DEF Answers, AnswersOf
  <1>3. ScanTypeOK'
    <2>1. scan' \in [loop     : Loops \cup {"none"},
              todo     : SUBSET Replicas,
              client   : Replicas \cup {NoClient},
              status   : SUBSET Replicas,
              noState  : SUBSET Replicas,
              firstErr : BOOLEAN,
              outcome  : {"none", "ok", "error", "absent"},
              wanted   : SUBSET Replicas,
              answer   : [Replicas -> Answers]]
      BY <1>0, <1>2 DEF Heard, ScanInv, ScanTypeOK, NoStateSeen, ErrorSeen
    <2>2. QED BY <2>1 DEF ScanTypeOK
  <1>4. scan.answer \in [Replicas -> Answers] /\ scan.wanted \subseteq Replicas
    BY DEF ScanInv, ScanTypeOK
  <1>5. \A q \in scan.wanted : scan'.answer[q] = IF q = r THEN a ELSE scan.answer[q]
    BY <1>1, <1>4
  <1>6. ASSUME NEW S, "unasked" \notin S
        PROVE  Heards(S)' = IF a \in S THEN Heards(S) \cup {r} ELSE Heards(S)
    BY <1>0, <1>1, <1>5, <1>6 DEF Heards
  <1>7. /\ Heards({"nostate"})' = IF a = "nostate" THEN Heards({"nostate"}) \cup {r} ELSE Heards({"nostate"})
        /\ Heards({"status"})' = IF a = "status" THEN Heards({"status"}) \cup {r} ELSE Heards({"status"})
        /\ Heards({"noclient", "error"})' =
             IF a \in {"noclient", "error"} THEN Heards({"noclient", "error"}) \cup {r}
             ELSE Heards({"noclient", "error"})
    BY <1>6
  <1>8. HeardOK'
    BY <1>0, <1>1, <1>7 DEF ScanInv, HeardOK
  <1>9. AskedOK'
    <2>1. /\ scan'.todo \subseteq scan'.wanted
          /\ \A q \in scan'.todo : scan'.answer[q] = "unasked"
      BY <1>1, <1>5 DEF ScanInv, AskedOK
    <2>2. ASSUME NEW q \in scan'.wanted
          PROVE  scan'.answer[q] \in AnswersOf(scan'.loop) \cup {"unasked", "noclient"}
      BY <1>1, <1>5 DEF ScanInv, AskedOK
    <2>3. ASSUME NEW q \in scan'.wanted, scan'.answer[q] = "unasked", q \notin scan'.todo
          PROVE  \/ scan'.loop = "rebuilding" /\ scan'.firstErr
                 \/ scan'.loop \in {"backup_v1", "backup_v2"} /\ scan'.status # {}
      <3>1. a # "unasked"
        BY DEF AnswersOf
      <3>2. q # r /\ scan.answer[q] = "unasked" /\ q \in scan.wanted
        BY <1>1, <1>5, <2>3, <3>1
      <3>3. CASE Ends(scan.loop, a)
        BY <1>1, <3>3 DEF Ends
      <3>4. CASE ~Ends(scan.loop, a)
        <4>1. q \notin scan.todo
          BY <1>1, <2>3, <3>2, <3>4
        <4>2. QED BY <1>1, <3>2, <4>1 DEF ScanInv, AskedOK
      <3>5. QED BY <3>3, <3>4
    <2>4. QED BY <2>1, <2>2, <2>3 DEF AskedOK
  <1>10. ClientOK'
    BY <1>0, <1>1 DEF ClientOK, Loops
  <1>11. QED BY <1>3, <1>8, <1>9, <1>10 DEF ScanInv

LEMMA ScanEndOK ==
    ASSUME ScanInv, ScanEnd
    PROVE  ScanInv'
  <1> DEFINE fallback == scan.loop = "clone" /\ scan.status = {} /\ scan.noState # {}
             status == IF fallback THEN {Min(scan.noState)} ELSE scan.status
  <1>1. /\ scan.loop # "none" /\ scan.outcome = "none" /\ scan.todo = {}
        /\ scan.loop \in Loops
    BY DEF ScanEnd, ScanInv, ScanTypeOK
  <1>2. Outcome \in {"ok", "error", "absent"}
    BY <1>1 DEF Outcome, Loops
  <1>3. scan' = [scan EXCEPT !.outcome = Outcome, !.status = status]
    BY DEF ScanEnd, ScanInv, ScanTypeOK
  <1>4. status \subseteq Replicas
    BY Smallest DEF ScanInv, ScanTypeOK
  <1> HIDE DEF status
  <1>5. /\ scan'.loop = scan.loop /\ scan'.todo = scan.todo /\ scan'.wanted = scan.wanted
        /\ scan'.client = scan.client /\ scan'.status = status /\ scan'.noState = scan.noState
        /\ scan'.firstErr = scan.firstErr /\ scan'.outcome = Outcome
        /\ scan'.answer = scan.answer
    BY <1>3 DEF ScanInv, ScanTypeOK
  <1>6. ScanTypeOK'
    BY <1>2, <1>3, <1>4 DEF ScanInv, ScanTypeOK
  <1>7. \A S : Heards(S)' = Heards(S)
    BY <1>5 DEF Heards
  <1>8. scan.status = Heards({"status"})
    BY <1>1 DEF ScanInv, HeardOK
  <1>9. HeardOK'
    BY <1>2, <1>5, <1>7, <1>8 DEF ScanInv, HeardOK, status
  <1>10. AskedOK'
    BY <1>1, <1>5 DEF ScanInv, AskedOK, status
  <1>11. Outcome' = Outcome
    BY <1>1, <1>5 DEF Outcome, Loops, status
  <1>12. ClientOK'
    BY <1>1, <1>2, <1>5, <1>11 DEF ScanInv, ClientOK
  <1>13. QED BY <1>6, <1>9, <1>10, <1>12 DEF ScanInv

LEMMA ScanNextOK ==
    ASSUME ScanInv, ScanNext
    PROVE  ScanInv'
  <1>1. CASE ScanOpenFails
    BY <1>1, HeardInv DEF ScanOpenFails
  <1>2. CASE ScanAsk
    BY <1>2, HeardInv DEF ScanAsk
  <1>3. QED BY <1>1, <1>2, ScanOpenOK, ScanEndOK DEF ScanNext

LEMMA ScanDoneOK ==
    ASSUME ScanInv, scan.outcome # "none", ScanDone
    PROVE  ScanInv'
  <1>1. scan.client = NoClient
    BY DEF ScanInv, ClientOK
  <1>2. scan' = NoScan
    BY <1>1 DEF ScanDone, NoScan
  <1>3. ScanTypeOK'
    BY <1>2 DEF ScanTypeOK, NoScan, Answers
  <1>4. /\ Heards({"nostate"})' = {} /\ Heards({"noclient", "error"})' = {}
        /\ Heards({"status"})' = {}
    BY <1>2 DEF Heards, NoScan
  <1>5. AskedOK' /\ HeardOK' /\ ClientOK'
    BY <1>2, <1>4 DEF AskedOK, HeardOK, ClientOK, NoScan
  <1>6. QED BY <1>3, <1>5 DEF ScanInv

(* What the invariant says of the outcome of a loop.                       *)
LEMMA ScanProperties ==
    ASSUME ScanInv
    PROVE  /\ AbsenceIsCertain /\ StatusIsComplete /\ NoReplicaSkipped
           /\ scan.loop = "none" => scan.client = NoClient
  <1>1. AbsenceIsCertain
    <2>1. SUFFICES ASSUME scan.loop = "backup_v2", scan.outcome = "absent"
                   PROVE  Heards({"notfound"}) = scan.wanted
      BY DEF AbsenceIsCertain
    <2>2. Outcome = "absent" /\ scan.todo = {}
      BY <2>1 DEF ScanInv, ClientOK
    <2>3. scan.status = {} /\ ~scan.firstErr
      BY <2>1, <2>2 DEF Outcome
    <2>4. Heards({"status"}) = {} /\ Heards({"noclient", "error"}) = {}
      BY <2>1, <2>3 DEF ScanInv, HeardOK
    <2>5. ASSUME NEW r \in scan.wanted
          PROVE  scan.answer[r] = "notfound"
      <3>1. scan.answer[r] \in {"error", "status", "notfound", "unasked", "noclient"}
        BY <2>1 DEF ScanInv, AskedOK, AnswersOf
      <3>2. scan.answer[r] # "unasked"
        BY <2>1, <2>2, <2>3 DEF ScanInv, AskedOK
      <3>3. scan.answer[r] \notin {"status", "noclient", "error"}
        BY <2>4 DEF Heards
      <3>4. QED BY <3>1, <3>2, <3>3
    <2>6. QED BY <2>5 DEF Heards
  <1>2. StatusIsComplete
    <2>1. SUFFICES ASSUME scan.outcome = "ok"
                   PROVE  /\ scan.loop = "rebuilding" => scan.status = scan.wanted
                          /\ scan.loop = "clone" =>
                               scan.status = IF Heards({"status"}) # {} THEN Heards({"status"})
                                             ELSE {Min(Heards({"nostate"}))}
      BY DEF StatusIsComplete
    <2>2. Outcome = "ok" /\ scan.todo = {}
      BY <2>1 DEF ScanInv, ClientOK
    <2>3. ASSUME scan.loop = "rebuilding" PROVE scan.status = scan.wanted
      <3>1. ~scan.firstErr
        BY <2>2, <2>3 DEF Outcome
      <3>2. Heards({"noclient", "error"}) = {} /\ scan.status = Heards({"status"})
        BY <2>3, <3>1 DEF ScanInv, HeardOK
      <3>3. \A r \in scan.wanted : scan.answer[r] \in {"status"}
        BY <2>2, <2>3, <3>1, <3>2 DEF ScanInv, AskedOK, AnswersOf, Heards
      <3>4. QED BY <3>2, <3>3 DEF Heards
    <2>4. ASSUME scan.loop = "clone"
          PROVE  scan.status = IF Heards({"status"}) # {} THEN Heards({"status"})
                               ELSE {Min(Heards({"nostate"}))}
      BY <2>1, <2>2, <2>4 DEF ScanInv, HeardOK, Outcome
    <2>5. QED BY <2>3, <2>4
  <1>3. NoReplicaSkipped
    <2>1. SUFFICES ASSUME scan.outcome # "none", NEW r \in scan.wanted, scan.answer[r] = "unasked"
                   PROVE  \/ scan.loop = "rebuilding" /\ scan.outcome = "error"
                          \/ scan.loop \in {"backup_v1", "backup_v2"} /\ scan.outcome = "ok"
      BY DEF NoReplicaSkipped
    <2>2. scan.todo = {} /\ scan.outcome = Outcome
      BY <2>1 DEF ScanInv, ClientOK
    <2>3. \/ scan.loop = "rebuilding" /\ scan.firstErr
          \/ scan.loop \in {"backup_v1", "backup_v2"} /\ scan.status # {}
      BY <2>1, <2>2 DEF ScanInv, AskedOK
    <2>4. QED BY <2>2, <2>3 DEF Outcome
  <1>4. QED BY <1>1, <1>2, <1>3 DEF ScanInv, ClientOK, NoScan

-----------------------------------------------------------------------------
(* The logs.  The lines a reader has heard, those in the stream and the    *)
(* one or two that are under way are the ones read from the file, in this  *)
(* order.                                                                  *)

LEMMA FilesAreSequences ==
    /\ \A f \in Files : f \in Seq(Lines) /\ Len(f) <= MaxLines
    /\ \A f \in Seq(Lines) : Len(f) <= MaxLines => f \in Files
  <1>1. ASSUME NEW f \in Files
        PROVE  f \in Seq(Lines) /\ Len(f) <= MaxLines
    <2>1. PICK n \in 0 .. MaxLines : f \in [1 .. n -> Lines]
      BY DEF Files
    <2>2. n \in Nat
      BY LogAssumption
    <2>3. f \in Seq(Lines) /\ Len(f) = n
      BY <2>1, <2>2
    <2>4. QED BY <2>1, <2>3, LogAssumption
  <1>2. ASSUME NEW f \in Seq(Lines), Len(f) <= MaxLines
        PROVE  f \in Files
    <2>1. Len(f) \in 0 .. MaxLines /\ f \in [1 .. Len(f) -> Lines]
      BY <1>2, LogAssumption
    <2>2. QED BY <2>1 DEF Files
  <1>3. QED BY <1>1, <1>2

LogForm ==
    /\ log \in [file     : Seq(Lines),
                read     : Nat,
                open     : BOOLEAN,
                producer : ProducerPC,
                consumer : ConsumerPC,
                line     : Nat,
                stream   : Seq(Nat),
                conn     : {"none", "up", "down"},
                reader   : ReaderPC,
                heard    : Seq(Nat)]
    /\ Len(log.file) <= MaxLines
    /\ log.read <= Len(log.file)
    /\ Len(log.stream) <= Window

Passed == Len(log.heard) + Len(log.stream)

InSequence ==
    /\ \A i \in 1 .. Len(log.heard) : log.heard[i] = i
    /\ \A i \in 1 .. Len(log.stream) : log.stream[i] = Len(log.heard) + i
    /\ log.consumer = "send" => log.line = Passed + 1

Underway ==
    (IF log.consumer = "send" THEN 1 ELSE 0) +
    (IF log.producer \in {"select", "send"} THEN 1 ELSE 0)

NoneLost ==
    log.consumer \in {"recv", "send", "ok"} =>
        /\ log.read = Passed + Underway
        /\ log.producer \in {"scan", "select", "send", "done"}
        /\ log.producer = "done" => ~ScannerHasNext

EndIsTrue ==
    /\ log.conn = "up" => log.consumer \in {"recv", "send", "ok", "error"}
    /\ log.consumer = "ok" => log.producer = "done"
    /\ log.reader = "eof" => log.consumer = "ok" /\ log.stream = <<>>

LogInv == LogForm /\ InSequence /\ NoneLost /\ EndIsTrue

(* The counts are numbers.                                                 *)
LEMMA LogSizes ==
    ASSUME LogInv
    PROVE  /\ Len(log.heard) \in Nat /\ Len(log.stream) \in Nat /\ Passed \in Nat
           /\ log.read \in Nat /\ log.read + 1 \in Nat
  <1>1. Len(log.heard) \in Nat /\ Len(log.stream) \in Nat /\ log.read \in Nat
    BY DEF LogInv, LogForm
  <1>2. PICK h \in Nat, n \in Nat, r \in Nat :
          h = Len(log.heard) /\ n = Len(log.stream) /\ r = log.read
    BY <1>1
  <1>3. h + n \in Nat /\ r + 1 \in Nat
    OBVIOUS
  <1>4. QED BY <1>2, <1>3, Zenon DEF Passed

LEMMA NoLogOK ==
    ASSUME log = NoLog
    PROVE  LogInv
  <1>1. LogForm
    BY LogAssumption DEF LogForm, NoLog, ProducerPC, ConsumerPC, ReaderPC
  <1>2. InSequence /\ NoneLost /\ EndIsTrue
    BY DEF InSequence, NoneLost, EndIsTrue, NoLog
  <1>3. QED BY <1>1, <1>2 DEF LogInv

LEMMA LogBeginOK ==
    ASSUME LogInv, LogBegin
    PROVE  LogInv'
  <1>1. CASE log' = [NoLog EXCEPT !.consumer = "error", !.conn = "up", !.reader = "recv"]
    <2>1. log' = [file |-> <<>>, read |-> 0, open |-> FALSE, producer |-> "none",
                  consumer |-> "error", line |-> 0, stream |-> <<>>, conn |-> "up",
                  reader |-> "recv", heard |-> <<>>]
      BY <1>1 DEF NoLog
    <2>2. LogForm'
      BY <2>1, LogAssumption DEF LogForm, ProducerPC, ConsumerPC, ReaderPC
    <2>3. InSequence' /\ NoneLost' /\ EndIsTrue'
      BY <2>1 DEF InSequence, NoneLost, EndIsTrue
    <2>4. QED BY <2>2, <2>3 DEF LogInv
  <1>2. ASSUME NEW f \in Files,
               log' = [NoLog EXCEPT !.file = f, !.open = TRUE, !.producer = "scan",
                                    !.consumer = "recv", !.conn = "up", !.reader = "recv"]
        PROVE  LogInv'
    <2>1. f \in Seq(Lines) /\ Len(f) <= MaxLines
      BY FilesAreSequences
    <2>2. log' = [file |-> f, read |-> 0, open |-> TRUE, producer |-> "scan",
                  consumer |-> "recv", line |-> 0, stream |-> <<>>, conn |-> "up",
                  reader |-> "recv", heard |-> <<>>]
      BY <1>2 DEF NoLog
    <2>3. LogForm'
      BY <2>1, <2>2, LogAssumption DEF LogForm, ProducerPC, ConsumerPC, ReaderPC
    <2>4. InSequence' /\ NoneLost' /\ EndIsTrue'
      BY <2>2 DEF InSequence, NoneLost, EndIsTrue, Passed, Underway
    <2>5. QED BY <2>3, <2>4 DEF LogInv
  <1>3. QED BY <1>1, <1>2 DEF LogBegin

LEMMA LogProducerOK ==
    ASSUME LogInv, ProducerScans \/ ProducerEnds \/ ProducerIsTold \/ ProducerSends
    PROVE  LogInv'
  <1>1. CASE ProducerScans
    <2>1. /\ log.producer = "scan" /\ log.read < Len(log.file)
          /\ log' = [log EXCEPT !.producer = "select", !.read = log.read + 1]
      BY <1>1 DEF ProducerScans, ScannerHasNext, LogInv, LogForm
    <2>2. Len(log.file) \in Nat /\ log.read \in Nat /\ log.read + 1 <= Len(log.file)
      BY <2>1 DEF LogInv, LogForm
    <2>3. LogForm'
      <3>1. log'.read = log.read + 1 /\ log'.file = log.file /\ log'.stream = log.stream
        BY <2>1 DEF LogInv, LogForm
      <3>2. log' \in [file : Seq(Lines), read : Nat, open : BOOLEAN, producer : ProducerPC,
                      consumer : ConsumerPC, line : Nat, stream : Seq(Nat),
                      conn : {"none", "up", "down"}, reader : ReaderPC, heard : Seq(Nat)]
        <4> DEFINE read == log.read + 1
        <4>1. log' = [log EXCEPT !.producer = "select", !.read = read] /\ read \in Nat
          BY <2>1, LogSizes
        <4> HIDE DEF read
        <4>2. QED BY <4>1 DEF LogInv, LogForm, ProducerPC
      <3>3. QED BY <2>2, <3>1, <3>2 DEF LogInv, LogForm
    <2>4. /\ log'.producer = "select" /\ log'.read = log.read + 1 /\ log'.file = log.file
          /\ log'.consumer = log.consumer /\ log'.line = log.line /\ log'.stream = log.stream
          /\ log'.reader = log.reader /\ log'.heard = log.heard
      BY <2>1 DEF LogInv, LogForm
    <2>5. Passed' = Passed /\ Passed \in Nat
      BY <2>4 DEF Passed, LogInv, LogForm
    <2>6. InSequence' /\ EndIsTrue'
      BY <2>1, <2>4, <2>5 DEF LogInv, InSequence, EndIsTrue
    <2>7. NoneLost'
      BY <2>1, <2>2, <2>4, <2>5 DEF LogInv, NoneLost, Underway
    <2>8. QED BY <2>3, <2>6, <2>7 DEF LogInv
  <1>2. CASE ProducerEnds
    <2>1. LogForm'
      BY <1>2 DEF ProducerEnds, LogInv, LogForm, ProducerPC
    <2>2. InSequence' /\ NoneLost' /\ EndIsTrue'
      BY <1>2
      DEF ProducerEnds, LogInv, LogForm, InSequence, NoneLost, EndIsTrue, Passed, Underway,
          ScannerHasNext
    <2>3. QED BY <2>1, <2>2 DEF LogInv
  <1>3. CASE ProducerIsTold
    <2>1. LogForm'
      BY <1>3 DEF ProducerIsTold, LogInv, LogForm, ProducerPC, ConsumerPC
    <2>2. InSequence' /\ NoneLost' /\ EndIsTrue'
      BY <1>3
      DEF ProducerIsTold, LogInv, LogForm, InSequence, NoneLost, EndIsTrue, Passed, Underway,
          ScannerHasNext
    <2>3. QED BY <2>1, <2>2 DEF LogInv
  <1>4. CASE ProducerSends
    <2>1. LogForm'
      BY <1>4 DEF ProducerSends, LogInv, LogForm, ProducerPC
    <2>2. InSequence' /\ NoneLost' /\ EndIsTrue'
      BY <1>4
      DEF ProducerSends, LogInv, LogForm, InSequence, NoneLost, EndIsTrue, Passed, Underway,
          ScannerHasNext
    <2>3. QED BY <2>1, <2>2 DEF LogInv
  <1>5. QED BY <1>1, <1>2, <1>3, <1>4

LEMMA LogConsumerOK ==
    ASSUME LogInv, HandOver \/ ConsumerSends \/ ConsumerSendFails \/ ConsumerTells \/ ConsumerEnds
    PROVE  LogInv'
  <1>1. CASE HandOver
    <2>1. LogForm'
      BY <1>1 DEF HandOver, LogInv, LogForm, ProducerPC, ConsumerPC
    <2>2. InSequence' /\ NoneLost' /\ EndIsTrue'
      BY <1>1
      DEF HandOver, LogInv, LogForm, InSequence, NoneLost, EndIsTrue, Passed, Underway,
          ScannerHasNext
    <2>3. QED BY <2>1, <2>2 DEF LogInv
  <1>2. CASE ConsumerSends
    <2> DEFINE stream == Append(log.stream, log.line)
    <2>1. /\ log.consumer = "send" /\ Len(log.stream) < Window
          /\ log' = [log EXCEPT !.consumer = "recv", !.stream = stream]
      BY <1>2 DEF ConsumerSends, LogInv, LogForm
    <2>2. /\ log.stream \in Seq(Nat) /\ log.heard \in Seq(Nat) /\ log.line \in Nat
          /\ Len(log.stream) \in Nat /\ Len(log.heard) \in Nat
          /\ stream \in Seq(Nat) /\ Len(stream) = Len(log.stream) + 1 /\ Len(stream) <= Window
          /\ \A i \in 1 .. Len(stream) :
               stream[i] = IF i <= Len(log.stream) THEN log.stream[i] ELSE log.line
      BY <2>1, LogAssumption DEF LogInv, LogForm
    <2> HIDE DEF stream
    <2>3. LogForm'
      BY <2>1, <2>2 DEF LogInv, LogForm, ConsumerPC
    <2>4. /\ log'.producer = log.producer /\ log'.read = log.read /\ log'.file = log.file
          /\ log'.consumer = "recv" /\ log'.stream = stream
          /\ log'.reader = log.reader /\ log'.heard = log.heard
      BY <2>1 DEF LogInv, LogForm
    <2>5. Passed' = Passed + 1 /\ Passed \in Nat
      <3>1. PICK h \in Nat, n \in Nat : h = Len(log.heard) /\ n = Len(log.stream)
        BY LogSizes
      <3>2. Len(log'.heard) = h /\ Len(log'.stream) = n + 1
        BY <2>2, <2>4, <3>1
      <3>3. Passed' = h + (n + 1) /\ Passed = h + n
        BY <3>1, <3>2, Zenon DEF Passed
      <3>4. QED BY <3>3
    <2>6. InSequence'
      <3>1. log.line = Len(log.heard) + Len(log.stream) + 1
        BY <2>1 DEF LogInv, InSequence, Passed
      <3>2. \A i \in 1 .. Len(log.stream) : log.stream[i] = Len(log.heard) + i
        BY DEF LogInv, InSequence
      <3>3. \A i \in 1 .. Len(stream) : stream[i] = Len(log.heard) + i
        <4>1. PICK h \in Nat, n \in Nat : h = Len(log.heard) /\ n = Len(log.stream)
          BY LogSizes
        <4>2. /\ log.line = h + n + 1 /\ Len(stream) = n + 1
              /\ \A i \in 1 .. n : log.stream[i] = h + i
              /\ \A i \in 1 .. n + 1 : stream[i] = IF i <= n THEN log.stream[i] ELSE log.line
          BY <2>2, <3>1, <3>2, <4>1, Zenon
        <4>3. \A i \in 1 .. n + 1 : stream[i] = h + i
          BY <4>2
        <4>4. QED BY <4>1, <4>2, <4>3, Zenon
      <3>4. \A i \in 1 .. Len(log.heard) : log.heard[i] = i
        BY DEF LogInv, InSequence
      <3>5. QED BY <2>4, <3>3, <3>4 DEF InSequence
    <2>7. NoneLost' /\ EndIsTrue'
      BY <2>1, <2>4, <2>5 DEF LogInv, NoneLost, EndIsTrue, Underway, ScannerHasNext
    <2>8. QED BY <2>3, <2>6, <2>7 DEF LogInv
  <1>3. CASE ConsumerSendFails \/ ConsumerTells
    <2>1. LogForm'
      BY <1>3 DEF ConsumerSendFails, ConsumerTells, LogInv, LogForm, ConsumerPC
    <2>2. InSequence' /\ NoneLost' /\ EndIsTrue'
      BY <1>3
      DEF ConsumerSendFails, ConsumerTells, LogInv, LogForm, InSequence, NoneLost, EndIsTrue,
          Passed, Underway, ScannerHasNext
    <2>3. QED BY <2>1, <2>2 DEF LogInv
  <1>4. CASE ConsumerEnds
    <2>1. LogForm'
      BY <1>4 DEF ConsumerEnds, LogInv, LogForm, ConsumerPC
    <2>2. InSequence' /\ NoneLost' /\ EndIsTrue'
      BY <1>4
      DEF ConsumerEnds, LogInv, LogForm, InSequence, NoneLost, EndIsTrue, Passed, Underway,
          ScannerHasNext
    <2>3. QED BY <2>1, <2>2 DEF LogInv
  <1>5. QED BY <1>1, <1>2, <1>3, <1>4

LEMMA LogReaderOK ==
    ASSUME LogInv, LogRecv \/ LogSent \/ LogLeave \/ LogEOF \/ LogError
    PROVE  LogInv'
  <1>1. CASE LogRecv
    <2> DEFINE stream == Tail(log.stream)
               heard == Append(log.heard, Head(log.stream))
    <2>1. /\ log.reader = "recv" /\ log.stream # <<>>
          /\ log' = [log EXCEPT !.stream = stream, !.heard = heard, !.reader = "send"]
      BY <1>1 DEF LogRecv, LogInv, LogForm
    <2>2. /\ log.stream \in Seq(Nat) /\ log.heard \in Seq(Nat) /\ Len(log.stream) > 0
          /\ Len(log.stream) \in Nat /\ Len(log.heard) \in Nat
          /\ stream \in Seq(Nat) /\ Len(stream) = Len(log.stream) - 1
          /\ \A i \in 1 .. Len(stream) : stream[i] = log.stream[i + 1]
          /\ heard \in Seq(Nat) /\ Len(heard) = Len(log.heard) + 1
          /\ \A i \in 1 .. Len(heard) :
               heard[i] = IF i <= Len(log.heard) THEN log.heard[i] ELSE log.stream[1]
      BY <2>1 DEF LogInv, LogForm
    <2> HIDE DEF stream, heard
    <2>3. LogForm'
      <3>1. log'.read = log.read /\ log'.file = log.file /\ log'.stream = stream
        BY <2>1 DEF LogInv, LogForm
      <3>2. log' \in [file : Seq(Lines), read : Nat, open : BOOLEAN, producer : ProducerPC,
                      consumer : ConsumerPC, line : Nat, stream : Seq(Nat),
                      conn : {"none", "up", "down"}, reader : ReaderPC, heard : Seq(Nat)]
        BY <2>1, <2>2 DEF LogInv, LogForm, ReaderPC
      <3>3. Len(stream) <= Window
        BY <2>2, LogAssumption DEF LogInv, LogForm
      <3>4. QED BY <3>1, <3>2, <3>3 DEF LogInv, LogForm
    <2>4. /\ log'.producer = log.producer /\ log'.read = log.read /\ log'.file = log.file
          /\ log'.consumer = log.consumer /\ log'.line = log.line /\ log'.stream = stream
          /\ log'.reader = "send" /\ log'.heard = heard /\ log'.conn = log.conn
      BY <2>1 DEF LogInv, LogForm
    <2>5. Passed' = Passed /\ Passed \in Nat
      <3>1. PICK h \in Nat, n \in Nat : h = Len(log.heard) /\ n = Len(log.stream)
        BY LogSizes
      <3>2. Len(log'.heard) = h + 1 /\ Len(log'.stream) = n - 1
        BY <2>2, <2>4, <3>1
      <3>3. Passed' = (h + 1) + (n - 1) /\ Passed = h + n
        BY <3>1, <3>2, Zenon DEF Passed
      <3>4. QED BY <3>3
    <2>6. InSequence'
      <3>1. /\ \A i \in 1 .. Len(log.heard) : log.heard[i] = i
            /\ \A i \in 1 .. Len(log.stream) : log.stream[i] = Len(log.heard) + i
            /\ log.consumer = "send" => log.line = Passed + 1
        BY DEF LogInv, InSequence
      <3>2. log.stream[1] = Len(log.heard) + 1
        BY <2>2, <3>1, LogSizes
      <3>3. \A i \in 1 .. Len(heard) : heard[i] = i
        <4>1. PICK h \in Nat : h = Len(log.heard)
          BY LogSizes
        <4>2. /\ Len(heard) = h + 1 /\ log.stream[1] = h + 1
              /\ \A i \in 1 .. h : log.heard[i] = i
              /\ \A i \in 1 .. h + 1 : heard[i] = IF i <= h THEN log.heard[i] ELSE log.stream[1]
          BY <2>2, <3>1, <3>2, <4>1, Zenon
        <4>3. \A i \in 1 .. h + 1 : heard[i] = i
          BY <4>2
        <4>4. QED BY <4>1, <4>2, <4>3, Zenon
      <3>4. \A i \in 1 .. Len(stream) : stream[i] = Len(heard) + i
        BY <2>2, <3>1, LogSizes
      <3>5. QED BY <2>4, <2>5, <3>1, <3>3, <3>4 DEF InSequence
    <2>7. NoneLost' /\ EndIsTrue'
      BY <2>4, <2>5 DEF LogInv, NoneLost, EndIsTrue, Underway, ScannerHasNext
    <2>8. QED BY <2>3, <2>6, <2>7 DEF LogInv
  <1>2. CASE LogSent \/ LogLeave \/ LogEOF \/ LogError
    <2>1. LogForm'
      BY <1>2 DEF LogSent, LogLeave, LogEOF, LogError, LogInv, LogForm, ReaderPC
    <2>2. /\ log'.producer = log.producer /\ log'.read = log.read /\ log'.file = log.file
          /\ log'.consumer = log.consumer /\ log'.line = log.line /\ log'.stream = log.stream
          /\ log'.heard = log.heard /\ log'.conn \in {log.conn, "down"}
          /\ log'.reader = "eof" => log.consumer = "ok" /\ log.stream = <<>>
      BY <1>2 DEF LogSent, LogLeave, LogEOF, LogError, LogInv, LogForm
    <2>3. InSequence' /\ NoneLost' /\ EndIsTrue'
      BY <2>2 DEF LogInv, InSequence, NoneLost, EndIsTrue, Passed, Underway, ScannerHasNext
    <2>4. QED BY <2>1, <2>3 DEF LogInv
  <1>3. QED BY <1>1, <1>2

LEMMA LogEnvironmentOK ==
    ASSUME LogInv, LogGrows \/ ConnectionBreaks
    PROVE  LogInv'
  <1>1. CASE LogGrows
    <2>1. LogForm'
      <3>1. PICK l \in Lines : log' = [log EXCEPT !.file = Append(log.file, l)]
        BY <1>1 DEF LogGrows, LogInv, LogForm
      <3>2. /\ Append(log.file, l) \in Seq(Lines)
            /\ Len(Append(log.file, l)) = Len(log.file) + 1
            /\ Len(log.file) + 1 <= MaxLines /\ Len(log.file) \in Nat
        BY <1>1, LogAssumption DEF LogGrows, LogInv, LogForm
      <3> DEFINE file == Append(log.file, l)
      <3>3. /\ log' = [log EXCEPT !.file = file]
            /\ file \in Seq(Lines) /\ Len(file) <= MaxLines /\ Len(file) = Len(log.file) + 1
        BY <3>1, <3>2
      <3> HIDE DEF file
      <3>4. log'.read = log.read /\ log'.file = file /\ log'.stream = log.stream
        BY <3>3 DEF LogInv, LogForm
      <3>5. log' \in [file : Seq(Lines), read : Nat, open : BOOLEAN, producer : ProducerPC,
                      consumer : ConsumerPC, line : Nat, stream : Seq(Nat),
                      conn : {"none", "up", "down"}, reader : ReaderPC, heard : Seq(Nat)]
        BY <3>3 DEF LogInv, LogForm
      <3>6. log.read <= Len(file)
        BY <3>2, <3>3 DEF LogInv, LogForm
      <3>7. QED BY <3>3, <3>4, <3>5, <3>6 DEF LogInv, LogForm
    <2>2. InSequence' /\ NoneLost' /\ EndIsTrue'
      BY <1>1
      DEF LogGrows, LogInv, LogForm, InSequence, NoneLost, EndIsTrue, Passed, Underway,
          ScannerHasNext
    <2>3. QED BY <2>1, <2>2 DEF LogInv
  <1>2. CASE ConnectionBreaks
    <2>1. LogForm'
      BY <1>2 DEF ConnectionBreaks, LogInv, LogForm
    <2>2. InSequence' /\ NoneLost' /\ EndIsTrue'
      BY <1>2
      DEF ConnectionBreaks, LogInv, LogForm, InSequence, NoneLost, EndIsTrue, Passed, Underway,
          ScannerHasNext
    <2>3. QED BY <2>1, <2>2 DEF LogInv
  <1>3. QED BY <1>1, <1>2

(* What the invariant says to a reader that sees the end.                  *)
LEMMA LogProperties ==
    ASSUME LogInv
    PROVE  LogTypeOK /\ LogIsComplete
  <1>1. LogTypeOK
    BY FilesAreSequences DEF LogInv, LogForm, LogTypeOK
  <1>2. log.heard = [i \in 1 .. Len(log.heard) |-> i]
    BY DEF LogInv, LogForm, InSequence
  <1>3. ASSUME log.reader = "eof"
        PROVE  Len(log.heard) = Len(log.file) \/ log.file[Len(log.heard) + 1] = "toolong"
    <2>1. log.consumer = "ok" /\ log.stream = <<>> /\ log.producer = "done"
      BY <1>3 DEF LogInv, EndIsTrue
    <2>2. log.read = Len(log.heard) /\ ~ScannerHasNext
      BY <2>1 DEF LogInv, LogForm, NoneLost, Passed, Underway
    <2>3. QED BY <2>2 DEF ScannerHasNext, LogInv, LogForm, Lines
  <1>4. QED BY <1>1, <1>2, <1>3 DEF LogIsComplete

(* Who takes part in a log, and what they leave behind.                    *)
Joined ==
    \/ /\ log.reader = "none" /\ log.conn = "none"
       /\ log.producer = "none" /\ log.consumer = "none"
    \/ /\ log.reader # "none" /\ log.conn # "none" /\ log.consumer # "none"
       /\ log.reader \in {"error", "gone"} => log.conn = "down"
       /\ log.producer = "none" => log.consumer = "error"
       /\ log.consumer = "error" => log.producer \in {"none", "done"}

LEMMA JoinedOK ==
    ASSUME LogInv, Joined,
           LogNext \/ LogBegin \/ LogRecv \/ LogSent \/ LogLeave \/ LogEOF \/ LogError
    PROVE  Joined'
  <1>1. CASE LogBegin
    BY <1>1 DEF LogBegin, NoLog, Joined
  <1>2. CASE LogRecv \/ LogSent \/ LogLeave \/ LogEOF \/ LogError
    BY <1>2 DEF LogRecv, LogSent, LogLeave, LogEOF, LogError, Joined, LogInv, LogForm
  <1>3. CASE ProducerScans \/ ProducerEnds \/ ProducerIsTold \/ ProducerSends
    BY <1>3 DEF ProducerScans, ProducerEnds, ProducerIsTold, ProducerSends, Joined, LogInv, LogForm
  <1>4. CASE HandOver \/ ConsumerSends \/ ConsumerSendFails \/ ConsumerTells \/ ConsumerEnds
    BY <1>4
    DEF HandOver, ConsumerSends, ConsumerSendFails, ConsumerTells, ConsumerEnds, Joined, LogInv,
        LogForm
  <1>5. CASE LogGrows \/ ConnectionBreaks
    BY <1>5 DEF LogGrows, ConnectionBreaks, Joined, LogInv, LogForm
  <1>6. QED BY <1>1, <1>2, <1>3, <1>4, <1>5 DEF LogNext, LogStep

(* Somebody can move: the consumer waits for the producer, which then      *)
(* scans, sends or has closed logChan, or for room in the stream, which the*)
(* reader can make or the end of the connection makes useless.  Otherwise  *)
(* the reader is gone, and what is left has ended, or is the consumer that *)
(* waits for a producer that does not look.                                *)
LEMMA SomebodyMoves ==
    ASSUME LogInv, Joined
    PROVE  LogNeverStuck
  <1>1. SUFFICES ASSUME ~LogCanGoOn
                 PROVE  /\ log.reader \notin {"recv", "send"}
                        /\ LogOver \/ (LogWedged /\ log.conn = "down")
    BY DEF LogNeverStuck
  <1>2. /\ log.producer \in {"none", "send", "done"} /\ log.consumer # "failed"
        /\ log.reader # "send"
    BY <1>1 DEF LogCanGoOn, LogInv, LogForm, ProducerPC
  <1>3. log.consumer # "recv"
    BY <1>1, <1>2 DEF LogCanGoOn, LogInv, NoneLost
  <1>4. log.consumer # "send"
    <2>1. SUFFICES ASSUME log.consumer = "send"
                   PROVE  FALSE
      OBVIOUS
    <2>2. log.conn = "up" /\ ~(Len(log.stream) < Window)
      BY <1>1, <2>1 DEF LogCanGoOn, Joined, LogInv, LogForm
    <2>3. log.reader = "recv"
      BY <1>2, <2>1, <2>2 DEF Joined, LogInv, LogForm, EndIsTrue, ReaderPC
    <2>4. log.stream # <<>>
      BY <2>2, LogAssumption
    <2>5. QED BY <1>1, <2>2, <2>3, <2>4 DEF LogCanGoOn
  <1>5. log.reader # "recv"
    <2>1. SUFFICES ASSUME log.reader = "recv"
                   PROVE  FALSE
      OBVIOUS
    <2>2. log.conn = "up"
      BY <1>1, <2>1 DEF LogCanGoOn, Joined, LogInv, LogForm
    <2>3. log.consumer \in {"ok", "error"}
      BY <1>3, <1>4, <2>2 DEF LogInv, EndIsTrue
    <2>4. QED BY <1>1, <2>1, <2>2, <2>3 DEF LogCanGoOn
  <1>6. CASE log.consumer = "tell"
    <2>1. log.conn = "down"
      BY <1>6 DEF Joined, LogInv, LogForm, EndIsTrue
    <2>2. log.producer \in {"send", "done"}
      BY <1>2, <1>6 DEF Joined
    <2>3. QED BY <1>2, <1>5, <1>6, <2>1, <2>2 DEF LogWedged
  <1>7. CASE log.consumer \in {"none", "ok", "error"}
    <2>1. log.producer \in {"none", "done"}
      BY <1>7 DEF Joined, LogInv, EndIsTrue
    <2>2. QED BY <1>2, <1>5, <1>7, <2>1 DEF LogOver
  <1>8. QED BY <1>2, <1>3, <1>4, <1>6, <1>7 DEF LogInv, LogForm, ConsumerPC

-----------------------------------------------------------------------------
(* The environment and the credentials.  No other call runs next to one    *)
(* that is alone, so that nobody sets a key between its own export and its *)
(* read.                                                                   *)

(* How a handler's step changes what matters here.                         *)
Stays(c, d) == d.rpc = c.rpc /\ d.envs = c.envs /\ d.alone = c.alone

Moved(u) ==
    LET c == calls[u]
        d == calls'[u]
    IN  /\ Running(u)
        /\ Stays(c, d)
        /\ \A t \in Threads \ {u} : calls'[t] = calls[t]
        /\ \/ d.reply \in {"ok", "error", "taskerror"} /\ d.cred = c.cred /\ env' = env
           \/ /\ d.todo = c.todo /\ d.cred = c.cred /\ d.reply = c.reply /\ env' = env
           \/ /\ c.todo # <<>> /\ Head(c.todo).do \notin {"export", "refuse", "read"}
              /\ d.todo = Tail(c.todo) /\ d.cred = c.cred /\ d.reply = c.reply /\ env' = env
           \/ TryFails(u)
           \/ Setenv(u)
           \/ Getenv(u)

(* All actions but those that begin and end a call move it in this way.    *)
LEMMA Moves ==
    ASSUME CallsOK, NEW u \in Threads, HandlerStep(u),
           ~Start(u), ~ClientRefuses(u), ~ContextDone(u)
    PROVE  Moved(u)
  <1>0. calls = [t \in Threads |-> calls[t]] /\ IsCall(calls[u]) /\ Running(u)
    <2>1. calls = [t \in Threads |-> calls[t]] /\ IsCall(calls[u])
      BY DEF CallsOK, CallOK, CallTypeOK
    <2>2. Running(u)
      BY DEF HandlerStep, GiveUp, OpenClient, CloseClient, CallSucceeds, StepFails,
             TryFails, EachFails, RefuseRequest, EnterDataEngine, Setenv, Getenv, BeginScan,
             EndScan, BeginStream, StreamLine, EndStream, StreamFails, Answer, At
    <2>3. QED BY <2>1, <2>2
  <1>1. ASSUME NEW d, Update(u, d)
        PROVE  calls'[u] = d /\ \A t \in Threads \ {u} : calls'[t] = calls[t]
    BY <1>0, <1>1 DEF Update
  <1>2. ASSUME NEW failed, NEW reply \in {"ok", "error", "taskerror"}, env' = env,
               Return(u, [calls[u] EXCEPT !.failed = failed], reply)
        PROVE  Moved(u)
    <2> DEFINE c == [calls[u] EXCEPT !.failed = failed]
               d == [c EXCEPT !.reply = reply, !.todo = <<>>, !.open = @ \cap {"task"}]
    <2>1. calls'[u] = d /\ \A t \in Threads \ {u} : calls'[t] = calls[t]
      BY <1>1, <1>2 DEF Return
    <2>2. Stays(calls[u], d) /\ d.reply = reply /\ d.cred = calls[u].cred
      BY <1>0 DEF Stays, IsCall, CallFields
    <2> HIDE DEF d
    <2>3. QED BY <1>0, <1>2, <2>1, <2>2 DEF Moved
  <1>3. ASSUME NEW what, Fails(u, what), env' = env
        PROVE  Moved(u)
    <2> DEFINE reply == IF calls[u].inReply THEN "taskerror" ELSE "error"
    <2>1. Return(u, [calls[u] EXCEPT !.failed = calls[u].failed \cup {what}], reply)
      BY <1>0, <1>3 DEF Fails, IsCall, CallFields
    <2>2. reply \in {"ok", "error", "taskerror"}
      OBVIOUS
    <2> HIDE DEF reply
    <2>3. QED BY <1>2, <1>3, <2>1, <2>2
  <1>4. ASSUME NEW d, Update(u, d), NEW kinds, At(u, kinds), env' = env,
               "export" \notin kinds, "refuse" \notin kinds, "read" \notin kinds,
               Stays(calls[u], d), d.todo = Tail(calls[u].todo), d.cred = calls[u].cred,
               d.reply = calls[u].reply
        PROVE  Moved(u)
    <2>1. calls[u].todo # <<>> /\ Head(calls[u].todo).do \notin {"export", "refuse", "read"}
      BY <1>4 DEF At
    <2>2. QED BY <1>0, <1>1, <1>4, <2>1 DEF Moved
  <1>5. ASSUME NEW d, Update(u, d), env' = env,
               Stays(calls[u], d), d.todo = calls[u].todo, d.cred = calls[u].cred,
               d.reply = calls[u].reply
        PROVE  Moved(u)
    BY <1>0, <1>1, <1>5 DEF Moved
  <1>6. /\ Stays(calls[u], Done(u)) /\ Done(u).todo = Tail(calls[u].todo)
        /\ Done(u).cred = calls[u].cred /\ Done(u).reply = calls[u].reply /\ IsCall(Done(u))
    BY <1>0 DEF Stays, Done, IsCall, CallFields
  <1>7. CASE OpenClient(u)
    <2> DEFINE d == [Done(u) EXCEPT !.open = @ \cup {What(u)}]
    <2>1. /\ Stays(calls[u], d) /\ d.todo = Tail(calls[u].todo)
          /\ d.cred = calls[u].cred /\ d.reply = calls[u].reply
      BY <1>6 DEF Stays, IsCall, CallFields
    <2>2. Update(u, d) /\ At(u, {"open", "tryopen"}) /\ env' = env
      BY <1>7 DEF OpenClient
    <2> HIDE DEF d
    <2>3. QED BY <1>4, <2>1, <2>2
  <1>8. CASE CloseClient(u)
    <2> DEFINE d == [Done(u) EXCEPT !.open = @ \ {What(u)}]
    <2>1. /\ Stays(calls[u], d) /\ d.todo = Tail(calls[u].todo)
          /\ d.cred = calls[u].cred /\ d.reply = calls[u].reply
      BY <1>6 DEF Stays, IsCall, CallFields
    <2>2. Update(u, d) /\ At(u, {"close"}) /\ env' = env
      BY <1>8 DEF CloseClient
    <2> HIDE DEF d
    <2>3. QED BY <1>4, <2>1, <2>2
  <1>9. CASE EachFails(u)
    <2> DEFINE d == [Done(u) EXCEPT !.lastErr = TRUE, !.failed = @ \cup {What(u)}]
    <2>1. /\ Stays(calls[u], d) /\ d.todo = Tail(calls[u].todo)
          /\ d.cred = calls[u].cred /\ d.reply = calls[u].reply
      BY <1>6 DEF Stays, IsCall, CallFields
    <2>2. Update(u, d) /\ At(u, {"each"}) /\ env' = env
      BY <1>9 DEF EachFails
    <2> HIDE DEF d
    <2>3. QED BY <1>4, <2>1, <2>2
  <1>10. CASE EnterDataEngine(u)
    <2> DEFINE d == [Done(u) EXCEPT !.inReply = TRUE]
    <2>1. /\ Stays(calls[u], d) /\ d.todo = Tail(calls[u].todo)
          /\ d.cred = calls[u].cred /\ d.reply = calls[u].reply
      BY <1>6 DEF Stays, IsCall, CallFields
    <2>2. Update(u, d) /\ At(u, {"inreply"}) /\ env' = env
      BY <1>10 DEF EnterDataEngine
    <2> HIDE DEF d
    <2>3. QED BY <1>4, <2>1, <2>2
  <1>11. CASE CallSucceeds(u) \/ EndStream(u)
    <2>1. CASE CallSucceeds(u)
      BY <1>4, <1>6, <2>1 DEF CallSucceeds
    <2>2. CASE EndStream(u)
      BY <1>4, <1>6, <2>2 DEF EndStream
    <2>3. QED BY <1>11, <2>1, <2>2
  <1>12. CASE EndScan(u)
    <2>1. At(u, {"scan"}) /\ env' = env /\ (Update(u, Done(u)) \/ Fails(u, What(u)))
      BY <1>12 DEF EndScan
    <2>2. QED BY <1>3, <1>4, <1>6, <2>1
  <1>13. CASE StepFails(u) \/ StreamFails(u)
    BY <1>3, <1>13 DEF StepFails, StreamFails
  <1>14. CASE RefuseRequest(u) \/ Answer(u)
    <2>1. calls[u] = [calls[u] EXCEPT !.failed = calls[u].failed]
      BY <1>0 DEF IsCall, CallFields
    <2>2. CASE RefuseRequest(u)
      BY <1>2, <2>1, <2>2 DEF RefuseRequest
    <2>3. CASE Answer(u) /\ calls[u].lastErr
      BY <1>2, <2>1, <2>3 DEF Answer
    <2>4. CASE Answer(u) /\ ~calls[u].lastErr
      BY <1>2, <2>1, <2>4 DEF Answer
    <2>5. QED BY <1>14, <2>2, <2>3, <2>4
  <1>15. CASE GiveUp(u)
    <2> DEFINE d == [calls[u] EXCEPT !.client = "gone", !.open = @ \ {"task"}]
    <2>1. /\ Stays(calls[u], d) /\ d.todo = calls[u].todo
          /\ d.cred = calls[u].cred /\ d.reply = calls[u].reply
      BY <1>0 DEF Stays, IsCall, CallFields
    <2>2. Update(u, d) /\ env' = env
      BY <1>15 DEF GiveUp
    <2> HIDE DEF d
    <2>3. QED BY <1>5, <2>1, <2>2
  <1>16. CASE BeginScan(u) \/ BeginStream(u) \/ StreamLine(u)
    BY <1>0, <1>16 DEF BeginScan, BeginStream, StreamLine, Moved, Stays
  <1>17. CASE TryFails(u)
    <2> DEFINE todo == calls[u].todo
               d == [calls[u] EXCEPT !.todo = SubSeq(todo, Head(todo).skip + 2, Len(todo)),
                                     !.failed = @ \cup {What(u)}]
    <2>1. Stays(calls[u], d)
      BY <1>0 DEF Stays, IsCall, CallFields
    <2>2. Update(u, d)
      BY <1>17 DEF TryFails
    <2> HIDE DEF d
    <2>3. QED BY <1>0, <1>1, <1>17, <2>1, <2>2 DEF Moved
  <1>18. CASE Setenv(u)
    <2>1. Update(u, Done(u))
      BY <1>18 DEF Setenv
    <2>2. QED BY <1>0, <1>1, <1>6, <1>18, <2>1 DEF Moved
  <1>19. CASE Getenv(u)
    <2> DEFINE d == [Done(u) EXCEPT !.cred[What(u)] = env[What(u)].by]
    <2>1. Stays(calls[u], d)
      BY <1>6 DEF Stays, IsCall, CallFields
    <2>2. Update(u, d)
      BY <1>19 DEF Getenv
    <2> HIDE DEF d
    <2>3. QED BY <1>0, <1>1, <1>19, <2>1, <2>2 DEF Moved
  <1>20. QED
    BY <1>7, <1>8, <1>9, <1>10, <1>11, <1>12, <1>13, <1>14, <1>15, <1>16, <1>17,
       <1>18, <1>19 DEF HandlerStep

(* The environment holds what requests with valid entries have put there.  *)
EnvOK == env \in [Keys -> Values] /\ NoPartialEnv

(* os.Setenv changes one key, to a value of a valid request.               *)
LEMMA Exported ==
    ASSUME CallsOK, EnvOK, NEW u \in Threads, Setenv(u)
    PROVE  /\ What(u) \in Keys
           /\ env' = [k \in Keys |-> IF k = What(u) THEN Value(u, TRUE) ELSE env[k]]
  <1>1. At(u, {"export"})
    BY DEF Setenv
  <1>2. What(u) \in Keys /\ ValidBackupEnv(calls[u].envs) = TRUE
    BY <1>1, AtStep DEF What, StepOK, ValidBackupEnv
  <1> DEFINE v == Value(u, TRUE)
  <1>3. env' = [k \in DOMAIN env \cup {What(u)} |-> IF k = What(u) THEN v ELSE env[k]]
    BY <1>2 DEF Setenv
  <1>4. DOMAIN env \cup {What(u)} = Keys
    BY <1>2 DEF EnvOK
  <1> HIDE DEF v
  <1>5. env' = [k \in Keys |-> IF k = What(u) THEN v ELSE env[k]]
    BY <1>3, <1>4
  <1>6. QED BY <1>2, <1>5 DEF v

(* After the end of a call, its values are those of an earlier one.        *)
LEMMA ContextEnds ==
    ASSUME EnvOK, NEW u \in Threads, ContextDone(u)
    PROVE  /\ DOMAIN env' = Keys
           /\ \A k \in Keys : /\ env'[k] \in Values /\ env'[k].valid = env[k].valid
                              /\ env[k].by # u => env'[k] = env[k]
  <1>1. env' = [k \in Keys |-> IF env[k].by = u THEN [env[k] EXCEPT !.by = "earlier"] ELSE env[k]]
    BY DEF ContextDone
  <1>2. ASSUME NEW k \in Keys
        PROVE  /\ [env[k] EXCEPT !.by = "earlier"] \in Values
               /\ [env[k] EXCEPT !.by = "earlier"].valid = env[k].valid
    <2>1. env[k] \in Values
      BY DEF EnvOK
    <2> DEFINE v == env[k]
    <2> HIDE DEF v
    <2>2. ASSUME v \in Values
          PROVE  /\ [v EXCEPT !.by = "earlier"] \in Values
                 /\ [v EXCEPT !.by = "earlier"].valid = v.valid
      BY <2>2 DEF Values
    <2>3. QED BY <2>1, <2>2 DEF v
  <1>3. \A k \in Keys : env[k] \in Values
    BY DEF EnvOK
  <1>4. QED BY <1>1, <1>2, <1>3

LEMMA SameEnv ==
    ASSUME CallsOK, NEW u \in Threads, HandlerStep(u), ~Setenv(u), ~ContextDone(u)
    PROVE  env' = env
  BY DEF HandlerStep, ClientRefuses, Start, GiveUp, OpenClient, CloseClient,
         CallSucceeds, StepFails, TryFails, EachFails, RefuseRequest, EnterDataEngine, Getenv,
         BeginScan, EndScan, BeginStream, StreamLine, EndStream, StreamFails, Answer

LEMMA EnvStepOK ==
    ASSUME CallsOK, EnvOK, NEW u \in Threads, HandlerStep(u)
    PROVE  EnvOK'
  <1>1. CASE Setenv(u)
    <2>1. Value(u, TRUE) \in Values /\ Value(u, TRUE).valid
      BY DEF Value, Values
    <2> DEFINE v == Value(u, TRUE)
    <2>2. /\ What(u) \in Keys /\ v \in Values /\ v.valid
          /\ env' = [k \in Keys |-> IF k = What(u) THEN v ELSE env[k]]
      BY <1>1, <2>1, Exported
    <2> HIDE DEF v
    <2>3. QED BY <2>2 DEF EnvOK, NoPartialEnv
  <1>2. CASE ContextDone(u)
    <2>1. env' = [k \in Keys |-> env'[k]]
      BY <1>2 DEF ContextDone
    <2>2. QED BY <1>2, <2>1, ContextEnds DEF EnvOK, NoPartialEnv
  <1>3. CASE env' = env
    BY <1>3 DEF EnvOK, NoPartialEnv
  <1>4. QED BY <1>1, <1>2, <1>3, SameEnv

(* Every read of key is preceded by an export of it, or by a refusal.      *)
Settles(s, key) == s.do = "refuse" \/ (s.do = "export" /\ s.what = key)
SetFirst(todo, key) ==
    \A i \in DOMAIN todo :
        todo[i].do = "read" /\ todo[i].what = key =>
            \E j \in DOMAIN todo : j < i /\ Settles(todo[j], key)

Asks(c, k) == \E i \in DOMAIN c.envs : c.envs[i] = k

(* Nobody serves a request next to one that is alone.                      *)
Serving(t) == calls[t].rpc # "none" /\ calls[t].reply # "refused"
Exclusive ==
    \A t, u \in Threads : t # u /\ Serving(t) /\ Serving(u) => ~calls[t].alone

OnlyBackups == \A t \in Threads : calls[t].rpc \notin BackupRPCs => calls[t].envs = <<>>

(* The inductive form of OwnCredentials: what an unaccompanied request has *)
(* read is its own, and what it has yet to read it has put there, or puts  *)
(* there first.                                                            *)
Own(t, k) ==
    LET c == calls[t]
    IN  c.alone /\ Asks(c, k) =>
            /\ c.cred[k] # "unread" => c.cred[k] = t
            /\ c.reply = "none" => env[k].by = t \/ SetFirst(c.todo, k)

CredentialsOK ==
    /\ Exclusive
    /\ OnlyBackups
    /\ \A t \in Threads : \A k \in Keys : Own(t, k)

(* A step that neither sets the key nor refuses the request is not missed. *)
LEMMA TailSetFirst ==
    ASSUME NEW S, NEW todo \in Seq(S), todo # <<>>, NEW key, SetFirst(todo, key),
           ~Settles(Head(todo), key)
    PROVE  SetFirst(Tail(todo), key)
  <1>1. /\ Len(todo) \in Nat /\ Len(todo) >= 1 /\ DOMAIN todo = 1 .. Len(todo)
        /\ DOMAIN Tail(todo) = 1 .. (Len(todo) - 1)
        /\ \A i \in DOMAIN Tail(todo) : Tail(todo)[i] = todo[i + 1]
        /\ Head(todo) = todo[1]
    OBVIOUS
  <1>2. SUFFICES ASSUME NEW i \in DOMAIN Tail(todo),
                        Tail(todo)[i].do = "read" /\ Tail(todo)[i].what = key
                 PROVE  \E j \in DOMAIN Tail(todo) : j < i /\ Settles(Tail(todo)[j], key)
    BY DEF SetFirst
  <1>3. i \in 1 .. (Len(todo) - 1) /\ i + 1 \in DOMAIN todo
        /\ todo[i + 1].do = "read" /\ todo[i + 1].what = key
    BY <1>1, <1>2
  <1>4. PICK j \in DOMAIN todo : j < i + 1 /\ Settles(todo[j], key)
    BY <1>3 DEF SetFirst
  <1>5. j # 1
    BY <1>1, <1>4
  <1>6. j - 1 \in DOMAIN Tail(todo) /\ j - 1 < i /\ Tail(todo)[j - 1] = todo[j]
    BY <1>1, <1>3, <1>4, <1>5
  <1>7. QED BY <1>4, <1>6

(* What a request exports comes before all that it reads.                  *)
LEMMA ExportsFirst ==
    ASSUME NEW envs \in Seq(Keys \cup {Unknown}), NEW S, NEW rest \in Seq(S),
           NEW n \in DOMAIN envs
    PROVE  SetFirst(SetEnv(envs) \o rest, envs[n])
  <1> DEFINE set == SetEnv(envs)
             todo == set \o rest
  <1>1. /\ \E R : set \in Seq(R)
        /\ \A i \in DOMAIN set : set[i].do # "read"
        /\ \E m \in DOMAIN set : Settles(set[m], envs[n])
    <2>1. CASE ValidBackupEnv(envs)
      <3>1. set = [i \in DOMAIN envs |-> Export(envs[i])]
        BY <2>1 DEF SetEnv, Exports
      <3>2. \A k : Export(k).do = "export" /\ Export(k).what = k
        BY DEF Export, Step
      <3> HIDE DEF set
      <3>3. set \in Seq({Export(envs[i]) : i \in DOMAIN envs})
        BY <3>1
      <3>4. QED BY <3>1, <3>2, <3>3 DEF Settles
    <2>2. CASE ~ValidBackupEnv(envs)
      <3>1. set = <<Refuse>> /\ Refuse.do = "refuse"
        BY <2>2 DEF SetEnv, Refuse, Step
      <3> HIDE DEF set
      <3>2. set \in Seq({Refuse}) /\ DOMAIN set = {1} /\ set[1] = Refuse
        BY <3>1
      <3>3. QED BY <3>1, <3>2 DEF Settles
    <2>3. QED BY <2>1, <2>2
  <1>2. PICK R : set \in Seq(R)
    BY <1>1
  <1>3. PICK m \in DOMAIN set : Settles(set[m], envs[n])
    BY <1>1
  <1>4. SUFFICES ASSUME NEW i \in DOMAIN todo, todo[i].do = "read"
                 PROVE  \E j \in DOMAIN todo : j < i /\ Settles(todo[j], envs[n])
    BY DEF SetFirst
  <1> HIDE DEF set
  <1>5. /\ DOMAIN set = 1 .. Len(set) /\ Len(set) \in Nat /\ Len(rest) \in Nat
        /\ DOMAIN todo = 1 .. (Len(set) + Len(rest))
        /\ \A j \in DOMAIN set : todo[j] = set[j]
    BY <1>2
  <1> HIDE DEF todo
  <1>6. i \notin DOMAIN set
    BY <1>1, <1>4, <1>5
  <1>7. m \in DOMAIN todo /\ m < i /\ todo[m] = set[m]
    BY <1>3, <1>4, <1>5, <1>6
  <1>8. QED BY <1>3, <1>7

(* A backup script begins with the exports.                                *)
LEMMA BackupForm ==
    ASSUME NEW envs \in Seq(Keys \cup {Unknown}), NEW rpc \in BackupRPCs,
           NEW spelling \in Spellings, NEW script \in Scripts(rpc, DataEngine(spelling), envs)
    PROVE  \E S, rest : rest \in Seq(S) /\ script = SetEnv(envs) \o rest
  <1>1. DataEngine(spelling) \in {"V1", "V2", "other"}
    BY DEF DataEngine, C!getDataEngine
  <1>2. Scripts(rpc, DataEngine(spelling), envs) =
          IF rpc = "SnapshotBackup" THEN SnapshotBackup(envs)[DataEngine(spelling)]
          ELSE BackupRestore(envs)[DataEngine(spelling)]
    BY DEF Scripts, BackupRPCs, OtherHandlers, Commands, EngineHandlers
  <1>3. \E last : script = WithCredential(envs, last) /\ \E S : last \in Seq(S)
    <2> DEFINE IsSeq(s) == \E S : s \in Seq(S)
    <2>1. /\ \A a : IsSeq(<<a>>)
          /\ \A a, b : IsSeq(<<a, b>>)
          /\ \A a, b, e : IsSeq(<<e>> \o <<a, b>>)
      <3>1. ASSUME NEW a, NEW b, NEW e
            PROVE  /\ <<a>> \in Seq({a}) /\ <<a, b>> \in Seq({a, b})
                   /\ <<e>> \o <<a, b>> \in Seq({e, a, b})
        OBVIOUS
      <3>2. QED BY <3>1
    <2>2. /\ IsSeq(<<Refuse>>)
          /\ \A m : IsSeq(Task(m)) /\ IsSeq(<<ErrorsInReply>> \o Task(m))
          /\ \A m : IsSeq(SPDK(m)) /\ IsSeq(<<ErrorsInReply>> \o SPDK(m))
      <3> HIDE DEF IsSeq
      <3>1. QED BY <2>1 DEF Task, SPDK
    <2> HIDE DEF IsSeq
    <2>3. \/ script = WithCredential(envs, <<Refuse>>)
          \/ script = WithCredential(envs, Task("CreateBackup"))
          \/ script = WithCredential(envs, SPDK("EngineBackupCreate"))
          \/ script = WithCredential(envs, <<ErrorsInReply>> \o Task("RestoreBackup"))
          \/ script = WithCredential(envs, <<ErrorsInReply>> \o SPDK("EngineBackupRestore"))
      <3>1. CASE DataEngine(spelling) = "V1"
        BY <1>2, <3>1 DEF SnapshotBackup, BackupRestore
      <3>2. CASE DataEngine(spelling) = "V2"
        BY <1>2, <3>2 DEF SnapshotBackup, BackupRestore
      <3>3. CASE DataEngine(spelling) = "other"
        BY <1>2, <3>3 DEF SnapshotBackup, BackupRestore
      <3>4. QED BY <1>1, <3>1, <3>2, <3>3
    <2>4. \E last : script = WithCredential(envs, last) /\ IsSeq(last)
      BY <2>2, <2>3
    <2>5. QED BY <2>4 DEF IsSeq
  <1>4. PICK last, S : script = WithCredential(envs, last) /\ last \in Seq(S)
    BY <1>3
  <1>5. PICK R : GetBackupCredential \in Seq(R)
    BY CredentialScript DEF ScriptOK
  <1>6. PICK Q : SetEnv(envs) \in Seq(Q)
    BY SetEnvScript DEF ScriptOK
  <1>7. /\ GetBackupCredential \o last \in Seq(R \cup S)
        /\ script = SetEnv(envs) \o (GetBackupCredential \o last)
    <2> DEFINE a == SetEnv(envs)
               b == GetBackupCredential
    <2>1. a \in Seq(Q) /\ b \in Seq(R) /\ last \in Seq(S) /\ script = (a \o b) \o last
      BY <1>4, <1>5, <1>6 DEF WithCredential
    <2> HIDE DEF a, b
    <2>2. b \o last \in Seq(R \cup S) /\ script = a \o (b \o last)
      BY <2>1
    <2>3. QED BY <2>2 DEF a, b
  <1>8. QED BY <1>7

(* The step of a handler does not concern the others, unless it sets a key.*)
LEMMA OwnOfOthers ==
    ASSUME CallsOK, EnvOK, CredentialsOK, NEW u \in Threads, Moved(u),
           NEW t \in Threads, t # u, NEW k \in Keys
    PROVE  Own(t, k)'
  <1>1. calls'[t] = calls[t] /\ Own(t, k)
    BY DEF Moved, CredentialsOK
  <1>2. CASE env' = env
    BY <1>1, <1>2 DEF Own
  <1>3. CASE Setenv(u)
    <2>1. Serving(u)
      BY <1>3 DEF Setenv, At, Running, Serving
    <2>2. ASSUME calls[t].alone, Asks(calls[t], k), calls[t].reply = "none"
          PROVE  FALSE
      <3>1. calls[t].envs # <<>>
        BY <2>2 DEF Asks
      <3>2. calls[t].rpc # "none"
        BY <3>1 DEF CredentialsOK, OnlyBackups, BackupRPCs
      <3>3. QED BY <2>1, <2>2, <3>2 DEF Serving, CredentialsOK, Exclusive
    <2>3. QED BY <1>1, <2>2 DEF Own
  <1>4. CASE TryFails(u) \/ Getenv(u)
    BY <1>2, <1>4 DEF TryFails, Getenv
  <1>5. QED BY <1>2, <1>3, <1>4 DEF Moved

(* A call's own step: it reads only what it has set.                       *)
LEMMA OwnOfItself ==
    ASSUME CallsOK, EnvOK, CredentialsOK, NEW u \in Threads, Moved(u), NEW k \in Keys
    PROVE  Own(u, k)'
  <1> DEFINE c == calls[u]
             d == calls'[u]
  <1>1. Stays(c, d)
    BY DEF Moved
  <1>2. SUFFICES ASSUME c.alone, Asks(c, k)
                 PROVE  /\ d.cred[k] # "unread" => d.cred[k] = u
                        /\ d.reply = "none" => env'[k].by = u \/ SetFirst(d.todo, k)
    BY <1>1 DEF Own, Asks, Stays
  <1>3. /\ c.cred[k] # "unread" => c.cred[k] = u
        /\ c.reply = "none" => env[k].by = u \/ SetFirst(c.todo, k)
    BY <1>2 DEF CredentialsOK, Own
  <1>4. c.rpc \in BackupRPCs
    BY <1>2 DEF CredentialsOK, OnlyBackups, Asks
  <1>5. PICK S : c.todo \in Seq(S)
    BY DEF CallsOK, CallOK, CallTypeOK, ScriptOK
  <1>6. CASE d.reply \in {"ok", "error", "taskerror"} /\ d.cred = c.cred /\ env' = env
    BY <1>3, <1>6
  <1>7. CASE d.todo = c.todo /\ d.cred = c.cred /\ d.reply = c.reply /\ env' = env
    BY <1>3, <1>7
  <1>8. CASE /\ c.todo # <<>> /\ Head(c.todo).do \notin {"export", "refuse", "read"}
             /\ d.todo = Tail(c.todo) /\ d.cred = c.cred /\ d.reply = c.reply /\ env' = env
    <2>1. ~Settles(Head(c.todo), k)
      BY <1>8 DEF Settles
    <2>2. SetFirst(c.todo, k) => SetFirst(Tail(c.todo), k)
      BY <1>5, <1>8, <2>1, TailSetFirst
    <2>3. QED BY <1>3, <1>8, <2>2
  <1>9. CASE TryFails(u)
    <2>1. At(u, {"try", "tryopen"})
      BY <1>9 DEF TryFails
    <2>2. Head(c.todo).what \in Excused(c.rpc)
      BY <2>1, AtStep DEF StepOK
    <2>3. Excused(c.rpc) = {}
      BY <1>4 DEF Excused, BestEffort, Swallowed, BackupRPCs
    <2>4. QED BY <2>2, <2>3
  <1>10. CASE Setenv(u)
    <2>1. At(u, {"export"}) /\ Update(u, Done(u))
      BY <1>10 DEF Setenv
    <2>2. /\ c.todo # <<>> /\ Head(c.todo).do = "export" /\ c.reply = "none"
          /\ IsCall(c)
      BY <2>1, AtStep
    <2>3. /\ Done(u).todo = Tail(c.todo) /\ Done(u).cred = c.cred /\ Done(u).reply = c.reply
          /\ d = Done(u)
      BY <2>1, <2>2 DEF Done, IsCall, CallFields, Update, CallsOK
    <2>4. CASE k = What(u)
      <3>1. env'[k] = Value(u, TRUE)
        BY <1>10, <2>4, Exported
      <3>2. env'[k].by = u
        BY <3>1 DEF Value
      <3>3. QED BY <1>3, <2>3, <3>2
    <2>5. CASE k # What(u)
      <3>1. env'[k] = env[k]
        BY <1>10, <2>5, Exported
      <3>2. ~Settles(Head(c.todo), k)
        BY <2>2, <2>5 DEF Settles, What
      <3>3. SetFirst(c.todo, k) => SetFirst(Tail(c.todo), k)
        BY <1>5, <2>2, <3>2, TailSetFirst
      <3>4. QED BY <1>3, <2>2, <2>3, <3>1, <3>3
    <2>6. QED BY <2>4, <2>5
  <1>11. CASE Getenv(u)
    <2> DEFINE e == [Done(u) EXCEPT !.cred[What(u)] = env[What(u)].by]
    <2>1. At(u, {"read"}) /\ Update(u, e) /\ env' = env
      BY <1>11 DEF Getenv
    <2>2. /\ c.todo # <<>> /\ Head(c.todo).do = "read" /\ c.reply = "none"
          /\ IsCall(c) /\ CallTypeOK(c) /\ Head(c.todo).what \in Keys
      BY <2>1, AtStep DEF StepOK
    <2>3. /\ e.todo = Tail(c.todo) /\ e.reply = c.reply
          /\ e.cred = [c.cred EXCEPT ![What(u)] = env[What(u)].by]
      BY <2>2 DEF Done, IsCall, CallFields
    <2> HIDE DEF e
    <2>4. d = e
      BY <2>1 DEF Update, CallsOK
    <2>5. SetFirst(c.todo, k) => SetFirst(Tail(c.todo), k)
      <3>1. ~Settles(Head(c.todo), k)
        BY <2>2 DEF Settles
      <3>2. QED BY <1>5, <2>2, <3>1, TailSetFirst
    <2>6. DOMAIN c.cred = Keys
      BY <2>2 DEF CallTypeOK
    <2>7. CASE k = What(u)
      <3>1. ~SetFirst(c.todo, k)
        <4>1. 1 \in DOMAIN c.todo /\ Head(c.todo) = c.todo[1] /\ DOMAIN c.todo = 1 .. Len(c.todo)
          BY <1>5, <2>2
        <4>2. \A j \in DOMAIN c.todo : ~(j < 1)
          BY <1>5, <4>1
        <4>3. QED BY <2>2, <2>7, <4>1, <4>2 DEF SetFirst, What
      <3>2. env[k].by = u
        BY <1>3, <2>2, <3>1
      <3>3. d.cred[k] = u
        BY <2>3, <2>4, <2>6, <2>7, <3>2
      <3>4. QED BY <2>1, <3>2, <3>3
    <2>8. CASE k # What(u)
      <3>1. d.cred[k] = c.cred[k]
        BY <2>3, <2>4, <2>6, <2>8
      <3>2. QED BY <1>3, <2>1, <2>2, <2>3, <2>4, <2>5, <3>1
    <2>9. QED BY <2>7, <2>8
  <1>12. QED BY <1>6, <1>7, <1>8, <1>9, <1>10, <1>11 DEF Moved

LEMMA CredentialsMove ==
    ASSUME CallsOK, EnvOK, CredentialsOK, NEW u \in Threads, Moved(u)
    PROVE  CredentialsOK'
  <1>1. ASSUME NEW t \in Threads
        PROVE  /\ Stays(calls[t], calls'[t])
               /\ Serving(t)' => Serving(t)
    BY DEF Moved, Stays, Serving, Running
  <1>2. Exclusive'
    BY <1>1 DEF Exclusive, CredentialsOK, Stays
  <1>3. OnlyBackups'
    BY <1>1 DEF OnlyBackups, CredentialsOK, Stays
  <1>4. \A t \in Threads : \A k \in Keys : Own(t, k)'
    BY OwnOfOthers, OwnOfItself
  <1>5. QED BY <1>2, <1>3, <1>4 DEF CredentialsOK

(* A request begins, and those that are under way are not alone any more.  *)
LEMMA CredentialsStart ==
    ASSUME CallsOK, EnvOK, CredentialsOK, NEW u \in Threads, Start(u)
    PROVE  CredentialsOK'
  <1>1. PICK rpc \in RPCs, spelling \in Spellings, nameless \in Spellings \cup {"no"},
             envs \in EnvLists \cup {<<>>} :
          /\ rpc \notin BackupRPCs => envs = <<>>
          /\ \E script \in Scripts(rpc, DataEngine(spelling), envs) :
              calls' = [t \in Threads |->
                          IF t = u THEN Request(u, rpc, spelling, nameless, envs, script)
                          ELSE IF t \in Others(u) THEN [calls[t] EXCEPT !.alone = FALSE]
                          ELSE calls[t]]
    BY Zenon DEF Start
  <1>2. PICK script \in Scripts(rpc, DataEngine(spelling), envs) :
              calls' = [t \in Threads |->
                          IF t = u THEN Request(u, rpc, spelling, nameless, envs, script)
                          ELSE IF t \in Others(u) THEN [calls[t] EXCEPT !.alone = FALSE]
                          ELSE calls[t]]
    BY <1>1, Zenon
  <1> DEFINE d == Request(u, rpc, spelling, nameless, envs, script)
  <1>3. /\ d.rpc = rpc /\ d.envs = envs /\ d.todo = script /\ d.alone = (Others(u) = {})
        /\ \A k \in Keys : d.cred[k] = "unread"
    BY DEF Request, Idle
  <1>4. calls' = [t \in Threads |-> IF t = u THEN d
                     ELSE IF t \in Others(u) THEN [calls[t] EXCEPT !.alone = FALSE]
                     ELSE calls[t]]
        /\ env' = env
    BY <1>2 DEF Start
  <1> HIDE DEF d
  <1>5. ASSUME NEW t \in Threads, t # u
        PROVE  /\ t \notin Others(u) => calls'[t] = calls[t] /\ calls[t].rpc = "none"
               /\ t \in Others(u) => ~calls'[t].alone
               /\ calls'[t].rpc = calls[t].rpc /\ calls'[t].envs = calls[t].envs
               /\ calls'[t].reply = calls[t].reply
    <2>1. IsCall(calls[t])
      BY DEF CallsOK, CallOK, CallTypeOK
    <2>2. QED BY <1>4, <1>5, <2>1 DEF Others, IsCall, CallFields
  <1>6. Exclusive'
    <2>1. SUFFICES ASSUME NEW s \in Threads, NEW t \in Threads, s # t, Serving(s)', Serving(t)'
                   PROVE  ~calls'[s].alone
      BY DEF Exclusive
    <2>2. CASE s = u
      <3>1. t \in Others(u)
        BY <1>5, <2>1, <2>2 DEF Serving
      <3>2. QED BY <1>3, <1>4, <2>2, <3>1
    <2>3. CASE s # u
      BY <1>5, <2>1, <2>3 DEF Serving
    <2>4. QED BY <2>2, <2>3
  <1>7. OnlyBackups'
    <2>1. calls'[u] = d
      BY <1>4
    <2>2. QED BY <1>1, <1>3, <1>5, <2>1 DEF OnlyBackups, CredentialsOK
  <1>8. ASSUME NEW t \in Threads, NEW k \in Keys, t # u
        PROVE  Own(t, k)'
    BY <1>4, <1>5, <1>8 DEF CredentialsOK, Own
  <1>9. ASSUME NEW k \in Keys
        PROVE  Own(u, k)'
    <2>1. calls'[u] = d
      BY <1>4
    <2>2. SUFFICES ASSUME Asks(d, k)
                   PROVE  SetFirst(script, k)
      BY <1>3, <1>9, <2>1 DEF Own
    <2>3. PICK n \in DOMAIN envs : envs[n] = k
      BY <1>3, <2>2 DEF Asks
    <2>4. rpc \in BackupRPCs /\ envs \in Seq(Keys \cup {Unknown})
      BY <1>1, <2>3, EnvListsOK
    <2>5. PICK S, rest : rest \in Seq(S) /\ script = SetEnv(envs) \o rest
      BY <2>4, BackupForm
    <2>6. QED BY <2>3, <2>4, <2>5, ExportsFirst
  <1>10. QED BY <1>6, <1>7, <1>8, <1>9 DEF CredentialsOK

(* A request is over, or was never sent.                                   *)
LEMMA CredentialsEnd ==
    ASSUME CallsOK, EnvOK, CredentialsOK, NEW u \in Threads, ContextDone(u)
    PROVE  CredentialsOK'
  <1> DEFINE d == [Idle EXCEPT !.open = calls[u].open \ {"task"}]
  <1>1. calls' = [t \in Threads |-> IF t = u THEN d ELSE calls[t]]
    BY DEF ContextDone, Update, CallsOK
  <1>2. d.rpc = "none" /\ d.envs = <<>>
    BY DEF Idle
  <1> HIDE DEF d
  <1>3. Exclusive' /\ OnlyBackups'
    BY <1>1, <1>2 DEF CredentialsOK, Exclusive, OnlyBackups, Serving
  <1>4. ASSUME NEW t \in Threads, NEW k \in Keys
        PROVE  Own(t, k)'
    <2>1. CASE t = u
      BY <1>1, <1>2, <2>1 DEF Own, Asks
    <2>2. CASE t # u
      <3>1. calls'[t] = calls[t] /\ Own(t, k)
        BY <1>1, <2>2 DEF CredentialsOK
      <3>2. env[k].by = t => env'[k].by = t
        BY <2>2, ContextEnds
      <3>3. QED BY <3>1, <3>2 DEF Own
    <2>3. QED BY <2>1, <2>2
  <1>5. QED BY <1>3, <1>4 DEF CredentialsOK

LEMMA CredentialsRefused ==
    ASSUME CallsOK, EnvOK, CredentialsOK, NEW u \in Threads, ClientRefuses(u)
    PROVE  CredentialsOK'
  <1>1. PICK rpc \in RPCs :
          Update(u, [Idle EXCEPT !.rpc = rpc, !.client = "waiting", !.reply = "refused"])
    BY DEF ClientRefuses
  <1> DEFINE d == [Idle EXCEPT !.rpc = rpc, !.client = "waiting", !.reply = "refused"]
  <1>2. calls' = [t \in Threads |-> IF t = u THEN d ELSE calls[t]] /\ env' = env
    BY <1>1 DEF ClientRefuses, Update, CallsOK
  <1>3. d.reply = "refused" /\ d.envs = <<>>
    BY DEF Idle
  <1> HIDE DEF d
  <1>4. Exclusive' /\ OnlyBackups'
    BY <1>2, <1>3 DEF CredentialsOK, Exclusive, OnlyBackups, Serving
  <1>5. \A t \in Threads : \A k \in Keys : Own(t, k)'
    BY <1>2, <1>3 DEF CredentialsOK, Own, Asks
  <1>6. QED BY <1>4, <1>5 DEF CredentialsOK

LEMMA CredentialsStepOK ==
    ASSUME CallsOK, EnvOK, CredentialsOK, NEW u \in Threads, HandlerStep(u)
    PROVE  CredentialsOK'
  BY Moves, CredentialsMove, CredentialsStart, CredentialsEnd, CredentialsRefused

-----------------------------------------------------------------------------
(* The inductive invariant of the services, and the theorems.              *)

Inv == CallsOK /\ EnvOK /\ CredentialsOK /\ ScanInv /\ LogInv /\ Joined

LEMMA InitInv ==
    ASSUME Init
    PROVE  Inv
  <1>1. calls = [t \in Threads |-> Idle] /\ env = [k \in Keys |-> Unset]
    BY DEF Init
  <1>2. CallsOK
    BY <1>1, IdleOK DEF CallsOK
  <1>3. EnvOK
    <2>1. Unset \in Values /\ Unset.valid
      BY DEF Unset, Value, Values
    <2>2. QED BY <1>1, <2>1 DEF EnvOK, NoPartialEnv
  <1>4. CredentialsOK
    <2>1. Idle.rpc = "none" /\ Idle.envs = <<>>
      BY DEF Idle
    <2>2. QED
      BY <1>1, <2>1 DEF CredentialsOK, Exclusive, OnlyBackups, Serving, Own, Asks
  <1>5. ScanInv /\ LogInv /\ Joined
    BY NoScanOK, NoLogOK DEF Init, ScanInit, LogInit, Joined, NoLog
  <1>6. QED BY <1>2, <1>3, <1>4, <1>5 DEF Inv

(* Each part depends on its own variables only.                            *)
LEMMA UnchangedInv ==
    /\ CallsOK /\ calls' = calls => CallsOK'
    /\ EnvOK /\ env' = env => EnvOK'
    /\ CredentialsOK /\ calls' = calls /\ env' = env => CredentialsOK'
    /\ ScanInv /\ scan' = scan => ScanInv'
    /\ LogInv /\ Joined /\ log' = log => LogInv' /\ Joined'
  <1>1. CallsOK /\ calls' = calls => CallsOK'
    BY DEF CallsOK
  <1>2. EnvOK /\ env' = env => EnvOK'
    BY DEF EnvOK, NoPartialEnv
  <1>3. CredentialsOK /\ calls' = calls /\ env' = env => CredentialsOK'
    BY DEF CredentialsOK, Exclusive, OnlyBackups, Serving, Own
  <1>4. ScanInv /\ scan' = scan => ScanInv'
    BY DEF ScanInv, ScanTypeOK, AskedOK, HeardOK, ClientOK, Heards, Outcome
  <1>5. LogInv /\ Joined /\ log' = log => LogInv' /\ Joined'
    BY DEF Joined, LogInv, LogForm, InSequence, NoneLost, EndIsTrue, Underway, Passed,
           ScannerHasNext
  <1>6. QED BY <1>1, <1>2, <1>3, <1>4, <1>5

(* What a handler does to its loop over the replicas, and to its log.      *)
LEMMA ScanStepOK ==
    ASSUME CallsOK, ScanInv, NEW u \in Threads, HandlerStep(u)
    PROVE  ScanInv'
  <1>1. CASE BeginScan(u)
    <2>1. At(u, {"scan"}) /\ ScanBegin(What(u))
      BY <1>1 DEF BeginScan
    <2>2. What(u) \in Loops
      BY <2>1, AtStep DEF StepOK, What
    <2>3. QED BY <2>1, <2>2, ScanBeginOK
  <1>2. CASE EndScan(u)
    BY <1>2, ScanDoneOK DEF EndScan
  <1>3. CASE ~BeginScan(u) /\ ~EndScan(u)
    <2>1. scan' = scan
      BY <1>3 DEF HandlerStep, ClientRefuses, Start, GiveUp, OpenClient, CloseClient,
         CallSucceeds, StepFails, TryFails, EachFails, RefuseRequest, EnterDataEngine, Setenv,
         Getenv, BeginStream, StreamLine, EndStream, StreamFails, Answer, ContextDone
    <2>2. QED BY <2>1, UnchangedInv
  <1>4. QED BY <1>1, <1>2, <1>3

LEMMA LogStepOK ==
    ASSUME LogInv, Joined, NEW u \in Threads, HandlerStep(u)
    PROVE  LogInv' /\ Joined'
  <1>1. CASE BeginStream(u)
    BY <1>1, LogBeginOK, JoinedOK DEF BeginStream
  <1>2. CASE StreamLine(u) \/ EndStream(u) \/ StreamFails(u)
    BY <1>2, LogReaderOK, JoinedOK DEF StreamLine, EndStream, StreamFails
  <1>3. CASE ~BeginStream(u) /\ ~StreamLine(u) /\ ~EndStream(u) /\ ~StreamFails(u)
    <2>1. log' = log
      BY <1>3 DEF HandlerStep, ClientRefuses, Start, GiveUp, OpenClient, CloseClient,
         CallSucceeds, StepFails, TryFails, EachFails, RefuseRequest, EnterDataEngine, Setenv,
         Getenv, BeginScan, EndScan, Answer, ContextDone
    <2>2. QED BY <2>1, UnchangedInv
  <1>4. QED BY <1>1, <1>2, <1>3

(* Every step of every part keeps the invariant.                           *)
LEMMA StepInv ==
    ASSUME Inv, [Next]_vars
    PROVE  Inv'
  <1>1. CASE ScanStep
    BY <1>1, ScanNextOK, UnchangedInv DEF Inv, ScanStep
  <1>2. CASE LogPipeline
    <2>1. LogInv' /\ Joined'
      BY <1>2, LogProducerOK, LogConsumerOK, LogEnvironmentOK, JoinedOK
      DEF Inv, LogPipeline, LogNext, LogStep
    <2>2. QED BY <1>2, <2>1, UnchangedInv DEF Inv, LogPipeline
  <1>3. ASSUME NEW u \in Threads, HandlerStep(u)
        PROVE  Inv'
    <2>1. CallsOK'
      BY <1>3, HandlerStepOK DEF Inv, EnvOK
    <2>2. EnvOK' /\ CredentialsOK'
      BY <1>3, EnvStepOK, CredentialsStepOK DEF Inv
    <2>3. ScanInv' /\ LogInv' /\ Joined'
      BY <1>3, ScanStepOK, LogStepOK DEF Inv
    <2>4. QED BY <2>1, <2>2, <2>3 DEF Inv
  <1>4. CASE UNCHANGED vars
    BY <1>4, UnchangedInv DEF Inv, vars
  <1>5. QED BY <1>1, <1>2, <1>3, <1>4 DEF Next

(* The six parts hold together, whatever the handlers, loops and logs do.  *)
THEOREM Invariance == Spec => []Inv
  <1>1. Init => Inv
    BY InitInv
  <1>2. Inv /\ [Next]_vars => Inv'
    BY StepInv
  <1>3. QED BY <1>1, <1>2, PTL DEF Spec

(* Type correctness: the scripts of all handlers open clients, set and     *)
(* read keys and begin loops that exist, and each action keeps the records *)
(* of the requests, the loops and the logs in form.                        *)
THEOREM TypeCorrect == Spec => []TypeOK
  <1>1. Inv => TypeOK
    <2>1. SUFFICES ASSUME Inv
                   PROVE  TypeOK
      OBVIOUS
    <2>2. ScanTypeOK /\ LogTypeOK
      BY <2>1, LogProperties DEF Inv, ScanInv
    <2>3. DOMAIN calls = Threads /\ \A t \in Threads : CallTypeOK(calls[t])
      BY <2>1 DEF Inv, CallsOK, CallOK
    <2>4. QED BY <2>1, <2>2, <2>3 DEF TypeOK, CallTypeOK, Inv, EnvOK
  <1>2. QED BY <1>1, Invariance, PTL

(* Every client that a handler creates is closed by the time its request   *)
(* is over, by the deferred Close or inside of the loop over the replicas, *)
(* whichever step fails.                                                   *)
THEOREM EveryClientClosed == Spec => []NoClientLeak
  <1>1. Inv => NoClientLeak
    <2>1. SUFFICES ASSUME Inv
                   PROVE  NoClientLeak
      OBVIOUS
    <2>2. \A t \in Threads : calls[t].rpc = "none" => calls[t] = Idle
      BY <2>1 DEF Inv, CallsOK, CallOK, OpenOK
    <2>3. Idle.open = {}
      BY DEF Idle
    <2>4. scan.loop = "none" => scan.client = NoClient
      BY <2>1, ScanProperties DEF Inv
    <2>5. QED BY <2>2, <2>3, <2>4 DEF NoClientLeak
  <1>2. QED BY <1>1, Invariance, PTL

(* Only a reply of "ok" makes a caller hear "ok".                          *)
LEMMA HearsOK ==
    ASSUME Inv, NEW t \in Threads, CallerHears(t) = "ok"
    PROVE  calls[t].reply = "ok"
  <1>1. calls[t].client \in {"none", "waiting", "gone"}
    BY DEF Inv, CallsOK, CallOK, CallTypeOK
  <1>2. QED BY <1>1 DEF CallerHears, C!Hears

(* A caller that hears of success can count on every call the handler      *)
(* depends on, in every script, with every number of failures.             *)
THEOREM SuccessMeansDone == Spec => []OKMeansDone
  <1>1. Inv => OKMeansDone
    <2>1. SUFFICES ASSUME Inv, NEW t \in Threads, CallerHears(t) = "ok"
                   PROVE  calls[t].failed \subseteq Excused(calls[t].rpc)
      BY DEF OKMeansDone, Excused
    <2>2. calls[t].reply = "ok" /\ FailedOK(calls[t])
      BY <2>1, HearsOK DEF Inv, CallsOK, CallOK
    <2>3. QED BY <2>2 DEF FailedOK
  <1>2. QED BY <1>1, Invariance, PTL

(* A v2 request without the name of a frontend is never reported as done,  *)
(* except for a purge whose client does not know the spelling.             *)
THEOREM SuccessMeansNamed == Spec => []OKMeansNamed
  <1>1. Inv => OKMeansNamed
    <2>1. SUFFICES ASSUME Inv, NEW t \in Threads, CallerHears(t) = "ok",
                          calls[t].nameless # "no"
                   PROVE  \/ calls[t].failed = {}
                          \/ calls[t].rpc = "SnapshotPurge" /\ calls[t].nameless = "V2"
      BY DEF OKMeansNamed
    <2>2. calls[t].reply = "ok" /\ FailedOK(calls[t]) /\ NamelessOK(calls[t])
      BY <2>1, HearsOK DEF Inv, CallsOK, CallOK
    <2>3. calls[t].failed \subseteq Excused(calls[t].rpc)
      BY <2>2 DEF FailedOK
    <2>4. CASE calls[t].rpc # "SnapshotPurge"
      <3>1. calls[t].rpc \in FrontendRPCs
        BY <2>1, <2>2 DEF NamelessOK
      <3>2. Excused(calls[t].rpc) = {}
        BY <2>4, <3>1 DEF Excused, BestEffort, Swallowed, FrontendRPCs
      <3>3. QED BY <2>3, <3>2
    <2>5. CASE calls[t].rpc = "SnapshotPurge"
      <3>1. calls[t].nameless \in Spellings /\ DataEngine(calls[t].nameless) = "V2"
        BY <2>1, <2>2 DEF NamelessOK
      <3>2. "engineFrontendName" \notin C!Needs(C!Methods["SnapshotPurge"], calls[t].nameless)
        BY <2>1, <2>2, <2>5 DEF NamelessOK
      <3>3. calls[t].nameless \in {"v2", "V2"}
        BY <3>1 DEF Spellings, C!Spellings, DataEngine, C!getDataEngine
      <3>4. C!Methods["SnapshotPurge"] = C!SnapshotPurge
        BY DEF C!Methods
      <3>5. C!SnapshotPurge.frontend
        BY DEF C!SnapshotPurge, C!UnaryOfFrontend, C!Method
      <3>6. calls[t].nameless # "v2"
        BY <3>2, <3>4, <3>5 DEF C!Needs, C!dataEngineV2
      <3>7. QED BY <2>5, <3>3, <3>6
    <2>6. QED BY <2>4, <2>5
  <1>2. QED BY <1>1, Invariance, PTL

(* A request with one key that is not allowed leaves nothing behind in the *)
(* environment of the instance manager.                                    *)
THEOREM EnvAllOrNothing == Spec => []NoPartialEnv
  <1>1. Inv => NoPartialEnv
    BY DEF Inv, EnvOK
  <1>2. QED BY <1>1, Invariance, PTL

(* However many threads there are and whatever ran before, a backup call   *)
(* that no other one overlaps reads back its own credentials.              *)
THEOREM BackupGetsItsOwn == Spec => []OwnCredentials
  <1>1. Inv => OwnCredentials
    BY DEF Inv, CredentialsOK, Own, Asks, OwnCredentials
  <1>2. QED BY <1>1, Invariance, PTL

(* However many replicas there are, a v2 backup is said to be absent only  *)
(* if every one that could have it was asked and has said so.              *)
THEOREM AbsenceIsNeverGuessed == Spec => []AbsenceIsCertain
  <1>1. Inv => AbsenceIsCertain
    BY ScanProperties DEF Inv
  <1>2. QED BY <1>1, Invariance, PTL

(* A status call that succeeds (rebuilding, clone) reports every replica it*)
(* is about, in whatever order they were asked.                            *)
THEOREM NoStatusMissing == Spec => []StatusIsComplete
  <1>1. Inv => StatusIsComplete
    BY ScanProperties DEF Inv
  <1>2. QED BY <1>1, Invariance, PTL

(* The loops go on after a replica that cannot be asked or answers with an *)
(* error: all the others are asked as well.                                *)
THEOREM EveryReplicaAsked == Spec => []NoReplicaSkipped
  <1>1. Inv => NoReplicaSkipped
    BY ScanProperties DEF Inv
  <1>2. QED BY <1>1, Invariance, PTL

(* A log that ends with EOF has been delivered in full and in order,       *)
(* whatever its length and the window of the stream.                       *)
THEOREM LogsAreComplete == Spec => []LogIsComplete
  <1>1. Inv => LogIsComplete
    BY LogProperties DEF Inv
  <1>2. QED BY <1>1, Invariance, PTL

(* The pipeline of a log never stands still in front of a reader that      *)
(* listens: StreamLog, ProcessLog and InstanceLog do not wait for each     *)
(* other in a circle, whatever the length of the log, the window of the    *)
(* stream and the lines that do not fit.  Behind a reader that has gone,   *)
(* both goroutines end, unless the connection broke under a Send and the   *)
(* consumer says so when the producer no longer looks.                     *)
THEOREM LogsGoOn == Spec => []LogNeverStuck
  <1>1. Inv => LogNeverStuck
    BY SomebodyMoves DEF Inv
  <1>2. QED BY <1>1, Invariance, PTL
=============================================================================
