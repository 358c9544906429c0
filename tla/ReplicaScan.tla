----------------------------- MODULE ReplicaScan -----------------------------
(***************************************************************************)
(* The loops of the proxy service over the replicas of an engine.  Five    *)
(* calls ask replica after replica and make one answer of what they hear:  *)
(*                                                                         *)
(*   rebuilding  ReplicaRebuildingStatus (V2)   replica.go:297-334         *)
(*   qos         ReplicaRebuildingQosSet (V2)   replica.go:383-421         *)
(*   clone       SnapshotCloneStatus (V2)       snapshot.go:379-455        *)
(*   backup_v1   SnapshotBackupStatus (V1)      backup.go:186-216          *)
(*   backup_v2   SnapshotBackupStatus (V2)      backup.go:322-368          *)
(*                                                                         *)
(* Replica names are numbers, so that they can be sorted.                  *)
(***************************************************************************)
EXTENDS Integers, FiniteSetsExt

CONSTANT Replicas       \* the names of the engine's replicas

ASSUME ReplicasAssumption == Replicas \subseteq Nat

VARIABLE scan           \* the running loop

NoClient == -1

Loops == {"rebuilding", "qos", "clone", "backup_v1", "backup_v2"}
Modes == {"WO", "RW", "ERR"}

(* What a replica answers; "unasked" and "noclient" are the loop's.  An    *)
(* empty status is an "error".  "unclosed": no clone has started, and the  *)
(* client could not be closed.                                             *)
Answers == {"unasked", "noclient", "error", "notfound", "nostate", "unclosed", "status"}
AnswersOf(loop) ==
    {"error", "status"} \cup
    (IF loop = "clone" THEN {"nostate", "unclosed"} ELSE
     IF loop = "backup_v2" THEN {"notfound"} ELSE {})

NoScan == [loop     |-> "none",
           todo     |-> {},                 \* replicas still to be asked
           client   |-> NoClient,           \* whose client is open
           status   |-> {},                 \* replicas with a status in the reply
           noState  |-> {},                 \* reachableNoState
           firstErr |-> FALSE,              \* firstErr # nil
           outcome  |-> "none",
           wanted   |-> {},                 \* history: all that had to be asked
           answer   |-> [r \in Replicas |-> "unasked"]]     \* history

ScanTypeOK ==
    scan \in [loop     : Loops \cup {"none"},
              todo     : SUBSET Replicas,
              client   : Replicas \cup {NoClient},
              status   : SUBSET Replicas,
              noState  : SUBSET Replicas,
              firstErr : BOOLEAN,
              outcome  : {"none", "ok", "error", "absent"},
              wanted   : SUBSET Replicas,
              answer   : [Replicas -> Answers]]

ScanInit == scan = NoScan

(* The replicas a loop asks: those in the mode it is about that have an    *)
(* address (findV2BackupReplicaAddresses for the last one).  A replica in  *)
(* the list of a v1 engine always has one.                                 *)
WantedMode(loop) == IF loop \in {"rebuilding", "qos"} THEN "WO" ELSE "RW"

ScanBegin(loop) ==
    /\ scan.loop = "none"
    /\ \E mode \in [Replicas -> Modes], addressed \in SUBSET Replicas :
         LET asked == {r \in addressed : mode[r] = WantedMode(loop)}
         IN  /\ loop = "backup_v1" => addressed = Replicas
             /\ scan' = [NoScan EXCEPT !.loop = loop, !.todo = asked, !.wanted = asked,
                                       !.client = scan.client]

(* The order is Go's map order, or the list's, and thus any; only          *)
(* findV2BackupReplicaAddresses sorts.                                     *)
NextReplicas == IF scan.loop = "backup_v2" /\ scan.todo # {} THEN {Min(scan.todo)} ELSE scan.todo

(* Which answers end the loop: ReplicaRebuildingStatus returns the first   *)
(* error, SnapshotBackupStatus the first status.                           *)
Ends(loop, a) ==
    \/ loop = "rebuilding" /\ a \in {"noclient", "error"}
    \/ loop \in {"backup_v1", "backup_v2"} /\ a = "status"

(* Mutant of ErrorSeen: a later NotFound makes up for an earlier error.    *)
ErrorSeen_Overwritten(a) == a \in {"noclient", "error"}

ErrorSeen(a) == scan.firstErr \/ a \in {"noclient", "error"}

(* Mutant of NoStateSeen: the first that is heard, not the first by name.  *)
NoStateSeen_First(r, a) == IF a = "nostate" /\ scan.noState = {} THEN {r} ELSE scan.noState

NoStateSeen(r, a) == IF a = "nostate" THEN scan.noState \cup {r} ELSE scan.noState

(* The loop has heard a from r.                                            *)
Heard(r, a, client) ==
    scan' = [scan EXCEPT !.answer[r] = a,
                         !.client = client,
                         !.todo = IF Ends(scan.loop, a) THEN {} ELSE @ \ {r},
                         !.status = IF a = "status" THEN @ \cup {r} ELSE @,
                         !.noState = NoStateSeen(r, a),
                         !.firstErr = ErrorSeen(a)]

(* A client of the replica's own service; backup_v2 asks them all through  *)
(* the engine's.                                                           *)
ScanOpen ==
    /\ scan.loop \notin {"none", "backup_v2"}
    /\ scan.client \notin scan.todo
    /\ \E r \in NextReplicas : scan' = [scan EXCEPT !.client = r]

(* Mutant of ScanOpenFails: the other replicas are not asked any more.     *)
ScanOpenFails_Break ==
    /\ scan.loop \notin {"none", "backup_v2"}
    /\ scan.client \notin scan.todo
    /\ \E r \in NextReplicas :
         scan' = [scan EXCEPT !.answer[r] = "noclient", !.todo = {}, !.firstErr = TRUE]

ScanOpenFails ==
    /\ scan.loop \notin {"none", "backup_v2"}
    /\ scan.client \notin scan.todo
    /\ \E r \in NextReplicas : Heard(r, "noclient", NoClient)

(* Mutant of ScanAsk: an error leaves the iteration before the Close.      *)
ScanAsk_LeavesClient ==
    \E r \in NextReplicas, a \in AnswersOf(scan.loop) :
        /\ scan.client = r \/ scan.loop = "backup_v2"
        /\ Heard(r, a, IF a = "error" THEN scan.client ELSE NoClient)

(* The client is closed whatever the replica has answered.                 *)
ScanAsk ==
    \E r \in NextReplicas, a \in AnswersOf(scan.loop) :
        /\ scan.client = r \/ scan.loop = "backup_v2"
        /\ Heard(r, a, NoClient)

(* What the loop makes of what it has heard.  SnapshotCloneStatus falls    *)
(* back to one replica that has no clone state yet, the first by name.     *)
(* backup_v1 does not tell a replica it could not ask from one without the *)
(* backup.                                                                 *)
Outcome ==
    CASE scan.loop = "rebuilding" -> IF scan.firstErr THEN "error" ELSE "ok"
      [] scan.loop = "qos"        -> "ok"
      [] scan.loop = "clone"      -> IF scan.status \cup scan.noState # {} THEN "ok" ELSE "error"
      [] scan.loop = "backup_v1"  -> IF scan.status # {} THEN "ok" ELSE "absent"
      [] scan.loop = "backup_v2"  -> IF scan.status # {} THEN "ok" ELSE
                                     IF scan.firstErr THEN "error" ELSE "absent"

ScanEnd ==
    /\ scan.loop # "none"
    /\ scan.outcome = "none"
    /\ scan.todo = {}
    /\ scan' = [scan EXCEPT !.outcome = Outcome,
                            !.status = IF scan.loop = "clone" /\ @ = {} /\ scan.noState # {}
                                       THEN {Min(scan.noState)} ELSE @]

(* The handler goes on with the outcome.                                   *)
ScanDone == scan' = [NoScan EXCEPT !.client = scan.client]

ScanNext == ScanOpen \/ ScanOpenFails \/ ScanAsk \/ ScanEnd

-----------------------------------------------------------------------------
Heards(S) == {r \in scan.wanted : scan.answer[r] \in S}

(* A v2 backup is reported as nowhere to be found only if every replica    *)
(* that could have it was asked and said so: an unreachable replica, or    *)
(* one that answers with nothing, may have it                              *)
(* (getV2BackupStatusFromReplicas, and its tests in backup_test.go).       *)
AbsenceIsCertain ==
    scan.loop = "backup_v2" /\ scan.outcome = "absent" => Heards({"notfound"}) = scan.wanted

(* A status call that succeeds reports every replica it is about, in       *)
(* whatever order they were asked: all replicas that rebuild; all replicas *)
(* with a clone state or else, "for determinism", the first by name that   *)
(* has none (snapshot.go:442-449).                                         *)
StatusIsComplete ==
    scan.outcome = "ok" =>
        /\ scan.loop = "rebuilding" => scan.status = scan.wanted
        /\ scan.loop = "clone" =>
             scan.status = IF Heards({"status"}) # {} THEN Heards({"status"})
                           ELSE {Min(Heards({"nostate"}))}

(* A replica that fails does not keep the others from being asked: to set  *)
(* a QoS limit, for a clone's status, or for a backup another one may have *)
(* (the continue statements of the loops).                                 *)
NoReplicaSkipped ==
    scan.outcome # "none" =>
        \/ \A r \in scan.wanted : scan.answer[r] # "unasked"
        \/ scan.loop = "rebuilding" /\ scan.outcome = "error"
        \/ scan.loop \in {"backup_v1", "backup_v2"} /\ scan.outcome = "ok"
=============================================================================
