------------------------- MODULE InstanceBuildProofs -------------------------
(* Theorems about InstanceBuild, for any instances, hosts, capacity,        *)
(* attempts and crashes.                                                    *)
EXTENDS InstanceBuild, FiniteSetTheorems, TLAPS

\* A host where a build began is among the hosts tried, and the host that is
\* about to be tried is not.  Without retries there is one attempt.
AttemptedOf(i) ==
    /\ \A h \in Hosts : builds[i][h] = 0 \/ (builds[i][h] = 1 /\ (Retries => h \in tried[i]))
    /\ pc[i] = "placed" /\ Retries => dest[i] \notin tried[i]
    /\ pc[i] = "sent" => builds[i][dest[i]] = 0 /\ (Retries => dest[i] \in tried[i])
    /\ pc[i] \in {"conductor", "placed", "sent"} /\ ~Retries => \A h \in Hosts : builds[i][h] = 0
    /\ pc[i] = "recast" => Retries

\* A build has threads on hosts that are up only, and a domain on its host only,
\* where it stays when the build gives up.
DomainsOf(i) ==
    /\ pc[i] \in Locked => dest[i] \in up
    /\ \A h \in Hosts : i \in running[h] =>
          /\ dest[i] = h
          /\ \/ pc[i] \in {"active", "cleanup", "done"}
             \/ pc[i] \in {"release", "networks", "conclude"} /\ failure[i] # "retry"

\* An instance nobody deletes: the deletion leaves no trace in it and no save
\* is refused, so that the host column follows the build.
Untouched(i) ==
    /\ i \notin deleted /\ tpc[i] = "none" /\ dirty[i] = {}
    /\ row[i].task # "deleting" /\ row[i].vm # "deleted"
    /\ pc[i] \in {"conductor", "placed", "sent", "recast"} => row[i].task = "scheduling"
    /\ pc[i] \in {"claim", "network"} => row[i].task = NULL
    /\ pc[i] = "spawning" => row[i].task = "mapping"
    /\ pc[i] \in {"spawn", "active"} => row[i].task = "spawning"

Follows(i) ==
    /\ pc[i] \in {"conductor", "placed", "sent", "claim", "networks", "conclude", "recast"} =>
          row[i].host = NULL
    /\ pc[i] \in {"network", "mapping", "spawning", "spawn", "active", "cleanup", "release"} =>
          row[i].host = dest[i]
    /\ pc[i] = "active" => i \in running[dest[i]]
    /\ row[i].vm = "active" =>
          pc[i] = "done" /\ row[i].host \in Hosts /\ i \in running[row[i].host]
    /\ row[i].host \in up => i \in tracked[row[i].host]

Attempted   == \A i \in Instances : AttemptedOf(i)
Domains     == \A i \in Instances : DomainsOf(i)
KeptFollows == \A i \in Instances : Kept(i) => Untouched(i) /\ Follows(i)

BuildInv == TypeOK /\ Attempted /\ Domains /\ KeptFollows /\ NotOverbooked

USE BuildBounds, BuildNull

------------------------------------------------------------------------------
(* Rows and the objects that hold them.                                     *)

\* A record of new values for some of the columns.
Change(c) ==
    /\ "vm" \in DOMAIN c => c["vm"] \in VmStates
    /\ "task" \in DOMAIN c => c["task"] \in Tasks
    /\ "host" \in DOMAIN c => c["host"] \in Hosts \cup {NULL}

\* A function on the columns with typed values is a row.
LEMMA RowType ==
    ASSUME NEW r, r = [f \in Columns |-> r[f]],
           r["vm"] \in VmStates, r["task"] \in Tasks, r["host"] \in Hosts \cup {NULL}
    PROVE  r \in Rows
<1>1. r = [vm |-> r["vm"], task |-> r["task"], host |-> r["host"]]
  BY DEF Columns
<1> QED
  BY <1>1 DEF Rows

\* The columns of a row are typed.
LEMMA RowFields ==
    ASSUME NEW r \in Rows
    PROVE  r["vm"] \in VmStates /\ r["task"] \in Tasks /\ r["host"] \in Hosts \cup {NULL}
BY DEF Rows

\* An object that is assigned typed columns is a row.
LEMMA AssignedType ==
    ASSUME NEW o \in Rows, NEW c, Change(c)
    PROVE  /\ Assigned(o, c) \in Rows
           /\ \A f \in Columns : Assigned(o, c)[f] = IF f \in DOMAIN c THEN c[f] ELSE o[f]
<1> DEFINE r == Assigned(o, c)
<1>1. r = [f \in Columns |-> IF f \in DOMAIN c THEN c[f] ELSE o[f]]
  BY DEF Assigned
<1>2. \A f \in Columns : r[f] = IF f \in DOMAIN c THEN c[f] ELSE o[f]
  BY <1>1
<1>3. r = [f \in Columns |-> r[f]]
  BY <1>1
<1>4. r["vm"] \in VmStates /\ r["task"] \in Tasks /\ r["host"] \in Hosts \cup {NULL}
  BY <1>2, RowFields DEF Change, Columns
<1> HIDE DEF r
<1>5. r \in Rows
  BY <1>3, <1>4, RowType
<1> QED
  BY <1>2, <1>5 DEF r

\* The changes the code makes.
LEMMA Changes ==
    /\ \A v \in VmStates, t \in Tasks : Change([vm |-> v, task |-> t])
    /\ \A h \in Hosts \cup {NULL} : Change([host |-> h])
    /\ \A t \in Tasks : Change([task |-> t])
    /\ \A h \in Hosts \cup {NULL}, t \in Tasks : Change([host |-> h, task |-> t])
    /\ \A h \in Hosts \cup {NULL}, v \in VmStates, t \in Tasks :
           Change([host |-> h, vm |-> v, task |-> t])
    /\ Change([f \in {} |-> NULL])
BY DEF Change

\* What an object and its row hold after instance.save().
LEMMA SaveType ==
    ASSUME TypeOK, NEW i \in Instances, NEW c, Change(c), Save(i, c)
    PROVE  /\ row' \in [Instances -> Rows] /\ obj' \in [Instances -> Rows]
           /\ dirty' \in [Instances -> SUBSET Columns] /\ dirty'[i] = {}
           /\ \A j \in Instances \ {i} : row'[j] = row[j] /\ dirty'[j] = dirty[j]
           /\ dirty[i] = {} =>
                 \A f \in Columns : row'[i][f] = IF f \in DOMAIN c THEN c[f] ELSE row[i][f]
<1> DEFINE changed == dirty[i] \cup DOMAIN c
           object  == Assigned(obj[i], c)
           new     == [f \in Columns |-> IF f \in changed THEN object[f] ELSE row[i][f]]
<1>1. /\ row' = [row EXCEPT ![i] = new]
      /\ obj' = [obj EXCEPT ![i] = new]
      /\ dirty' = [dirty EXCEPT ![i] = {}]
  BY DEF Save
<1>2. row[i] \in Rows /\ obj[i] \in Rows
  BY DEF TypeOK
<1>3. object \in Rows /\ \A f \in Columns : object[f] = IF f \in DOMAIN c THEN c[f] ELSE obj[i][f]
  BY <1>2, AssignedType
<1>4. \A f \in Columns : new[f] = IF f \in changed THEN object[f] ELSE row[i][f]
  OBVIOUS
<1>5. new = [f \in Columns |-> new[f]]
  OBVIOUS
<1> HIDE DEF object
<1>6. new["vm"] \in VmStates /\ new["task"] \in Tasks /\ new["host"] \in Hosts \cup {NULL}
  BY <1>2, <1>3, <1>4, RowFields DEF Columns
<1>8. dirty[i] = {} => \A f \in Columns : new[f] = IF f \in DOMAIN c THEN c[f] ELSE row[i][f]
  BY <1>3, <1>4
<1> HIDE DEF new
<1>7. new \in Rows
  BY <1>5, <1>6, RowType
<1> QED
  BY <1>1, <1>7, <1>8 DEF TypeOK

\* A save that is refused leaves the row and types the object.
LEMMA RefusedType ==
    ASSUME TypeOK, NEW i \in Instances, NEW c, Change(c), DOMAIN c \subseteq Columns,
           RefusedSave(i, c)
    PROVE  /\ row' = row /\ obj' \in [Instances -> Rows]
           /\ dirty' \in [Instances -> SUBSET Columns]
           /\ \A j \in Instances \ {i} : dirty'[j] = dirty[j]
<1>1. obj[i] \in Rows
  BY DEF TypeOK
<1>2. Assigned(obj[i], c) \in Rows
  BY <1>1, AssignedType
<1> QED
  BY <1>2 DEF RefusedSave, TypeOK

\* A save with its expected task states, done or refused, keeps the types.
LEMMA StageType ==
    ASSUME TypeOK, NEW i \in Instances, NEW expected, NEW c, Change(c), DOMAIN c \subseteq Columns,
           NEW next \in BuildPcs, NEW kind \in Failures, NEW unwind \in BuildPcs,
           Stage(i, expected, c, next, kind, unwind)
    PROVE  /\ row' \in [Instances -> Rows] /\ obj' \in [Instances -> Rows]
           /\ dirty' \in [Instances -> SUBSET Columns]
           /\ failure' \in [Instances -> Failures \cup {NULL}]
           /\ pc' = [pc EXCEPT ![i] = next] \/ pc' = [pc EXCEPT ![i] = unwind]
           /\ \A j \in Instances \ {i} :
                 /\ row'[j] = row[j] /\ dirty'[j] = dirty[j] /\ failure'[j] = failure[j]
                 /\ pc'[j] = pc[j]
<1>1. CASE Save(i, c) /\ GoTo(i, next) /\ UNCHANGED failure
  BY <1>1, SaveType DEF GoTo, TypeOK
<1>2. CASE /\ RefusedSave(i, c)
           /\ Raise(i, IF Refusal(i, expected) = "gone" THEN "gone" ELSE kind, unwind)
  <2>1. row' = row /\ obj' \in [Instances -> Rows] /\ dirty' \in [Instances -> SUBSET Columns]
        /\ \A j \in Instances \ {i} : dirty'[j] = dirty[j]
    BY <1>2, RefusedType
  <2>2. (IF Refusal(i, expected) = "gone" THEN "gone" ELSE kind) \in Failures
    BY DEF Failures
  <2> QED
    BY <1>2, <2>1, <2>2 DEF Raise, GoTo, TypeOK
<1> QED
  BY <1>1, <1>2 DEF Stage

\* What a tracker writes is typed.
LEMMA TrackType ==
    ASSUME TypeOK, NEW h \in Hosts, NEW S \in SUBSET Instances, Track(h, S)
    PROVE  /\ tracked' \in [Hosts -> SUBSET Instances] /\ node' \in [Hosts -> Int]
           /\ fresher' \in [Hosts -> BOOLEAN]
           /\ tracked' = [tracked EXCEPT ![h] = S]
<1>1. Cardinality(S) \in Nat
  BY FiniteInstances, FS_Subset, FS_CardinalityType
<1> QED
  BY <1>1 DEF Track, TypeOK

\* A write to the row of one instance changes the columns it names.
LEMMA WriteType ==
    ASSUME TypeOK, NEW i \in Instances, NEW c, Change(c), Write(i, c)
    PROVE  /\ row' \in [Instances -> Rows]
           /\ \A j \in Instances \ {i} : row'[j] = row[j]
           /\ \A f \in Columns : row'[i][f] = IF f \in DOMAIN c THEN c[f] ELSE row[i][f]
<1>1. row[i] \in Rows
  BY DEF TypeOK
<1>2. row' = [row EXCEPT ![i] = Assigned(row[i], c)]
  BY DEF Write
<1> HIDE DEF Write
<1> QED
  BY <1>1, <1>2, AssignedType DEF TypeOK

------------------------------------------------------------------------------
(* Types, and that a build is tried once on a host.                         *)

\* Every step of a build keeps the types.
LEMMA BuildTypes ==
    ASSUME TypeOK, Attempted, NEW i \in Instances, BuildStep(i)
    PROVE  TypeOK'
<1> USE DEF GoTo, Raise, KeepObject, world, elsewhere, placement, deletion, hypervisor
<1>1. ASSUME NEW h \in Hosts, Schedule(i, h) PROVE TypeOK'
  <2>1. SeenUsage(h) \in Int /\ attempts' \in [Instances -> 0 .. MaxAttempts]
    BY <1>1 DEF Schedule, SeenUsage, Exhausted, Retries, TypeOK
  <2> QED
    BY <1>1, <2>1 DEF Schedule, TypeOK, BuildPcs, Locked
<1>2. CASE ScheduleFails(i)
  <2>1. row' \in [Instances -> Rows]
    <3>1. row[i] \in Rows
      BY DEF TypeOK
    <3>2. Assigned(row[i], [vm |-> "error", task |-> NULL]) \in Rows
      BY <3>1, Changes, AssignedType DEF VmStates, Tasks
    <3> QED
      BY <1>2, <3>2 DEF ScheduleFails, TypeOK
  <2> QED
    BY <1>2, <2>1 DEF ScheduleFails, TypeOK, BuildPcs, Locked
<1>3. CASE Dispatch(i)
  <2>1. dest[i] \in Hosts /\ row[i] \in Rows
    BY <1>3 DEF Dispatch, TypeOK
  <2>2. CASE GoTo(i, "done") /\ UNCHANGED <<request, tried, obj, dirty>>
    BY <1>3, <2>2 DEF Dispatch, TypeOK, BuildPcs, Locked
  <2>3. CASE /\ request' = request \ {i}
             /\ tried' = [tried EXCEPT ![i] = IF Retries THEN @ \cup {dest[i]} ELSE @]
             /\ obj' = [obj EXCEPT ![i] = row[i]] /\ dirty' = [dirty EXCEPT ![i] = {}]
             /\ GoTo(i, "sent")
    <3>1. tried' \in [Instances -> SUBSET Hosts]
      BY <2>1, <2>3 DEF TypeOK
    <3>2. obj' \in [Instances -> Rows] /\ dirty' \in [Instances -> SUBSET Columns]
      BY <2>1, <2>3 DEF TypeOK
    <3> QED
      BY <1>3, <2>1, <2>3, <3>1, <3>2 DEF Dispatch, TypeOK, BuildPcs, Locked
  <2> QED
    BY <1>3, <2>2, <2>3 DEF Dispatch
<1>4. CASE StartBuild(i)
  <2>1. CASE Save(i, [vm |-> "building", task |-> NULL])
             /\ builds' = [builds EXCEPT ![i][dest[i]] = @ + 1] /\ GoTo(i, "claim")
    <3>1. row' \in [Instances -> Rows] /\ obj' \in [Instances -> Rows]
          /\ dirty' \in [Instances -> SUBSET Columns]
      BY <2>1, Changes, SaveType DEF VmStates, Tasks
    <3>2. builds' \in [Instances -> [Hosts -> 0 .. MaxAttempts]]
      BY <1>4, <2>1 DEF StartBuild, TypeOK, Attempted, AttemptedOf
    <3> QED
      BY <1>4, <2>1, <3>1, <3>2 DEF StartBuild, TypeOK, BuildPcs, Locked
  <2>2. CASE KeepObject /\ GoTo(i, "done") /\ UNCHANGED builds
    BY <1>4, <2>2 DEF StartBuild, TypeOK, BuildPcs, Locked
  <2> QED
    BY <1>4, <2>1, <2>2 DEF StartBuild
<1>5. CASE ClaimFails(i)
  BY <1>5 DEF ClaimFails, TypeOK, BuildPcs, Locked, Failures
<1>6. CASE Claim(i)
  <2>1. dest[i] \in Hosts /\ Change([host |-> dest[i]])
    BY <1>6, Changes DEF Claim, TypeOK, Locked
  <2>2. CASE Save(i, [host |-> dest[i]]) /\ Track(dest[i], tracked[dest[i]] \cup {i})
             /\ GoTo(i, "network") /\ UNCHANGED failure
    <3>1. row' \in [Instances -> Rows] /\ obj' \in [Instances -> Rows]
          /\ dirty' \in [Instances -> SUBSET Columns]
      BY <2>1, <2>2, SaveType
    <3>2. tracked[dest[i]] \cup {i} \in SUBSET Instances
      BY <2>1 DEF TypeOK
    <3>3. tracked' \in [Hosts -> SUBSET Instances] /\ node' \in [Hosts -> Int]
          /\ fresher' \in [Hosts -> BOOLEAN]
      BY <2>1, <2>2, <3>2, TrackType
    <3> QED
      BY <1>6, <2>1, <2>2, <3>1, <3>3 DEF Claim, TypeOK, BuildPcs, Locked
  <2>3. CASE RefusedSave(i, [host |-> dest[i]]) /\ Raise(i, "gone", "networks")
             /\ UNCHANGED <<tracked, node, fresher>>
    <3>1. row' = row /\ obj' \in [Instances -> Rows] /\ dirty' \in [Instances -> SUBSET Columns]
      BY <2>1, <2>3, RefusedType DEF Columns
    <3> QED
      BY <1>6, <2>1, <2>3, <3>1 DEF Claim, TypeOK, BuildPcs, Locked, Failures
  <2> QED
    BY <1>6, <2>2, <2>3 DEF Claim
<1>7. ASSUME NEW kind \in {"abort", "retry"}, PrepareFails(i, kind) PROVE TypeOK'
  BY <1>7 DEF PrepareFails, TypeOK, BuildPcs, Locked, Failures
<1>8. CASE AllocateNetwork(i)
  <2>1. dest[i] \in Hosts /\ tracked[dest[i]] \in SUBSET Instances
    BY <1>8 DEF AllocateNetwork, TypeOK, Locked
  <2>2. tracked' \in [Hosts -> SUBSET Instances] /\ node' \in [Hosts -> Int]
        /\ fresher' \in [Hosts -> BOOLEAN]
    <3>1. CASE Track(dest[i], tracked[dest[i]])
      BY <2>1, <3>1, TrackType
    <3>2. CASE UNCHANGED <<tracked, node, fresher>>
      BY <3>2 DEF TypeOK
    <3> QED
      BY <1>8, <3>1, <3>2 DEF AllocateNetwork
  <2>3. CASE Stage(i, {NULL}, [vm |-> "building", task |-> "networking"],
                   "mapping", "abort", "release")
    <3>1. /\ row' \in [Instances -> Rows] /\ obj' \in [Instances -> Rows]
          /\ dirty' \in [Instances -> SUBSET Columns]
          /\ failure' \in [Instances -> Failures \cup {NULL}]
          /\ pc' = [pc EXCEPT ![i] = "mapping"] \/ pc' = [pc EXCEPT ![i] = "release"]
      BY <2>3, Changes, StageType DEF VmStates, Tasks, Failures, BuildPcs, Columns
    <3> QED
      BY <1>8, <2>1, <2>2, <3>1 DEF AllocateNetwork, TypeOK, BuildPcs, Locked
  <2>4. CASE GoTo(i, "mapping") /\ KeepObject /\ UNCHANGED failure
    BY <1>8, <2>1, <2>2, <2>4 DEF AllocateNetwork, TypeOK, BuildPcs, Locked
  <2> QED
    BY <1>8, <2>3, <2>4 DEF AllocateNetwork
<1>9. CASE MapDevices(i)
  <2>1. /\ row' \in [Instances -> Rows] /\ obj' \in [Instances -> Rows]
        /\ dirty' \in [Instances -> SUBSET Columns]
        /\ failure' \in [Instances -> Failures \cup {NULL}]
        /\ pc' = [pc EXCEPT ![i] = "spawning"] \/ pc' = [pc EXCEPT ![i] = "release"]
    BY <1>9, Changes, StageType DEF MapDevices, VmStates, Tasks, Failures, BuildPcs, Columns
  <2> QED
    BY <1>9, <2>1 DEF MapDevices, TypeOK, BuildPcs, Locked
<1>10. CASE MarkSpawning(i)
  <2>1. /\ row' \in [Instances -> Rows] /\ obj' \in [Instances -> Rows]
        /\ dirty' \in [Instances -> SUBSET Columns]
        /\ failure' \in [Instances -> Failures \cup {NULL}]
        /\ pc' = [pc EXCEPT ![i] = "spawn"] \/ pc' = [pc EXCEPT ![i] = "cleanup"]
    BY <1>10, Changes, StageType DEF MarkSpawning, VmStates, Tasks, Failures, BuildPcs, Columns
  <2> QED
    BY <1>10, <2>1 DEF MarkSpawning, TypeOK, BuildPcs, Locked
<1>11. CASE Spawn(i)
  BY <1>11 DEF Spawn, TypeOK, BuildPcs, Locked
<1>12. ASSUME NEW kind \in {"abort", "retry"}, NEW left \in BOOLEAN, SpawnFails(i, kind, left)
       PROVE  TypeOK'
  BY <1>12 DEF SpawnFails, TypeOK, BuildPcs, Locked, Failures
<1>13. CASE Activate(i)
  <2>1. /\ row' \in [Instances -> Rows] /\ obj' \in [Instances -> Rows]
        /\ dirty' \in [Instances -> SUBSET Columns]
        /\ failure' \in [Instances -> Failures \cup {NULL}]
        /\ pc' = [pc EXCEPT ![i] = "done"] \/ pc' = [pc EXCEPT ![i] = "networks"]
    BY <1>13, Changes, StageType DEF Activate, VmStates, Tasks, Failures, BuildPcs, Columns
  <2> QED
    BY <1>13, <2>1 DEF Activate, TypeOK, BuildPcs, Locked
<1>14. CASE CleanUp(i)
  BY <1>14 DEF CleanUp, TypeOK, BuildPcs, Locked
<1>15. CASE CleanUpFails(i)
  BY <1>15 DEF CleanUpFails, TypeOK, BuildPcs, Locked, Failures
<1>16. CASE Release(i)
  <2> DEFINE h == dest[i]
             S == IF i \in tracked[h] THEN tracked[h] \ {i} ELSE tracked[h] \cup {i}
  <2>1. h \in Hosts /\ S \in SUBSET Instances
    BY <1>16 DEF Release, TypeOK, Locked
  <2>2. CASE row' = [row EXCEPT ![i].host = NULL] /\ Track(h, S) /\ UNCHANGED failure
    <3>1. tracked' \in [Hosts -> SUBSET Instances] /\ node' \in [Hosts -> Int]
          /\ fresher' \in [Hosts -> BOOLEAN]
      BY <2>1, <2>2, TrackType
    <3>2. row' \in [Instances -> Rows]
      <4>1. row[i] \in Rows
        BY DEF TypeOK
      <4>2. [row[i] EXCEPT !.host = NULL] \in Rows
        BY <4>1 DEF Rows
      <4> QED
        BY <2>2, <4>2 DEF TypeOK
    <3> QED
      BY <1>16, <2>2, <3>1, <3>2 DEF Release, TypeOK, BuildPcs, Locked
  <2>3. CASE /\ tracked' = [tracked EXCEPT ![h] = S]
             /\ failure' = [failure EXCEPT ![i] = "gone"] /\ UNCHANGED <<row, node, fresher>>
    <3> HIDE DEF S
    <3>1. tracked' \in [Hosts -> SUBSET Instances]
      BY <2>1, <2>3 DEF TypeOK
    <3> QED
      BY <1>16, <2>3, <3>1 DEF Release, TypeOK, BuildPcs, Locked, Failures
  <2> QED
    BY <1>16, <2>2, <2>3 DEF Release
<1>17. ASSUME NEW saved \in BOOLEAN, FreeNetworks(i, saved) PROVE TypeOK'
  <2>1. row' \in [Instances -> Rows] /\ obj' \in [Instances -> Rows]
        /\ dirty' \in [Instances -> SUBSET Columns]
    <3>1. CASE Save(i, [f \in {} |-> NULL])
      BY <3>1, Changes, SaveType
    <3>2. CASE KeepObject
      BY <3>2 DEF TypeOK
    <3> QED
      BY <1>17, <3>1, <3>2 DEF FreeNetworks
  <2> QED
    BY <1>17, <2>1 DEF FreeNetworks, TypeOK, BuildPcs, Locked
<1>18. CASE Conclude(i)
  <2>1. row' \in [Instances -> Rows] /\ obj' \in [Instances -> Rows]
        /\ dirty' \in [Instances -> SUBSET Columns]
    <3>1. CASE KeepObject
      BY <3>1 DEF TypeOK
    <3>2. CASE Save(i, [host |-> NULL, task |-> "scheduling"])
      BY <3>2, Changes, SaveType DEF Tasks
    <3>3. CASE Save(i, [host |-> NULL, vm |-> "error", task |-> NULL])
      BY <3>3, Changes, SaveType DEF Tasks, VmStates
    <3> QED
      BY <1>18, <3>1, <3>2, <3>3 DEF Conclude
  <2>2. pc' = [pc EXCEPT ![i] = "done"] \/ pc' = [pc EXCEPT ![i] = "recast"]
    BY <1>18 DEF Conclude
  <2> QED
    BY <1>18, <2>1, <2>2 DEF Conclude, TypeOK, BuildPcs, Locked
<1>19. CASE Recast(i)
  BY <1>19 DEF Recast, TypeOK, BuildPcs, Locked
<1> QED
  BY <1>1, <1>2, <1>3, <1>4, <1>5, <1>6, <1>7, <1>8, <1>9, <1>10, <1>11, <1>12, <1>13, <1>14,
     <1>15, <1>16, <1>17, <1>18, <1>19 DEF BuildStep

\* Every step of a delete keeps the types.
LEMMA DeletionTypes ==
    ASSUME TypeOK, NEW i \in Instances,
           DeleteRequest(i) \/ MarkDeleting(i) \/ Delete(i) \/ Terminate(i)
    PROVE  TypeOK'
<1> USE DEF writeDb, build, placement, DeleteStep, TerminateStep
<1>1. row[i] \in Rows /\ row[i].host \in Hosts \cup {NULL}
  BY DEF TypeOK, Rows
<1>2. CASE DeleteRequest(i)
  BY <1>2 DEF DeleteRequest, TypeOK
<1>3. CASE MarkDeleting(i)
  <2>1. row' \in [Instances -> Rows]
    BY <1>3, Changes, WriteType DEF MarkDeleting, Tasks
  <2> QED
    BY <1>1, <1>3, <2>1 DEF MarkDeleting, TypeOK
<1>4. CASE DeleteBooting(i)
  BY <1>4 DEF DeleteBooting, TypeOK
<1>5. CASE DestroyUnhosted(i)
  <2>1. deleted' \subseteq Instances
        /\ (dpc' = [dpc EXCEPT ![i] = "done"] \/ dpc' = [dpc EXCEPT ![i] = "refresh"])
    BY <1>5 DEF DestroyUnhosted, TypeOK
  <2>2. UNCHANGED <<row, writeDb, dhost, tpc, thost, tseen>>
    BY <1>5 DEF DestroyUnhosted
  <2> QED
    BY <2>1, <2>2 DEF TypeOK
<1>6. CASE RefreshHost(i)
  BY <1>1, <1>6 DEF RefreshHost, TypeOK
<1>7. CASE CastTerminate(i)
  BY <1>7 DEF CastTerminate, TypeOK
<1>8. CASE LocalFails(i)
  BY <1>8 DEF LocalFails, TypeOK
<1>8a. CASE LocalSave(i)
  <2>1. row' \in [Instances -> Rows]
    <3>1. CASE Write(i, [vm |-> "deleted", task |-> NULL])
      BY <3>1, Changes, WriteType DEF Tasks, VmStates
    <3>2. CASE UNCHANGED row
      BY <3>2 DEF TypeOK
    <3> QED
      BY <1>8a, <3>1, <3>2 DEF LocalSave
  <2>2. dhost' \in [Instances -> Hosts \cup {NULL}]
    BY <1>8a, <1>1 DEF LocalSave, TypeOK
  <2>3. dpc' = [dpc EXCEPT ![i] = "done"] \/ dpc' = [dpc EXCEPT ![i] = "local"]
    BY <1>8a DEF LocalSave
  <2>4. UNCHANGED <<deleted, writeDb, tpc, thost, tseen>>
    BY <1>8a DEF LocalSave
  <2> QED
    BY <2>1, <2>2, <2>3, <2>4 DEF TypeOK
<1>8b. CASE LocalDestroy(i)
  BY <1>8b DEF LocalDestroy, TypeOK
<1>9. CASE Shutdown(i)
  BY <1>9 DEF Shutdown, TypeOK
<1>10. CASE ShutdownFails(i)
  <2>1. row' \in [Instances -> Rows]
    <3>1. CASE Write(i, [vm |-> "error", task |-> NULL])
      BY <3>1, Changes, WriteType DEF Tasks, VmStates
    <3>2. CASE UNCHANGED row
      BY <3>2 DEF TypeOK
    <3> QED
      BY <1>10, <3>1, <3>2 DEF ShutdownFails
  <2> QED
    BY <1>10, <2>1 DEF ShutdownFails, TypeOK
<1>11. CASE SaveDeleted(i)
  <2>1. row' \in [Instances -> Rows]
    <3>1. CASE Write(i, [vm |-> "deleted", task |-> NULL])
      BY <3>1, Changes, WriteType DEF Tasks, VmStates
    <3>2. CASE UNCHANGED row
      BY <3>2 DEF TypeOK
    <3> QED
      BY <1>11, <3>1, <3>2 DEF SaveDeleted
  <2> QED
    BY <1>1, <1>11, <2>1 DEF SaveDeleted, TypeOK
<1>12. CASE Destroy(i)
  <2>1. row' \in [Instances -> Rows]
    <3>1. CASE Write(i, [vm |-> "error", task |-> NULL])
      BY <3>1, Changes, WriteType DEF Tasks, VmStates
    <3>2. CASE UNCHANGED row
      BY <3>2 DEF TypeOK
    <3> QED
      BY <1>12, <3>1, <3>2 DEF Destroy
  <2>2. /\ tracked' \in [Hosts -> SUBSET Instances] /\ node' \in [Hosts -> Int]
        /\ fresher' \in [Hosts -> BOOLEAN]
    <3>1. thost[i] \in Hosts /\ tracked[thost[i]] \ {i} \in SUBSET Instances
      BY <1>12 DEF Destroy, TypeOK
    <3>2. CASE Track(thost[i], tracked[thost[i]] \ {i})
      BY <3>1, <3>2, TrackType
    <3>3. CASE UNCHANGED <<tracked, node, fresher>>
      BY <3>3 DEF TypeOK
    <3> QED
      BY <1>12, <3>2, <3>3 DEF Destroy
  <2>3. deleted' \subseteq Instances
    BY <1>12 DEF Destroy, TypeOK
  <2> QED
    BY <1>12, <2>1, <2>2, <2>3 DEF Destroy, TypeOK
<1> QED
  BY <1>2, <1>3, <1>4, <1>5, <1>6, <1>7, <1>8, <1>8a, <1>8b, <1>9, <1>10, <1>11, <1>12
     DEF Delete, Terminate

\* An audit tracks instances.
LEMMA AuditedType == ASSUME NEW h, NEW r, NEW gone PROVE Audited(h, r, gone) \in SUBSET Instances
BY DEF Audited

\* A restart leaves hosts alone, and clears tasks or fails instances.
LEMMA RestartRows ==
    ASSUME TypeOK, NEW h \in Hosts, Restart(h), NEW i \in Instances
    PROVE  /\ row'[i] \in Rows /\ row'[i].host = row[i].host
           /\ row'[i] = row[i] \/ row'[i].task = NULL
           /\ row'[i] = row[i] \/ row'[i].vm = "deleted" \/ (row'[i].vm = "error")
           /\ row'[i].vm = "deleted" => row[i].vm = "deleted" \/ Undeleted(row[i])
<1>1. row[i] \in Rows /\ Change([vm |-> "deleted", task |-> NULL])
                      /\ Change([vm |-> "error", task |-> NULL])
  BY Changes DEF TypeOK, VmStates, Tasks
<1>2. CASE row'[i] = Assigned(row[i], [vm |-> "deleted", task |-> NULL]) /\ Undeleted(row[i])
  BY <1>1, <1>2, AssignedType DEF Columns
<1>3. CASE row'[i] = Assigned(row[i], [vm |-> "error", task |-> NULL])
  BY <1>1, <1>3, AssignedType DEF Columns
<1>4. CASE row'[i] = row[i]
  BY <1>1, <1>4
<1> QED
  BY <1>2, <1>3, <1>4 DEF Restart

\* Audits, crashes, restarts and the reaper keep the types.
LEMMA HostTypes ==
    ASSUME TypeOK, NEW h \in Hosts,
           Audit(h) \/ Crash(h) \/ Restart(h) \/ \E i \in Instances : Reap(h, i)
    PROVE  TypeOK'
<1> USE DEF world, build, placement, deletion
<1>1. CASE Audit(h)
  <2>1. tracked' \in [Hosts -> SUBSET Instances] /\ node' \in [Hosts -> Int]
        /\ fresher' \in [Hosts -> BOOLEAN]
    BY <1>1, AuditedType, TrackType DEF Audit
  <2> QED
    BY <1>1, <2>1 DEF Audit, TypeOK
<1>2. CASE Crash(h)
  BY <1>2 DEF Crash, TypeOK, BuildPcs, Locked
<1>3. CASE Restart(h)
  <2>1. tracked' \in [Hosts -> SUBSET Instances] /\ node' \in [Hosts -> Int]
        /\ fresher' \in [Hosts -> BOOLEAN]
    BY <1>3, AuditedType, TrackType DEF Restart
  <2>2. row' \in [Instances -> Rows]
    <3>1. row' = [i \in Instances |-> row'[i]]
      BY <1>3 DEF Restart
    <3> QED
      BY <1>3, <3>1, RestartRows
  <2>3. deleted' \subseteq Instances /\ running' \in [Hosts -> SUBSET Instances]
    BY <1>3 DEF Restart, TypeOK
  <2> QED
    BY <1>3, <2>1, <2>2, <2>3 DEF Restart, TypeOK
<1>4. CASE \E i \in Instances : Reap(h, i)
  BY <1>4 DEF Reap, TypeOK
<1> QED
  BY <1>1, <1>2, <1>3, <1>4

\* The type invariant needs what is known of attempts.
LEMMA TypesStep == TypeOK /\ Attempted /\ [Next]_vars => TypeOK'
<1> SUFFICES ASSUME TypeOK, Attempted, [Next]_vars PROVE TypeOK'
  OBVIOUS
<1>1. CASE UNCHANGED vars
  BY <1>1 DEF vars, build, placement, deletion, TypeOK
<1>2. CASE Next
  BY <1>2, BuildTypes, DeletionTypes, HostTypes DEF Next
<1> QED
  BY <1>1, <1>2


------------------------------------------------------------------------------
(* A step of one instance leaves the others alone.                          *)

Alone(i) ==
    \A j \in Instances \ {i} :
        /\ row'[j] = row[j] /\ dirty'[j] = dirty[j] /\ failure'[j] = failure[j]
        /\ pc'[j] = pc[j] /\ dest'[j] = dest[j] /\ tried'[j] = tried[j] /\ builds'[j] = builds[j]
        /\ dpc'[j] = dpc[j] /\ tpc'[j] = tpc[j] /\ (j \in deleted' <=> j \in deleted)
        /\ \A h \in Hosts : /\ j \in running'[h] <=> j \in running[h]
                            /\ j \in tracked'[h] <=> j \in tracked[h]

\* A step of a build is about one instance.
LEMMA BuildAlone ==
    ASSUME TypeOK, NEW i \in Instances, BuildStep(i)
    PROVE  Alone(i)
<1> USE DEF GoTo, Raise, KeepObject, world, elsewhere, placement, deletion, hypervisor
<1>1. ASSUME NEW h \in Hosts, Schedule(i, h) PROVE Alone(i)
  BY <1>1 DEF Schedule, TypeOK, Alone
<1>2. CASE ScheduleFails(i)
  BY <1>2 DEF ScheduleFails, TypeOK, Alone
<1>3. CASE Dispatch(i)
  BY <1>3 DEF Dispatch, TypeOK, Alone
<1>4. CASE StartBuild(i)
  <2>1. \A j \in Instances \ {i} : row'[j] = row[j] /\ dirty'[j] = dirty[j]
    BY <1>4, Changes, SaveType DEF StartBuild, VmStates, Tasks
  <2>2. \A j \in Instances \ {i} : builds'[j] = builds[j] /\ pc'[j] = pc[j]
    BY <1>4 DEF StartBuild, TypeOK
  <2> QED
    BY <1>4, <2>1, <2>2 DEF StartBuild, TypeOK, Alone
<1>5. CASE ClaimFails(i)
  BY <1>5 DEF ClaimFails, TypeOK, Alone
<1>6. CASE Claim(i)
  <2>1. dest[i] \in Hosts /\ Change([host |-> dest[i]])
    BY <1>6, Changes DEF Claim, TypeOK, Locked
  <2>2. \A j \in Instances \ {i} : row'[j] = row[j] /\ dirty'[j] = dirty[j]
    BY <1>6, <2>1, SaveType, RefusedType DEF Claim, Columns
  <2>3. \A j \in Instances \ {i}, h \in Hosts : j \in tracked'[h] <=> j \in tracked[h]
    <3>1. CASE UNCHANGED tracked
      BY <3>1
    <3>2. CASE tracked' = [tracked EXCEPT ![dest[i]] = tracked[dest[i]] \cup {i}]
      BY <2>1, <3>2 DEF TypeOK
    <3> QED
      BY <1>6, <3>1, <3>2 DEF Claim, Track
  <2>4. \A j \in Instances \ {i} : pc'[j] = pc[j] /\ failure'[j] = failure[j]
    BY <1>6 DEF Claim, TypeOK
  <2>5. UNCHANGED <<builds, elsewhere>>
    BY <1>6 DEF Claim
  <2> QED
    BY <2>2, <2>3, <2>4, <2>5 DEF Alone
<1>7. ASSUME NEW kind \in {"abort", "retry"}, PrepareFails(i, kind) PROVE Alone(i)
  BY <1>7 DEF PrepareFails, TypeOK, Alone
<1>8. CASE AllocateNetwork(i)
  <2>1. dest[i] \in Hosts
    BY <1>8 DEF AllocateNetwork, TypeOK, Locked
  <2>2. tracked' = tracked
    BY <1>8, <2>1 DEF AllocateNetwork, Track, TypeOK
  <2>3. CASE Stage(i, {NULL}, [vm |-> "building", task |-> "networking"],
                   "mapping", "abort", "release")
    <3>1. \A j \in Instances \ {i} :
             /\ row'[j] = row[j] /\ dirty'[j] = dirty[j] /\ failure'[j] = failure[j]
             /\ pc'[j] = pc[j]
      BY <2>3, Changes, StageType DEF VmStates, Tasks, Failures, BuildPcs, Columns
    <3> QED
      BY <1>8, <2>2, <3>1 DEF AllocateNetwork, Alone
  <2>4. CASE GoTo(i, "mapping") /\ KeepObject /\ UNCHANGED failure
    BY <1>8, <2>2, <2>4 DEF AllocateNetwork, TypeOK, Alone
  <2> QED
    BY <1>8, <2>3, <2>4 DEF AllocateNetwork
<1>9. CASE MapDevices(i)
  <2>1. \A j \in Instances \ {i} :
           /\ row'[j] = row[j] /\ dirty'[j] = dirty[j] /\ failure'[j] = failure[j]
           /\ pc'[j] = pc[j]
    BY <1>9, Changes, StageType DEF MapDevices, VmStates, Tasks, Failures, BuildPcs, Columns
  <2> QED
    BY <1>9, <2>1 DEF MapDevices, Alone
<1>10. CASE MarkSpawning(i)
  <2>1. \A j \in Instances \ {i} :
           /\ row'[j] = row[j] /\ dirty'[j] = dirty[j] /\ failure'[j] = failure[j]
           /\ pc'[j] = pc[j]
    BY <1>10, Changes, StageType DEF MarkSpawning, VmStates, Tasks, Failures, BuildPcs, Columns
  <2> QED
    BY <1>10, <2>1 DEF MarkSpawning, Alone
<1>11. CASE Spawn(i)
  BY <1>11 DEF Spawn, TypeOK, Locked, Alone
<1>12. ASSUME NEW kind \in {"abort", "retry"}, NEW left \in BOOLEAN, SpawnFails(i, kind, left)
       PROVE  Alone(i)
  BY <1>12 DEF SpawnFails, TypeOK, Locked, Alone
<1>13. CASE Activate(i)
  <2>1. \A j \in Instances \ {i} :
           /\ row'[j] = row[j] /\ dirty'[j] = dirty[j] /\ failure'[j] = failure[j]
           /\ pc'[j] = pc[j]
    BY <1>13, Changes, StageType DEF Activate, VmStates, Tasks, Failures, BuildPcs, Columns
  <2> QED
    BY <1>13, <2>1 DEF Activate, Alone
<1>14. CASE CleanUp(i)
  BY <1>14 DEF CleanUp, TypeOK, Locked, Alone
<1>15. CASE CleanUpFails(i)
  BY <1>15 DEF CleanUpFails, TypeOK, Alone
<1>16. CASE Release(i)
  <2>1. dest[i] \in Hosts
    BY <1>16 DEF Release, TypeOK, Locked
  <2>2. \A j \in Instances \ {i}, h \in Hosts : j \in tracked'[h] <=> j \in tracked[h]
    <3>1. tracked' = [tracked EXCEPT ![dest[i]] = IF i \in tracked[dest[i]]
                                                  THEN tracked[dest[i]] \ {i}
                                                  ELSE tracked[dest[i]] \cup {i}]
      BY <1>16 DEF Release, Track
    <3> QED
      BY <2>1, <3>1 DEF TypeOK
  <2>3. \A j \in Instances \ {i} : row'[j] = row[j] /\ failure'[j] = failure[j] /\ pc'[j] = pc[j]
    BY <1>16 DEF Release, TypeOK
  <2>4. UNCHANGED <<elsewhere, dirty, builds>>
    BY <1>16 DEF Release
  <2> QED
    BY <2>2, <2>3, <2>4 DEF Alone
<1>17. ASSUME NEW saved \in BOOLEAN, FreeNetworks(i, saved) PROVE Alone(i)
  <2>1. \A j \in Instances \ {i} : row'[j] = row[j] /\ dirty'[j] = dirty[j]
    BY <1>17, Changes, SaveType DEF FreeNetworks
  <2> QED
    BY <1>17, <2>1 DEF FreeNetworks, TypeOK, Alone
<1>18. CASE Conclude(i)
  <2>1. \A j \in Instances \ {i} : row'[j] = row[j] /\ dirty'[j] = dirty[j]
    BY <1>18, Changes, SaveType DEF Conclude, Tasks, VmStates
  <2>2. \A j \in Instances \ {i} : pc'[j] = pc[j]
    BY <1>18 DEF Conclude, TypeOK
  <2> QED
    BY <1>18, <2>1, <2>2 DEF Conclude, Alone
<1>19. CASE Recast(i)
  BY <1>19 DEF Recast, TypeOK, Alone
<1> QED
  BY <1>1, <1>2, <1>3, <1>4, <1>5, <1>6, <1>7, <1>8, <1>9, <1>10, <1>11, <1>12, <1>13, <1>14,
     <1>15, <1>16, <1>17, <1>18, <1>19 DEF BuildStep

\* A build leaves deletes and hosts alone.
LEMMA BuildKeeps ==
    ASSUME NEW i \in Instances, BuildStep(i)
    PROVE  UNCHANGED <<up, dpc, tpc, deleted, dhost>>
BY DEF BuildStep, Schedule, ScheduleFails, Dispatch, StartBuild, ClaimFails, Claim, PrepareFails,
       AllocateNetwork, MapDevices, MarkSpawning, Spawn, SpawnFails, Activate, CleanUp,
       CleanUpFails, Release, FreeNetworks, Conclude, Recast, world, elsewhere, deletion, hypervisor

\* A step of a delete is about one instance and starts no domain.
LEMMA DeletionAlone ==
    ASSUME TypeOK, NEW i \in Instances,
           DeleteRequest(i) \/ MarkDeleting(i) \/ Delete(i) \/ Terminate(i)
    PROVE  /\ Alone(i)
           /\ UNCHANGED <<up, pc, dest, failure, tried, builds>>
           /\ \A h \in Hosts : running'[h] \subseteq running[h]
           /\ dpc'[i] = "idle" => tpc[i] # "none"
<1> USE DEF writeDb, build, placement, DeleteStep, TerminateStep
<1>1. CASE DeleteRequest(i)
  BY <1>1 DEF DeleteRequest, TypeOK, Alone
<1>2. CASE MarkDeleting(i)
  <2>1. \A j \in Instances \ {i} : row'[j] = row[j]
    BY <1>2 DEF MarkDeleting, Write, TypeOK
  <2> QED
    BY <1>2, <2>1 DEF MarkDeleting, TypeOK, Alone
<1>3. CASE Delete(i)
  <2>1. \A j \in Instances \ {i} :
           /\ row'[j] = row[j] /\ dpc'[j] = dpc[j] /\ tpc'[j] = tpc[j]
           /\ j \in deleted' <=> j \in deleted
    BY <1>3 DEF Delete, DeleteBooting, DestroyUnhosted, RefreshHost, CastTerminate, LocalFails, LocalSave, LocalDestroy,
                Write, TypeOK
  <2>2. UNCHANGED writeDb /\ dpc'[i] # "idle"
    BY <1>3 DEF Delete, DeleteBooting, DestroyUnhosted, RefreshHost, CastTerminate, LocalFails, LocalSave, LocalDestroy,
                TypeOK
  <2> QED
    BY <2>1, <2>2 DEF Alone
<1>4. CASE Shutdown(i)
  BY <1>4 DEF Shutdown, TypeOK, Alone
<1>5. CASE ShutdownFails(i)
  <2>1. \A j \in Instances \ {i} : row'[j] = row[j]
    BY <1>5 DEF ShutdownFails, Write, TypeOK
  <2> QED
    BY <1>5, <2>1 DEF ShutdownFails, TypeOK, Alone
<1>6. CASE SaveDeleted(i)
  <2>1. \A j \in Instances \ {i} : row'[j] = row[j]
    BY <1>6 DEF SaveDeleted, Write, TypeOK
  <2> QED
    BY <1>6, <2>1 DEF SaveDeleted, TypeOK, Alone
<1>7. CASE Destroy(i)
  <2>1. \A j \in Instances \ {i} : row'[j] = row[j] /\ (j \in deleted' <=> j \in deleted)
    BY <1>7 DEF Destroy, Write, TypeOK
  <2>2. \A j \in Instances \ {i}, h \in Hosts : j \in tracked'[h] <=> j \in tracked[h]
    <3>1. thost[i] \in Hosts
      BY <1>7 DEF Destroy, TypeOK
    <3>2. tracked' = tracked \/ tracked' = [tracked EXCEPT ![thost[i]] = tracked[thost[i]] \ {i}]
      BY <1>7 DEF Destroy, Track
    <3>3. CASE tracked' = [tracked EXCEPT ![thost[i]] = tracked[thost[i]] \ {i}]
      BY <3>1, <3>3 DEF TypeOK
    <3> QED
      BY <3>2, <3>3
  <2> QED
    BY <1>7, <2>1, <2>2 DEF Destroy, TypeOK, Alone
<1> QED
  BY <1>1, <1>2, <1>3, <1>4, <1>5, <1>6, <1>7 DEF Terminate


------------------------------------------------------------------------------
(* The parts of the invariant for the instance that takes a step.           *)

\* A build goes to a host it has not tried.
LEMMA BuildAttempted ==
    ASSUME TypeOK, Attempted, NEW i \in Instances, BuildStep(i)
    PROVE  AttemptedOf(i)'
<1> USE DEF GoTo, Raise, elsewhere, hypervisor
<1>0. AttemptedOf(i) /\ Retries' = Retries
  BY DEF Attempted, Retries
<1>1. ASSUME NEW h \in Hosts, Schedule(i, h) PROVE AttemptedOf(i)'
  BY <1>0, <1>1 DEF Schedule, Candidates, TypeOK, AttemptedOf
<1>2. CASE Dispatch(i)
  <2>1. CASE GoTo(i, "done") /\ UNCHANGED <<request, tried, obj, dirty>>
    BY <1>0, <1>2, <2>1 DEF Dispatch, TypeOK, AttemptedOf
  <2>2. CASE /\ tried' = [tried EXCEPT ![i] = IF Retries THEN @ \cup {dest[i]} ELSE @]
             /\ GoTo(i, "sent")
    <3>1. dest[i] \in Hosts
      BY <1>2 DEF Dispatch, TypeOK
    <3> QED
      BY <1>0, <1>2, <2>2, <3>1 DEF Dispatch, TypeOK, AttemptedOf
  <2> QED
    BY <1>2, <2>1, <2>2 DEF Dispatch
<1>3. CASE StartBuild(i)
  <2>1. dest[i] \in Hosts /\ dest' = dest /\ tried' = tried
    BY <1>3 DEF StartBuild, TypeOK
  <2>2. CASE builds' = [builds EXCEPT ![i][dest[i]] = @ + 1] /\ pc' = [pc EXCEPT ![i] = "claim"]
    <3>1. /\ builds'[i] = [builds[i] EXCEPT ![dest[i]] = 1]
          /\ builds[i] \in [Hosts -> 0 .. MaxAttempts]
      <4>1. builds[i][dest[i]] = 0
        BY <1>0, <1>3 DEF StartBuild, AttemptedOf
      <4>2. builds \in [Instances -> [Hosts -> 0 .. MaxAttempts]]
        BY DEF TypeOK
      <4>3. builds' = [builds EXCEPT ![i] = [builds[i] EXCEPT ![dest[i]] = builds[i][dest[i]] + 1]]
        BY <2>2
      <4> QED
        BY <4>1, <4>2, <4>3
    <3>2. Retries => dest[i] \in tried[i]
      BY <1>0, <1>3 DEF StartBuild, AttemptedOf
    <3> QED
      BY <1>0, <2>1, <2>2, <3>1, <3>2 DEF TypeOK, AttemptedOf
  <2>3. CASE builds' = builds /\ pc' = [pc EXCEPT ![i] = "done"]
    BY <1>0, <2>1, <2>3 DEF TypeOK, AttemptedOf
  <2> QED
    BY <1>3, <2>2, <2>3 DEF StartBuild
<1>4. CASE Recast(i) \/ Conclude(i) \/ ScheduleFails(i)
  BY <1>0, <1>4 DEF Recast, Conclude, ScheduleFails, TypeOK, AttemptedOf
<1>5. ASSUME UNCHANGED <<builds, tried, dest>>,
             pc'[i] \notin {"conductor", "placed", "sent", "recast"}
      PROVE  AttemptedOf(i)'
  BY <1>0, <1>5 DEF AttemptedOf
<1>6. CASE \/ ClaimFails(i) \/ Claim(i) \/ AllocateNetwork(i) \/ MapDevices(i) \/ MarkSpawning(i)
           \/ \E kind \in {"abort", "retry"} : PrepareFails(i, kind)
  BY <1>5, <1>6 DEF ClaimFails, Claim, AllocateNetwork, MapDevices, MarkSpawning, PrepareFails,
                    Stage, TypeOK
<1>7. CASE \/ Spawn(i) \/ Activate(i) \/ CleanUp(i) \/ CleanUpFails(i) \/ Release(i)
           \/ \E kind \in {"abort", "retry"}, left \in BOOLEAN : SpawnFails(i, kind, left)
           \/ \E saved \in BOOLEAN : FreeNetworks(i, saved)
  BY <1>5, <1>7 DEF Spawn, Activate, CleanUp, CleanUpFails, Release, SpawnFails, FreeNetworks,
                    Stage, TypeOK
<1> QED
  BY <1>1, <1>2, <1>3, <1>4, <1>6, <1>7 DEF BuildStep

\* A build has a domain only on its own host, in the stages that have one.
LEMMA BuildDomains ==
    ASSUME TypeOK, Domains, NEW i \in Instances, BuildStep(i)
    PROVE  DomainsOf(i)'
<1> USE DEF GoTo, Raise, elsewhere, hypervisor, world
<1>0. DomainsOf(i)
  BY DEF Domains
<1>1. ASSUME NEW h \in Hosts, Schedule(i, h) PROVE DomainsOf(i)'
  BY <1>0, <1>1 DEF Schedule, TypeOK, DomainsOf, Locked
<1>2. CASE ScheduleFails(i) \/ Dispatch(i) \/ StartBuild(i) \/ Recast(i)
  BY <1>0, <1>2 DEF ScheduleFails, Dispatch, StartBuild, Recast, TypeOK, DomainsOf, Locked
<1>3. CASE \/ ClaimFails(i) \/ Claim(i) \/ AllocateNetwork(i) \/ MapDevices(i) \/ MarkSpawning(i)
           \/ \E kind \in {"abort", "retry"} : PrepareFails(i, kind)
  <2>1. UNCHANGED <<dest, up, running>> /\ pc[i] \in Locked
        /\ pc[i] \notin {"active", "cleanup", "done", "release", "networks", "conclude"}
    BY <1>3 DEF ClaimFails, Claim, AllocateNetwork, MapDevices, MarkSpawning, PrepareFails, Locked
  <2> QED
    BY <1>0, <2>1 DEF DomainsOf
<1>4. CASE Spawn(i)
  BY <1>0, <1>4 DEF Spawn, TypeOK, DomainsOf, Locked
<1>5. ASSUME NEW kind \in {"abort", "retry"}, NEW left \in BOOLEAN, SpawnFails(i, kind, left)
      PROVE  DomainsOf(i)'
  BY <1>0, <1>5 DEF SpawnFails, TypeOK, DomainsOf, Locked
<1>6. CASE Activate(i)
  BY <1>0, <1>6 DEF Activate, Stage, TypeOK, DomainsOf, Locked
<1>7. CASE CleanUp(i)
  BY <1>0, <1>7 DEF CleanUp, TypeOK, DomainsOf, Locked
<1>8. CASE CleanUpFails(i)
  BY <1>0, <1>8 DEF CleanUpFails, TypeOK, DomainsOf, Locked
<1>9. CASE Release(i)
  BY <1>0, <1>9 DEF Release, TypeOK, DomainsOf, Locked
<1>10. ASSUME NEW saved \in BOOLEAN, FreeNetworks(i, saved) PROVE DomainsOf(i)'
  BY <1>0, <1>10 DEF FreeNetworks, TypeOK, DomainsOf, Locked
<1>11. CASE Conclude(i)
  BY <1>0, <1>11 DEF Conclude, TypeOK, DomainsOf, Locked
<1> QED
  BY <1>1, <1>2, <1>3, <1>4, <1>5, <1>6, <1>7, <1>8, <1>9, <1>10, <1>11 DEF BuildStep


\* No save of an instance that nobody deletes is refused.
LEMMA NotRefused ==
    ASSUME NEW i \in Instances, NEW expected, i \notin deleted, row[i].task \in expected
    PROVE  Refusal(i, expected) = "none"
BY DEF Refusal

\* A save of an instance nobody deletes is not refused.
LEMMA KeptSave ==
    ASSUME TypeOK, NEW i \in Instances, i \notin deleted, dirty[i] = {},
           NEW v \in VmStates, NEW t \in Tasks,
           NEW expected, NEW next, NEW kind, NEW unwind,
           row[i].task \in expected, Stage(i, expected, [vm |-> v, task |-> t], next, kind, unwind)
    PROVE  /\ row'[i].vm = v /\ row'[i].task = t /\ row'[i].host = row[i].host
           /\ dirty'[i] = {} /\ pc'[i] = next /\ failure' = failure
<1>1. Save(i, [vm |-> v, task |-> t]) /\ GoTo(i, next) /\ UNCHANGED failure
  BY NotRefused DEF Stage
<1>2. dirty'[i] = {} /\ \A f \in Columns : row'[i][f] = IF f \in DOMAIN [vm |-> v, task |-> t]
                                             THEN [vm |-> v, task |-> t][f] ELSE row[i][f]
  BY <1>1, Changes, SaveType
<1>3. row'[i].vm = v /\ row'[i].task = t /\ row'[i].host = row[i].host
  BY <1>2 DEF Columns
<1> QED
  BY <1>1, <1>2, <1>3 DEF GoTo, TypeOK

\* A build that is not deleted finds the row as it left it.
LEMMA BuildKept ==
    ASSUME TypeOK, Domains, NEW i \in Instances, Untouched(i), Follows(i), BuildStep(i)
    PROVE  /\ Untouched(i)' /\ Follows(i)'
           /\ Claim(i) \/ row'[i].host \in {row[i].host, NULL}
<1> USE DEF GoTo, Raise, KeepObject, elsewhere, hypervisor, world, placement
<1>0. /\ UNCHANGED <<up, dpc, tpc, deleted>>
      /\ row[i] \in Rows /\ row[i].host \in Hosts \cup {NULL}
      /\ DomainsOf(i)
  BY BuildKeeps DEF TypeOK, Rows, Domains
<1>1. ASSUME NEW h \in Hosts, Schedule(i, h) PROVE
      Untouched(i)' /\ Follows(i)' /\ row'[i].host \in {row[i].host, NULL}
  BY <1>0, <1>1 DEF Schedule, TypeOK, Untouched, Follows
<1>2. CASE ScheduleFails(i)
  <2>1. row'[i] = Assigned(row[i], [vm |-> "error", task |-> NULL])
    BY <1>2 DEF ScheduleFails, TypeOK, Untouched
  <2>2. row'[i].vm = "error" /\ row'[i].task = NULL /\ row'[i].host = row[i].host
    <3> DEFINE c == [vm |-> "error", task |-> NULL]
    <3>1. Change(c)
      BY Changes DEF VmStates, Tasks
    <3>2. \A f \in Columns : row'[i][f] = IF f \in DOMAIN c THEN c[f] ELSE row[i][f]
      BY <1>0, <2>1, <3>1, AssignedType
    <3> QED
      BY <3>2 DEF Columns
  <2> QED
    BY <1>0, <1>2, <2>2 DEF ScheduleFails, TypeOK, Untouched, Follows
<1>3. CASE Dispatch(i)
  <2>1. (pc'[i] = "done" /\ dirty'[i] = dirty[i]) \/ (pc'[i] = "sent" /\ dirty'[i] = {})
    BY <1>3 DEF Dispatch, TypeOK
  <2> QED
    BY <1>0, <1>3, <2>1 DEF Dispatch, Untouched, Follows
<1>4. CASE StartBuild(i)
  <2>1. Refusal(i, {"scheduling", NULL}) = "none"
    BY <1>4, NotRefused DEF StartBuild, Untouched
  <2>2. Save(i, [vm |-> "building", task |-> NULL]) /\ pc'[i] = "claim"
    BY <1>4, <2>1 DEF StartBuild, TypeOK
  <2>3. dirty'[i] = {} /\ row'[i].vm = "building" /\ row'[i].task = NULL
                       /\ row'[i].host = row[i].host
    <3> DEFINE c == [vm |-> "building", task |-> NULL]
    <3>1. Change(c)
      BY Changes DEF VmStates, Tasks
    <3>2. /\ dirty'[i] = {}
          /\ \A f \in Columns : row'[i][f] = IF f \in DOMAIN c THEN c[f] ELSE row[i][f]
      BY <2>2, <3>1, SaveType DEF Untouched
    <3> QED
      BY <3>2 DEF Columns
  <2> QED
    BY <1>0, <1>4, <2>2, <2>3 DEF StartBuild, Untouched, Follows
<1>5. CASE ClaimFails(i)
  BY <1>0, <1>5 DEF ClaimFails, TypeOK, Untouched, Follows
<1>6. CASE Claim(i)
  <2>1. dest[i] \in Hosts /\ Change([host |-> dest[i]])
    BY <1>6, Changes DEF Claim, TypeOK, Locked
  <2>2. Save(i, [host |-> dest[i]]) /\ pc'[i] = "network" /\ i \in tracked'[dest[i]]
    BY <1>6, <2>1 DEF Claim, TypeOK, Untouched, Track
  <2>3. dirty'[i] = {} /\ row'[i].vm = row[i].vm /\ row'[i].task = row[i].task
                       /\ row'[i].host = dest[i]
    BY <2>1, <2>2, SaveType DEF Untouched, Columns
  <2> QED
    BY <1>0, <1>6, <2>2, <2>3 DEF Claim, Untouched, Follows
<1>7. ASSUME NEW kind \in {"abort", "retry"}, PrepareFails(i, kind)
      PROVE  Untouched(i)' /\ Follows(i)' /\ row'[i].host \in {row[i].host, NULL}
  BY <1>0, <1>7 DEF PrepareFails, TypeOK, Untouched, Follows
<1>8. CASE AllocateNetwork(i)
  <2>1. dest[i] \in Hosts
    BY <1>8 DEF AllocateNetwork, TypeOK, Locked
  <2>2. tracked' = tracked
    BY <1>8, <2>1 DEF AllocateNetwork, Track, TypeOK
  <2>3. CASE Stage(i, {NULL}, [vm |-> "building", task |-> "networking"],
                   "mapping", "abort", "release")
    <3>1. /\ row'[i].vm = "building" /\ row'[i].task = "networking" /\ row'[i].host = row[i].host
          /\ dirty'[i] = {} /\ pc'[i] = "mapping"
      BY <1>8, <2>3, KeptSave DEF AllocateNetwork, Untouched, VmStates, Tasks
    <3> QED
      BY <1>0, <1>8, <2>2, <3>1 DEF AllocateNetwork, Untouched, Follows
  <2>4. CASE GoTo(i, "mapping") /\ KeepObject
    BY <1>0, <1>8, <2>2, <2>4 DEF AllocateNetwork, TypeOK, Untouched, Follows
  <2> QED
    BY <1>8, <2>3, <2>4 DEF AllocateNetwork
<1>9. CASE MapDevices(i)
  <2>1. row[i].task \in Tasks
    BY <1>0 DEF Rows
  <2>2. /\ row'[i].vm = "building" /\ row'[i].task = "mapping" /\ row'[i].host = row[i].host
        /\ dirty'[i] = {} /\ pc'[i] = "spawning"
    BY <1>9, <2>1, KeptSave DEF MapDevices, Untouched, VmStates, Tasks
  <2> QED
    BY <1>0, <1>9, <2>2 DEF MapDevices, Untouched, Follows
<1>10. CASE MarkSpawning(i)
  <2>1. /\ row'[i].vm = "building" /\ row'[i].task = "spawning" /\ row'[i].host = row[i].host
        /\ dirty'[i] = {} /\ pc'[i] = "spawn"
    BY <1>10, KeptSave DEF MarkSpawning, Untouched, VmStates, Tasks
  <2> QED
    BY <1>0, <1>10, <2>1 DEF MarkSpawning, Untouched, Follows
<1>11. CASE Spawn(i)
  BY <1>0, <1>11 DEF Spawn, TypeOK, Untouched, Follows, Locked
<1>12. ASSUME NEW kind \in {"abort", "retry"}, NEW left \in BOOLEAN, SpawnFails(i, kind, left)
       PROVE  Untouched(i)' /\ Follows(i)' /\ row'[i].host \in {row[i].host, NULL}
  BY <1>0, <1>12 DEF SpawnFails, TypeOK, Untouched, Follows, Locked
<1>13. CASE Activate(i)
  <2>1. /\ row'[i].vm = "active" /\ row'[i].task = NULL /\ row'[i].host = row[i].host
        /\ dirty'[i] = {} /\ pc'[i] = "done"
    BY <1>13, KeptSave DEF Activate, Untouched, VmStates, Tasks
  <2>2. row[i].host = dest[i] /\ dest[i] \in Hosts /\ i \in running[dest[i]]
    BY <1>13 DEF Activate, Follows, TypeOK, Locked
  <2> QED
    BY <1>0, <1>13, <2>1, <2>2 DEF Activate, Untouched, Follows
<1>14. CASE CleanUp(i)
  BY <1>0, <1>14 DEF CleanUp, TypeOK, Untouched, Follows, Locked
<1>15. CASE CleanUpFails(i)
  BY <1>0, <1>15 DEF CleanUpFails, TypeOK, Untouched, Follows, Locked
<1>16. CASE Release(i)
  <2>1. row' = [row EXCEPT ![i].host = NULL] /\ pc'[i] = "networks"
    BY <1>16 DEF Release, TypeOK, Untouched
  <2>2. row'[i].host = NULL /\ row'[i].vm = row[i].vm /\ row'[i].task = row[i].task
    BY <1>0, <2>1 DEF TypeOK, Rows
  <2>3. NULL \notin up
    BY DEF TypeOK
  <2> QED
    BY <1>0, <1>16, <2>1, <2>2, <2>3 DEF Release, Untouched, Follows
<1>17. ASSUME NEW saved \in BOOLEAN, FreeNetworks(i, saved)
       PROVE  Untouched(i)' /\ Follows(i)' /\ row'[i].host \in {row[i].host, NULL}
  <2>1. dirty'[i] = {} /\ row'[i].vm = row[i].vm /\ row'[i].task = row[i].task
                       /\ row'[i].host = row[i].host
    <3>1. CASE Save(i, [f \in {} |-> NULL])
      BY <3>1, Changes, SaveType DEF Untouched, Columns
    <3>2. CASE KeepObject
      BY <3>2 DEF Untouched
    <3> QED
      BY <1>17, <3>1, <3>2 DEF FreeNetworks
  <2> QED
    BY <1>0, <1>17, <2>1 DEF FreeNetworks, TypeOK, Untouched, Follows
<1>18. CASE Conclude(i)
  <2>0. NULL \notin up
    BY DEF TypeOK
  <2>1. CASE KeepObject /\ GoTo(i, "done")
    BY <1>0, <1>18, <2>1 DEF Conclude, TypeOK, Untouched, Follows
  <2>2. CASE Save(i, [host |-> NULL, task |-> "scheduling"]) /\ GoTo(i, "recast")
    <3>1. dirty'[i] = {} /\ row'[i].vm = row[i].vm /\ row'[i].task = "scheduling"
                         /\ row'[i].host = NULL
      <4> DEFINE c == [host |-> NULL, task |-> "scheduling"]
      <4>1. Change(c)
        BY Changes DEF Tasks
      <4>2. /\ dirty'[i] = {}
            /\ \A f \in Columns : row'[i][f] = IF f \in DOMAIN c THEN c[f] ELSE row[i][f]
        BY <2>2, <4>1, SaveType DEF Untouched
      <4> QED
        BY <4>2 DEF Columns
    <3>2. pc'[i] = "recast"
      BY <2>2 DEF TypeOK
    <3> QED
      BY <1>0, <1>18, <2>0, <3>1, <3>2 DEF Conclude, Untouched, Follows
  <2>3. CASE Save(i, [host |-> NULL, vm |-> "error", task |-> NULL]) /\ GoTo(i, "done")
    <3>1. dirty'[i] = {} /\ row'[i].vm = "error" /\ row'[i].task = NULL /\ row'[i].host = NULL
      <4> DEFINE c == [host |-> NULL, vm |-> "error", task |-> NULL]
      <4>1. Change(c)
        BY Changes DEF VmStates, Tasks
      <4>2. /\ dirty'[i] = {}
            /\ \A f \in Columns : row'[i][f] = IF f \in DOMAIN c THEN c[f] ELSE row[i][f]
        BY <2>3, <4>1, SaveType DEF Untouched
      <4> QED
        BY <4>2 DEF Columns
    <3>2. pc'[i] = "done"
      BY <2>3 DEF TypeOK
    <3> QED
      BY <1>0, <1>18, <2>0, <3>1, <3>2 DEF Conclude, Untouched, Follows
  <2> QED
    BY <1>18, <2>1, <2>2, <2>3 DEF Conclude
<1>19. CASE Recast(i)
  BY <1>0, <1>19 DEF Recast, TypeOK, Untouched, Follows
<1> QED
  BY <1>1, <1>2, <1>3, <1>4, <1>5, <1>6, <1>7, <1>8, <1>9, <1>10, <1>11, <1>12, <1>13, <1>14,
     <1>15, <1>16, <1>17, <1>18, <1>19 DEF BuildStep


------------------------------------------------------------------------------
(* The invariant holds after every step of an instance.                     *)

\* The other instances keep their parts of the invariant.
LEMMA AloneKeeps ==
    ASSUME TypeOK, Attempted, Domains, KeptFollows, NEW i \in Instances, Alone(i), up' = up
    PROVE  \A j \in Instances \ {i} :
              /\ AttemptedOf(j)' /\ DomainsOf(j)'
              /\ dpc'[j] = "idle" => Untouched(j)' /\ Follows(j)'
<1> SUFFICES ASSUME NEW j \in Instances \ {i}
             PROVE  /\ AttemptedOf(j)' /\ DomainsOf(j)'
                    /\ dpc'[j] = "idle" => Untouched(j)' /\ Follows(j)'
  OBVIOUS
<1>1. AttemptedOf(j) /\ DomainsOf(j) /\ (dpc[j] = "idle" => Untouched(j) /\ Follows(j))
  BY DEF Attempted, Domains, KeptFollows, Kept
<1>2. AttemptedOf(j)'
  BY <1>1 DEF Alone, AttemptedOf, Retries
<1>3. DomainsOf(j)'
  BY <1>1 DEF Alone, DomainsOf
<1>4. dpc'[j] = "idle" => Untouched(j)'
  BY <1>1 DEF Alone, Untouched
<1>5. ASSUME dpc'[j] = "idle" PROVE Follows(j)'
  BY <1>1, <1>5 DEF Alone, Follows, TypeOK, Locked
<1> QED
  BY <1>2, <1>3, <1>4, <1>5

\* The instances nobody deletes on a host.
Guests(h) == {i \in Instances : Kept(i) /\ row[i].host = h}

\* A host that gets no guest is not overbooked.
LEMMA GuestsFit ==
    ASSUME NotOverbooked, NEW h \in Hosts, Guests(h)' \subseteq Guests(h)
    PROVE  Cardinality(Guests(h)') <= Capacity
<1>1. IsFiniteSet(Guests(h)) /\ Cardinality(Guests(h)) <= Capacity
  BY FiniteInstances, FS_Subset DEF NotOverbooked, Guests
<1>2. IsFiniteSet(Guests(h)') /\ Cardinality(Guests(h)') <= Cardinality(Guests(h))
  BY <1>1, FS_Subset
<1>3. Cardinality(Guests(h)') \in Nat /\ Cardinality(Guests(h)) \in Nat
  BY <1>1, <1>2, FS_CardinalityType
<1> QED
  BY <1>1, <1>2, <1>3


\* A claim is granted only if what the tracker counts leaves room, and it counts
\* all the guests of a host that is up.
LEMMA ClaimFits ==
    ASSUME BuildInv, NEW i \in Instances, Claim(i), Alone(i), UNCHANGED dpc,
           NEW h \in Hosts
    PROVE  Cardinality(Guests(h)') <= Capacity
<1> USE DEF BuildInv
<1>1. dest[i] \in Hosts /\ dest[i] \in up /\ tracked[dest[i]] \in SUBSET Instances
  BY DEF Claim, TypeOK, Locked, Domains, DomainsOf
<1>2. IsFiniteSet(tracked[dest[i]]) /\ Cardinality(tracked[dest[i]]) \in Nat
  BY <1>1, FiniteInstances, FS_Subset, FS_CardinalityType
<1>3. CASE h = dest[i]
  <2>1. Guests(h)' \subseteq tracked[h] \cup {i}
    <3> SUFFICES ASSUME NEW j \in Guests(h)', j # i PROVE j \in tracked[h]
      OBVIOUS
    <3>1. j \in Instances /\ dpc[j] = "idle" /\ row[j].host = h
      BY DEF Guests, Kept, Alone
    <3>2. Follows(j)
      BY <3>1 DEF KeptFollows, Kept
    <3> QED
      BY <1>1, <1>3, <3>1, <3>2 DEF Follows
  <2>2. /\ IsFiniteSet(tracked[h] \cup {i}) /\ Cardinality(tracked[h] \cup {i}) \in Nat
        /\ Cardinality(tracked[h] \cup {i}) <= Cardinality(tracked[h]) + 1
    <3>1. /\ IsFiniteSet(tracked[h] \cup {i})
          /\ Cardinality(tracked[h] \cup {i}) =
                IF i \in tracked[h] THEN Cardinality(tracked[h]) ELSE Cardinality(tracked[h]) + 1
      BY <1>2, <1>3, FS_AddElement
    <3> QED
      BY <1>2, <1>3, <3>1
  <2>3. /\ Cardinality(Guests(h)') <= Cardinality(tracked[h] \cup {i})
        /\ Cardinality(Guests(h)') \in Nat
    BY <2>1, <2>2, FS_Subset, FS_CardinalityType
  <2>4. Cardinality(tracked[h]) + 1 <= Capacity
    BY <1>3 DEF Claim
  <2> QED
    BY <1>2, <1>3, <2>2, <2>3, <2>4
<1>4. CASE h # dest[i]
  <2>1. Kept(i) => row'[i].host = dest[i]
    <3>1. Change([host |-> dest[i]])
      BY <1>1, Changes
    <3> SUFFICES ASSUME Kept(i) PROVE row'[i].host = dest[i]
      OBVIOUS
    <3>2. i \notin deleted /\ dirty[i] = {}
      BY DEF KeptFollows, Untouched
    <3>3. Save(i, [host |-> dest[i]])
      BY <3>2 DEF Claim
    <3> QED
      BY <3>1, <3>2, <3>3, SaveType DEF Columns
  <2>2. Guests(h)' \subseteq Guests(h)
    BY <1>4, <2>1 DEF Guests, Kept, Alone
  <2> QED
    BY <2>2, GuestsFit
<1> QED
  BY <1>3, <1>4

\* Every step of a build keeps the invariant.
LEMMA BuildPreserves ==
    ASSUME BuildInv, NEW i \in Instances, BuildStep(i)
    PROVE  BuildInv'
<1> USE DEF BuildInv
<1>1. TypeOK' /\ AttemptedOf(i)' /\ DomainsOf(i)' /\ Alone(i)
  BY BuildTypes, BuildAttempted, BuildDomains, BuildAlone
<1>2. UNCHANGED <<up, dpc, tpc, deleted>>
  BY BuildKeeps
<1>3. /\ Kept(i) => Untouched(i)' /\ Follows(i)'
      /\ Kept(i) => Claim(i) \/ row'[i].host \in {row[i].host, NULL}
  BY BuildKept DEF KeptFollows
<1>4. Attempted' /\ Domains'
  BY <1>1, <1>2, AloneKeeps DEF Attempted, Domains
<1>5. KeptFollows'
  BY <1>1, <1>2, <1>3, AloneKeeps DEF KeptFollows, Kept
<1>6. ASSUME NEW h \in Hosts PROVE Cardinality(Guests(h)') <= Capacity
  <2>1. CASE Claim(i)
    BY <1>1, <1>2, <1>3, <2>1, ClaimFits
  <2>2. CASE ~Claim(i)
    <3>1. Guests(h)' \subseteq Guests(h)
      BY <1>1, <1>2, <1>3, <2>2 DEF Guests, Kept, Alone
    <3> QED
      BY <3>1, GuestsFit
  <2> QED
    BY <2>1, <2>2
<1>7. NotOverbooked'
  BY <1>6 DEF NotOverbooked, Guests
<1> QED
  BY <1>1, <1>4, <1>5, <1>7

\* Every step of a delete keeps the invariant.
LEMMA DeletionPreserves ==
    ASSUME BuildInv, NEW i \in Instances,
           DeleteRequest(i) \/ MarkDeleting(i) \/ Delete(i) \/ Terminate(i)
    PROVE  BuildInv'
<1> USE DEF BuildInv
<1>1. /\ TypeOK' /\ Alone(i)
      /\ UNCHANGED <<up, pc, dest, failure, tried, builds>>
      /\ \A h \in Hosts : running'[h] \subseteq running[h]
      /\ dpc'[i] = "idle" => tpc[i] # "none"
  BY DeletionTypes, DeletionAlone
<1>2. dpc'[i] # "idle"
  <2>1. dpc[i] = "idle" => tpc[i] = "none"
    BY DEF KeptFollows, Kept, Untouched
  <2>2. dpc'[i] = dpc[i] \/ dpc'[i] # "idle"
    BY DEF DeleteRequest, MarkDeleting, Delete, DeleteBooting, DestroyUnhosted, RefreshHost,
           CastTerminate, LocalFails, LocalSave, LocalDestroy, Terminate, Shutdown, ShutdownFails, SaveDeleted, Destroy,
           DeleteStep, TypeOK
  <2> QED
    BY <1>1, <2>1, <2>2
<1>3. AttemptedOf(i)' /\ DomainsOf(i)'
  BY <1>1 DEF Attempted, Domains, AttemptedOf, DomainsOf, Retries
<1>4. Attempted' /\ Domains'
  BY <1>1, <1>3, AloneKeeps DEF Attempted, Domains
<1>5. KeptFollows'
  BY <1>1, <1>2, AloneKeeps DEF KeptFollows, Kept
<1>6. ASSUME NEW h \in Hosts PROVE Cardinality(Guests(h)') <= Capacity
  <2>1. Guests(h)' \subseteq Guests(h)
    BY <1>1, <1>2 DEF Guests, Kept, Alone
  <2> QED
    BY <2>1, GuestsFit
<1>7. NotOverbooked'
  BY <1>6 DEF NotOverbooked, Guests
<1> QED
  BY <1>1, <1>4, <1>5, <1>7

\* Audits, crashes, restarts and the reaper keep the invariant.
LEMMA HostPreserves ==
    ASSUME BuildInv, NEW h \in Hosts,
           Audit(h) \/ Crash(h) \/ Restart(h) \/ \E i \in Instances : Reap(h, i)
    PROVE  BuildInv'
<1> USE DEF BuildInv, world, build, placement, deletion
<1>1. TypeOK'
  BY HostTypes
<1>2. UNCHANGED <<dest, failure, tried, builds, dirty, dpc>>
      /\ \A i \in Instances : row'[i].host = row[i].host
  BY RestartRows DEF Audit, Crash, Restart, Reap
<1>3. \A i \in Instances : pc'[i] = pc[i] \/ (pc'[i] = "done" /\ pc[i] \in Locked)
  BY DEF Audit, Crash, Restart, Reap, TypeOK
<1>4. Attempted'
  BY <1>2, <1>3 DEF Attempted, AttemptedOf, Retries
<1>5. \A g \in Hosts : running'[g] \subseteq running[g]
  <2>1. CASE Audit(h) \/ Crash(h) \/ \E i \in Instances : Reap(h, i)
    BY <2>1 DEF Audit, Crash, Reap, TypeOK
  <2>2. CASE Restart(h)
    <3>1. PICK S : running' = [running EXCEPT ![h] = @ \ S]
      BY <2>2 DEF Restart
    <3> QED
      BY <3>1 DEF TypeOK
  <2> QED
    BY <2>1, <2>2
<1>6. Domains'
  <2>1. CASE Crash(h)
    <3>1. up' = up \ {h}
          /\ \A i \in Instances : pc'[i] = IF pc[i] \in Locked /\ dest[i] = h THEN "done" ELSE pc[i]
      BY <2>1 DEF Crash
    <3> QED
      BY <1>2, <1>3, <1>5, <3>1 DEF Domains, DomainsOf, Locked
  <2>2. CASE ~Crash(h)
    <3>1. up \subseteq up' /\ pc' = pc
      BY <2>2 DEF Audit, Restart, Reap
    <3> QED
      BY <1>2, <1>5, <3>1 DEF Domains, DomainsOf
  <2> QED
    BY <2>1, <2>2
<1>7. ASSUME NEW i \in Instances, dpc'[i] = "idle" PROVE Untouched(i)' /\ Follows(i)'
  <2>1. Untouched(i) /\ Follows(i) /\ row[i] \in Rows
    BY <1>2, <1>7 DEF KeptFollows, Kept, TypeOK
  <2>2. CASE Audit(h)
    <3>1. tracked' = [tracked EXCEPT ![h] = Audited(h, row, deleted)]
      BY <2>2 DEF Audit, Track
    <3>2. row[i].host = h => i \in Audited(h, row, deleted)
      BY <2>1 DEF Audited, Untouched
    <3>3. row'[i].host \in up' => i \in tracked'[row'[i].host]
      BY <2>1, <2>2, <3>1, <3>2 DEF Audit, Follows, TypeOK
    <3> QED
      BY <2>1, <2>2, <3>3 DEF Audit, Untouched, Follows
  <2>3. CASE Crash(h)
    <3>1. row'[i].host \in up' => i \in tracked'[row'[i].host]
      BY <2>1, <2>3 DEF Crash, Follows, TypeOK
    <3>2. tpc'[i] = "none"
      BY <2>1, <2>3 DEF Crash, Untouched
    <3> QED
      BY <1>3, <2>1, <2>3, <3>1, <3>2 DEF Crash, Untouched, Follows
  <2>4. CASE Restart(h)
    <3>1. ~Undeleted(row[i]) /\ i \notin deleted'
      BY <2>1, <2>4 DEF Restart, Undeleted, Untouched
    <3>2. tracked' = [tracked EXCEPT ![h] = Audited(h, row', deleted')]
      BY <2>4 DEF Restart, Track
    <3>3. row'[i].vm # "deleted"
      BY <2>1, <2>4, <3>1, RestartRows DEF Untouched
    <3>4. row'[i].host = h => i \in Audited(h, row', deleted')
      BY <3>1, <3>3 DEF Audited
    <3>5. row'[i].host \in up' => i \in tracked'[row'[i].host]
      BY <1>2, <2>1, <2>4, <3>2, <3>4 DEF Restart, Follows, TypeOK
    <3>6. pc' = pc /\ tpc' = tpc
      BY <2>4 DEF Restart
    <3>7. \A g \in Hosts : i \in running[g] => i \in running'[g]
      BY <2>4, <3>1 DEF Restart, TypeOK
    <3>8. pc[i] \in Locked => row[i].host = NULL \/ (row[i].host = dest[i] /\ dest[i] # h)
      BY <2>1, <2>4 DEF Restart, Follows, Domains, DomainsOf, Locked
    <3>9. row'[i] = row[i] \/ (pc[i] = "done" /\ row'[i].task = NULL /\ row'[i].vm = "error")
      <4>1. row[i].host # h => row'[i] = row[i]
        BY <2>4 DEF Restart
      <4>2. row[i].host = h => pc[i] = "done"
        <5>1. pc[i] \in BuildPcs
          BY DEF TypeOK
        <5> QED
          BY <2>1, <3>8, <5>1 DEF Follows, BuildPcs, Locked
      <4> QED
        BY <2>4, <3>3, <4>1, <4>2, RestartRows
    <3>10. Untouched(i)'
      BY <1>2, <2>1, <3>1, <3>3, <3>6, <3>9 DEF Untouched
    <3> QED
      BY <1>2, <2>1, <3>5, <3>6, <3>7, <3>9, <3>10 DEF Follows, TypeOK, Locked
  <2>5. ASSUME NEW j \in Instances, Reap(h, j) PROVE Untouched(i)' /\ Follows(i)'
    <3>1. j # i
      BY <2>1, <2>5 DEF Reap, Untouched
    <3>2. \A g \in Hosts : i \in running'[g] <=> i \in running[g]
      BY <2>5, <3>1 DEF Reap, TypeOK
    <3> QED
      BY <2>1, <2>5, <3>2 DEF Reap, Untouched, Follows, TypeOK, Locked
  <2> QED
    BY <2>2, <2>3, <2>4, <2>5
<1>8. KeptFollows'
  BY <1>7 DEF KeptFollows, Kept
<1>9. ASSUME NEW g \in Hosts PROVE Cardinality(Guests(g)') <= Capacity
  <2>1. Guests(g)' \subseteq Guests(g)
    BY <1>2 DEF Guests, Kept
  <2> QED
    BY <2>1, GuestsFit
<1>10. NotOverbooked'
  BY <1>9 DEF NotOverbooked, Guests
<1> QED
  BY <1>1, <1>4, <1>6, <1>8, <1>10


\* Every step keeps the invariant.
LEMMA BuildInvStep == BuildInv /\ [Next]_vars => BuildInv'
<1> SUFFICES ASSUME BuildInv, [Next]_vars PROVE BuildInv'
  OBVIOUS
<1>1. CASE UNCHANGED vars
  <2>1. TypeOK'
    BY <1>1 DEF BuildInv, vars, build, placement, deletion, TypeOK
  <2>2. Attempted' /\ Domains'
    BY <1>1 DEF BuildInv, vars, build, placement, Attempted, Domains, AttemptedOf, DomainsOf,
                Retries
  <2>3. KeptFollows' /\ NotOverbooked'
    BY <1>1 DEF BuildInv, vars, build, placement, deletion, KeptFollows, NotOverbooked, Kept,
                Untouched, Follows
  <2> QED
    BY <2>1, <2>2, <2>3 DEF BuildInv
<1>2. CASE Next
  BY <1>2, BuildPreserves, DeletionPreserves, HostPreserves DEF Next
<1> QED
  BY <1>1, <1>2

\* The invariant holds at first.
LEMMA BuildInvInit == Init => BuildInv
<1> SUFFICES ASSUME Init PROVE BuildInv
  OBVIOUS
<1>1. [vm |-> "building", task |-> "scheduling", host |-> NULL] \in Rows
  BY DEF Rows, VmStates, Tasks
<1>2. TypeOK
  BY <1>1 DEF Init, TypeOK, BuildPcs, Locked
<1>3. Attempted /\ Domains
  BY DEF Init, Attempted, Domains, AttemptedOf, DomainsOf, Locked
<1>4. KeptFollows
  BY DEF Init, KeptFollows, Untouched, Follows
<1>5. ASSUME NEW h \in Hosts
      PROVE  Cardinality({i \in Instances : Kept(i) /\ row[i].host = h}) <= Capacity
  <2>1. {i \in Instances : Kept(i) /\ row[i].host = h} = {}
    BY DEF Init
  <2> QED
    BY <2>1, FS_EmptySet
<1> QED
  BY <1>2, <1>3, <1>4, <1>5 DEF BuildInv, NotOverbooked

\* The invariant holds in every behaviour.
LEMMA BuildInvariant == Spec => []BuildInv
BY BuildInvInit, BuildInvStep, PTL DEF Spec

(* Builds, deletes, audits, crashes and restarts keep every table, object   *)
(* and message typed, and a thread always has its host.                     *)
THEOREM BuildTypeCorrect == Spec => []TypeOK
<1>1. BuildInv => TypeOK
  BY DEF BuildInv
<1> QED
  BY <1>1, BuildInvariant, PTL

(* However often a build is rescheduled, it begins at most once on a host:  *)
(* the RetryFilter sees every host that was tried.                          *)
THEOREM BuildsTryOnce == Spec => []TriedOnce
<1>1. BuildInv => TriedOnce
  <2>1. BuildInv => \A i \in Instances, h \in Hosts : builds[i][h] = 0 \/ builds[i][h] = 1
    BY DEF BuildInv, Attempted, AttemptedOf
  <2> QED
    BY <2>1 DEF TriedOnce
<1> QED
  BY <1>1, BuildInvariant, PTL

(* A host whose compute service is up counts every instance of its own that *)
(* nobody deletes, whatever audits, aborted claims, reschedules and         *)
(* restarts did.                                                            *)
THEOREM OwnersStayTracked == Spec => []OwnersAreTracked
<1>1. BuildInv => OwnersAreTracked
  BY DEF BuildInv, KeptFollows, Follows, OwnersAreTracked
<1> QED
  BY <1>1, BuildInvariant, PTL

(* The claims of the resource tracker never overbook a host with instances  *)
(* nobody deletes, however old the usage is that the scheduler sees.        *)
THEOREM NeverOverbooked == Spec => []NotOverbooked
<1>1. BuildInv => NotOverbooked
  BY DEF BuildInv
<1> QED
  BY <1>1, BuildInvariant, PTL

(* No instance ever has domains on two hosts, also when builds fail, are    *)
(* rescheduled, deleted or lost in a crash.                                 *)
THEOREM RunsOnOneHost == Spec => []OneHost
<1>1. BuildInv => OneHost
  BY DEF BuildInv, Domains, DomainsOf, OneHost
<1> QED
  BY <1>1, BuildInvariant, PTL

(* An instance that is shown as active and idle, and that nobody deletes,   *)
(* runs on the host of its row.                                             *)
THEOREM ActiveMeansRunning == Spec => []ActiveRuns
<1>1. BuildInv => ActiveRuns
  BY DEF BuildInv, KeptFollows, Follows, ActiveRuns
<1> QED
  BY <1>1, BuildInvariant, PTL

==============================================================================
