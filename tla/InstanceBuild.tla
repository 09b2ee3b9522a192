----------------------------- MODULE InstanceBuild -----------------------------
(***************************************************************************)
(* Building and deleting instances in nova: the conductor asks the          *)
(* scheduler for a host and casts build_and_run_instance to it; the compute *)
(* manager claims resources, saves the instance at each stage, spawns it,   *)
(* and on failure cleans up and casts the build back to the conductor,      *)
(* while the API deletes instances, the resource tracker audits its usage   *)
(* from the database, and compute services crash and restart.               *)
(*                                                                         *)
(* Instance.save writes the columns assigned since the last successful      *)
(* save, and only then are they forgotten: what a refused save was to write *)
(* is written by the next one.  obj and dirty model that object.            *)
(***************************************************************************)
EXTENDS Integers, FiniteSets

CONSTANTS
    Instances,      \* of one flavor
    Deletable,      \* those of them that a customer may delete
    Hosts,          \* compute hosts
    Capacity,       \* instances a host has room for
    MaxAttempts,    \* scheduler_max_attempts
    MaxCrashes,     \* bound on the crashes of compute services
    NULL            \* SQL NULL, None

ASSUME BuildBounds ==
    /\ Capacity \in Nat /\ MaxAttempts \in Nat \ {0} /\ MaxCrashes \in Nat
    /\ Deletable \subseteq Instances

\* NULL is no value of the columns, and the tables are finite.
ASSUME BuildNull ==
    NULL \notin Hosts \cup {"scheduling", "networking", "mapping", "spawning", "deleting"}
ASSUME FiniteInstances == IsFiniteSet(Instances)

VARIABLES
    row, deleted,             \* table instances, and which rows are deleted
    request,                  \* instances that still have a BuildRequest
    pc, dest, tried, attempts, failure, obj, dirty,
                              \* a build: pc, host, retry information, the exception
                              \* being handled, the Instance object and its changes
    view, fresher, node,      \* scheduler's usage of each host, whether the host's row
                              \* in compute_nodes is newer, and the usage in that row
    tracked, up, running,     \* per host: tracked_instances, service up, hypervisor
    dpc, dhost,               \* API delete: pc, host of its object
    tpc, thost, tseen,        \* terminate_instance: pc, host, host column it saw
    crashes, builds, stuck,   \* history: crashes; on which hosts a build began how
                              \* often; builds whose clean-up failed
    orphans                   \* history: instances a host was at work on when it
                              \* crashed, and whose row did not show that

placement == <<view, fresher, node, tracked>>
build     == <<pc, dest, tried, attempts, failure, obj, dirty>>
deletion  == <<dpc, dhost, tpc, thost, tseen>>
vars == <<row, deleted, request, build, placement, up, running, deletion, crashes, builds,
          stuck, orphans>>

------------------------------------------------------------------------------
Columns  == {"vm", "task", "host"}
VmStates == {"building", "active", "error", "deleted"}
Tasks    == {"scheduling", "networking", "mapping", "spawning", "deleting", NULL}
Rows     == [vm : VmStates, task : Tasks, host : Hosts \cup {NULL}]
Failures == {"gone", "abort", "retry"}

BuildPcs == {"conductor", "placed", "sent", "claim", "network", "mapping", "spawning",
             "spawn", "active", "cleanup", "release", "networks", "conclude", "recast", "done"}

\* The stages that hold the lock on the uuid of the instance at their host.
Locked == {"claim", "network", "mapping", "spawning", "spawn", "active", "cleanup",
           "release", "networks", "conclude", "recast"}

TypeOK ==
    /\ row \in [Instances -> Rows]
    /\ deleted \subseteq Instances /\ request \subseteq Instances /\ stuck \subseteq Instances
    /\ orphans \subseteq Instances
    /\ pc \in [Instances -> BuildPcs]
    /\ dest \in [Instances -> Hosts \cup {NULL}]
    /\ \A i \in Instances : pc[i] \in Locked \cup {"placed", "sent"} => dest[i] \in Hosts
    /\ tried \in [Instances -> SUBSET Hosts]
    /\ attempts \in [Instances -> 0 .. MaxAttempts]
    /\ failure \in [Instances -> Failures \cup {NULL}]
    /\ obj \in [Instances -> Rows]
    /\ dirty \in [Instances -> SUBSET Columns]
    /\ view \in [Hosts -> Int] /\ node \in [Hosts -> Int] /\ fresher \in [Hosts -> BOOLEAN]
    /\ tracked \in [Hosts -> SUBSET Instances]
    /\ running \in [Hosts -> SUBSET Instances]
    /\ up \subseteq Hosts
    /\ dpc \in [Instances -> {"idle", "booting", "unhosted", "refresh", "hosted", "local",
                            "failed", "done"}]
    /\ dhost \in [Instances -> Hosts \cup {NULL}]
    /\ tpc \in [Instances -> {"none", "queued", "save", "destroy", "done"}]
    /\ thost \in [Instances -> Hosts \cup {NULL}]
    /\ \A i \in Instances : tpc[i] \in {"queued", "save", "destroy"} => thost[i] \in Hosts
    /\ tseen \in [Instances -> Hosts \cup {NULL}]
    /\ crashes \in 0 .. MaxCrashes
    /\ builds \in [Instances -> [Hosts -> 0 .. MaxAttempts]]

Init ==
    /\ row = [i \in Instances |-> [vm |-> "building", task |-> "scheduling", host |-> NULL]]
    /\ obj = row
    /\ deleted = {} /\ request = Instances /\ stuck = {} /\ orphans = {}
    /\ pc = [i \in Instances |-> "conductor"]
    /\ dest = [i \in Instances |-> NULL]
    /\ tried = [i \in Instances |-> {}]
    /\ attempts = [i \in Instances |-> 0]
    /\ failure = [i \in Instances |-> NULL]
    /\ dirty = [i \in Instances |-> {}]
    /\ view = [h \in Hosts |-> 0] /\ node = [h \in Hosts |-> 0]
    /\ fresher = [h \in Hosts |-> TRUE]
    /\ tracked = [h \in Hosts |-> {}] /\ running = [h \in Hosts |-> {}]
    /\ up = Hosts
    /\ dpc = [i \in Instances |-> "idle"] /\ dhost = [i \in Instances |-> NULL]
    /\ tpc = [i \in Instances |-> "none"]
    /\ thost = [i \in Instances |-> NULL] /\ tseen = [i \in Instances |-> NULL]
    /\ crashes = 0
    /\ builds = [i \in Instances |-> [h \in Hosts |-> 0]]

------------------------------------------------------------------------------
(* Instance objects.                                                        *)

\* c, a record with some of the columns, assigned to the columns of o.
Assigned(o, c) == [f \in Columns |-> IF f \in DOMAIN c THEN c[f] ELSE o[f]]

\* instance.save(): the changed columns are written, the object is refreshed.
Save(i, c) ==
    LET changed == dirty[i] \cup DOMAIN c
        object  == Assigned(obj[i], c)
        new     == [f \in Columns |-> IF f \in changed THEN object[f] ELSE row[i][f]]
    IN  /\ row' = [row EXCEPT ![i] = new]
        /\ obj' = [obj EXCEPT ![i] = new]
        /\ dirty' = [dirty EXCEPT ![i] = {}]

\* A save that raises: nothing is written and the changes stay in the object.
RefusedSave(i, c) ==
    /\ obj' = [obj EXCEPT ![i] = Assigned(obj[i], c)]
    /\ dirty' = [dirty EXCEPT ![i] = @ \cup DOMAIN c]
    /\ UNCHANGED row

KeepObject == UNCHANGED <<row, obj, dirty>>

\* What save(expected_task_state) raises: InstanceNotFound or
\* UnexpectedDeletingTaskStateError, told apart from UnexpectedTaskStateError.
Refusal(i, expected) ==
    CASE i \in deleted \/ (row[i].task \notin expected /\ row[i].task = "deleting") -> "gone"
      [] i \notin deleted /\ row[i].task \in expected -> "none"
      [] OTHER -> "unexpected"

GoTo(i, label) == pc' = [pc EXCEPT ![i] = label]

\* The exception under way and the stage that handles it.
Raise(i, kind, label) ==
    /\ failure' = [failure EXCEPT ![i] = kind]
    /\ GoTo(i, label)

\* The resource tracker counts S and writes compute_nodes.
Track(h, S) ==
    /\ tracked' = [tracked EXCEPT ![h] = S]
    /\ node' = [node EXCEPT ![h] = Cardinality(S)]
    /\ fresher' = [fresher EXCEPT ![h] = TRUE]

------------------------------------------------------------------------------
(* Faulty variants, substituted for the definitions below one at a time to  *)
(* confirm that the properties can fail.                                    *)

\* The audit counts the domains of the hypervisor.
AuditedRunning(h, r, gone) == running[h] \ gone

\* The filters forget the hosts already tried.
CandidatesAgain(i) == {h \in up : (IF fresher[h] THEN node[h] ELSE view[h]) + 1 <= Capacity}

\* The claim trusts the scheduler and is not tested.
ClaimUntested(i) ==
    /\ pc[i] = "claim" /\ i \notin deleted
    /\ Save(i, [host |-> dest[i]])
    /\ Track(dest[i], tracked[dest[i]] \cup {i})
    /\ GoTo(i, "network")
    /\ UNCHANGED <<deleted, request, dest, tried, attempts, failure, view, up, running,
                   deletion, crashes, orphans, builds, stuck>>

\* An error of the driver is logged and the build goes on.
SpawnErrorIgnored(i, kind, left) ==
    /\ pc[i] = "spawn"
    /\ GoTo(i, "active")
    /\ KeepObject
    /\ UNCHANGED <<deleted, request, dest, tried, attempts, failure, placement, up, running,
                   deletion, crashes, orphans, builds, stuck>>

\* A build is rescheduled although its host could not be cleaned.
CleanUpFailsRetry(i) ==
    /\ pc[i] = "cleanup"
    /\ stuck' = stuck \cup {i}
    /\ GoTo(i, "release")
    /\ KeepObject
    /\ UNCHANGED <<deleted, request, dest, tried, attempts, failure, placement, up, running,
                   deletion, crashes, orphans, builds>>

\* The host is forgotten when the build is given back.
RecastForgets(i) ==
    /\ pc[i] = "recast"
    /\ dest' = [dest EXCEPT ![i] = NULL]
    /\ Raise(i, NULL, "placed")
    /\ KeepObject
    /\ UNCHANGED <<deleted, request, tried, attempts, placement, up, running, deletion, crashes,
                   orphans, builds, stuck>>

\* The cast back to the conductor is lost.
RecastLost(i) ==
    /\ pc[i] = "recast"
    /\ Raise(i, NULL, "done")
    /\ KeepObject
    /\ UNCHANGED <<deleted, request, dest, tried, attempts, placement, up, running, deletion,
                   crashes, orphans, builds, stuck>>

\* The delete gives up when a host was set in between.
DestroyGivesUp(i) ==
    /\ dpc[i] = "unhosted"
    /\ deleted' = IF row[i].host = NULL THEN deleted \cup {i} ELSE deleted
    /\ dpc' = [dpc EXCEPT ![i] = "done"]
    /\ UNCHANGED <<row, request, build, placement, up, running, crashes, orphans, builds, stuck,
                   dhost, tpc, thost, tseen>>

------------------------------------------------------------------------------
(* Conductor and scheduler.                                                 *)

world == <<up, running, deletion, crashes, orphans, stuck>>

Retries == MaxAttempts # 1

\* What the scheduler takes host h to use: its own count, unless the row of the
\* compute node was written later.
SeenUsage(h) == IF fresher[h] THEN node[h] ELSE view[h]

\* RetryFilter, ComputeFilter and RamFilter.
Candidates(i) == {h \in up \ tried[i] : SeenUsage(h) + 1 <= Capacity}

Exhausted(i) == Retries /\ attempts[i] + 1 > MaxAttempts

\* populate_retry and select_destinations.
Schedule(i, h) ==
    /\ pc[i] = "conductor" /\ ~Exhausted(i)
    /\ h \in Candidates(i)
    /\ attempts' = [attempts EXCEPT ![i] = IF Retries THEN @ + 1 ELSE @]
    /\ view' = [view EXCEPT ![h] = SeenUsage(h) + 1]
    /\ fresher' = [fresher EXCEPT ![h] = FALSE]
    /\ dest' = [dest EXCEPT ![i] = h]
    /\ GoTo(i, "placed")
    /\ KeepObject
    /\ UNCHANGED <<deleted, request, tried, failure, node, tracked, world, builds>>

\* MaxRetriesExceeded or NoValidHost: the instance goes to ERROR.
ScheduleFails(i) ==
    /\ pc[i] = "conductor"
    /\ Exhausted(i) \/ Candidates(i) = {}
    /\ row' = IF i \in deleted THEN row
              ELSE [row EXCEPT ![i] = Assigned(@, [vm |-> "error", task |-> NULL])]
    /\ request' = request \ {i}
    /\ GoTo(i, "done")
    /\ UNCHANGED <<deleted, dest, tried, attempts, failure, obj, dirty, placement, world, builds>>

\* The instance is refreshed, its BuildRequest destroyed, the build cast; an
\* instance, or on the first attempt a BuildRequest, that is gone ends it.
Dispatch(i) ==
    /\ pc[i] = "placed"
    /\ UNCHANGED <<row, deleted, dest, attempts, failure, placement, world, builds>>
    /\ \/ /\ i \in deleted \/ (attempts[i] <= 1 /\ i \notin request)
          /\ GoTo(i, "done")
          /\ UNCHANGED <<request, tried, obj, dirty>>
       \/ /\ i \notin deleted /\ (attempts[i] > 1 \/ i \in request)
          /\ request' = request \ {i}
          /\ tried' = [tried EXCEPT ![i] = IF Retries THEN @ \cup {dest[i]} ELSE @]
          /\ obj' = [obj EXCEPT ![i] = row[i]]
          /\ dirty' = [dirty EXCEPT ![i] = {}]
          /\ GoTo(i, "sent")

------------------------------------------------------------------------------
(* build_and_run_instance on the host dest[i].                              *)

\* What the stages of a build leave alone.
elsewhere == <<deleted, request, dest, tried, attempts, world>>

\* One stage: the save of c if the task state is one of expected, and the next
\* stage; otherwise the exception is handled at unwind, as gone or as kind.
Stage(i, expected, c, next, kind, unwind) ==
    \/ /\ Refusal(i, expected) = "none"
       /\ Save(i, c)
       /\ GoTo(i, next)
       /\ UNCHANGED failure
    \/ /\ Refusal(i, expected) # "none"
       /\ RefusedSave(i, c)
       /\ Raise(i, IF Refusal(i, expected) = "gone" THEN "gone" ELSE kind, unwind)

StartBuild(i) ==
    /\ pc[i] = "sent" /\ dest[i] \in up
    /\ ~(tpc[i] \in {"save", "destroy"} /\ thost[i] = dest[i])
    /\ UNCHANGED <<elsewhere, placement, failure>>
    /\ \/ /\ Refusal(i, {"scheduling", NULL}) = "none"
          /\ Save(i, [vm |-> "building", task |-> NULL])
          /\ builds' = [builds EXCEPT ![i][dest[i]] = @ + 1]
          /\ GoTo(i, "claim")
       \/ /\ Refusal(i, {"scheduling", NULL}) # "none"
          /\ KeepObject
          /\ GoTo(i, "done")
          /\ UNCHANGED builds

\* instance_claim under the semaphore of the resource tracker.
ClaimFails(i) ==
    /\ pc[i] = "claim"
    /\ Cardinality(tracked[dest[i]]) + 1 > Capacity
    /\ Raise(i, "retry", "networks")
    /\ KeepObject
    /\ UNCHANGED <<elsewhere, placement, builds>>

Claim(i) ==
    /\ pc[i] = "claim"
    /\ Cardinality(tracked[dest[i]]) + 1 <= Capacity
    /\ UNCHANGED <<elsewhere, view, builds>>
    /\ \/ /\ i \notin deleted
          /\ Save(i, [host |-> dest[i]])
          /\ Track(dest[i], tracked[dest[i]] \cup {i})
          /\ GoTo(i, "network")
          /\ UNCHANGED failure
       \/ /\ i \in deleted
          /\ RefusedSave(i, [host |-> dest[i]])
          /\ Raise(i, "gone", "networks")
          /\ UNCHANGED <<tracked, node, fresher>>

\* _validate_instance_group_policy refuses the host, or a network or volume
\* cannot be had.
PrepareFails(i, kind) ==
    /\ pc[i] = "network" \/ (pc[i] = "spawning" /\ kind = "abort")
    /\ Raise(i, kind, "release")
    /\ KeepObject
    /\ UNCHANGED <<elsewhere, placement, builds>>

\* _allocate_network; on a later attempt the network may still be allocated.
AllocateNetwork(i) ==
    /\ pc[i] = "network"
    /\ UNCHANGED <<elsewhere, view, builds>>
    /\ \/ /\ Stage(i, {NULL}, [vm |-> "building", task |-> "networking"],
                "mapping", "abort", "release")
          /\ IF Refusal(i, {NULL}) = "none" /\ i \in tracked[dest[i]]
             THEN Track(dest[i], tracked[dest[i]])
             ELSE UNCHANGED <<tracked, node, fresher>>
       \/ /\ attempts[i] > 1
          /\ GoTo(i, "mapping")
          /\ KeepObject
          /\ UNCHANGED <<failure, tracked, node, fresher>>

\* This save expects no task state.
MapDevices(i) ==
    /\ pc[i] = "mapping"
    /\ Stage(i, Tasks, [vm |-> "building", task |-> "mapping"], "spawning", "gone", "release")
    /\ UNCHANGED <<elsewhere, placement, builds>>

MarkSpawning(i) ==
    /\ pc[i] = "spawning"
    /\ Stage(i, {"mapping"}, [vm |-> "building", task |-> "spawning"], "spawn", "retry", "cleanup")
    /\ UNCHANGED <<elsewhere, placement, builds>>

hypervisor == <<deleted, request, dest, tried, attempts, up, deletion, crashes, orphans, placement,
                builds>>

Spawn(i) ==
    /\ pc[i] = "spawn"
    /\ running' = [running EXCEPT ![dest[i]] = @ \cup {i}]
    /\ GoTo(i, "active")
    /\ KeepObject
    /\ UNCHANGED <<hypervisor, failure, stuck>>

\* The driver raises, with or without a domain left on the hypervisor.
SpawnFails(i, kind, left) ==
    /\ pc[i] = "spawn"
    /\ running' = [running EXCEPT ![dest[i]] = IF left THEN @ \cup {i} ELSE @]
    /\ Raise(i, kind, "cleanup")
    /\ KeepObject
    /\ UNCHANGED <<hypervisor, stuck>>

\* _update_instance_after_spawn and its save, no longer under the claim.
Activate(i) ==
    /\ pc[i] = "active"
    /\ Stage(i, {"spawning"}, [vm |-> "active", task |-> NULL], "done", "abort", "networks")
    /\ UNCHANGED <<elsewhere, placement, builds>>

------------------------------------------------------------------------------
(* The failure of a build, from the inside out.                             *)

\* _build_resources shuts the instance down.
CleanUp(i) ==
    /\ pc[i] = "cleanup"
    /\ running' = [running EXCEPT ![dest[i]] = @ \ {i}]
    /\ GoTo(i, "release")
    /\ KeepObject
    /\ UNCHANGED <<hypervisor, failure, stuck>>

\* The clean-up fails too: BuildAbortException, the build is not rescheduled.
CleanUpFails(i) ==
    /\ pc[i] = "cleanup"
    /\ stuck' = stuck \cup {i}
    /\ Raise(i, "abort", "release")
    /\ KeepObject
    /\ UNCHANGED <<hypervisor, running>>

\* abort_instance_claim, on the copy of the instance the claim keeps.  Usage is
\* added when the instance is not tracked (any more).
Release(i) ==
    LET h == dest[i]
        S == IF i \in tracked[h] THEN tracked[h] \ {i} ELSE tracked[h] \cup {i}
    IN  /\ pc[i] = "release"
        /\ UNCHANGED <<elsewhere, view, obj, dirty, builds>>
        /\ GoTo(i, "networks")
        /\ \/ /\ i \notin deleted
              /\ row' = [row EXCEPT ![i].host = NULL]
              /\ Track(h, S)
              /\ UNCHANGED failure
           \/ /\ i \in deleted
              /\ tracked' = [tracked EXCEPT ![h] = S]
              /\ failure' = [failure EXCEPT ![i] = "gone"]
              /\ UNCHANGED <<row, node, fresher>>

\* The networks are freed and system_metadata saved, or that fails or is not
\* needed and nothing is saved.
FreeNetworks(i, saved) ==
    /\ pc[i] = "networks"
    /\ IF saved /\ i \notin deleted THEN Save(i, [f \in {} |-> NULL]) ELSE KeepObject
    /\ GoTo(i, "conclude")
    /\ UNCHANGED <<elsewhere, placement, failure, builds>>

\* _do_build_and_run_instance reschedules, gives up on an instance that is gone,
\* or sets it to ERROR.
Conclude(i) ==
    /\ pc[i] = "conclude"
    /\ UNCHANGED <<elsewhere, placement, failure, builds>>
    /\ \/ /\ failure[i] = "gone" \/ i \in deleted
          /\ GoTo(i, "done")
          /\ KeepObject
       \/ /\ failure[i] = "retry" /\ Retries /\ i \notin deleted
          /\ Save(i, [host |-> NULL, task |-> "scheduling"])
          /\ GoTo(i, "recast")
       \/ /\ failure[i] = "abort" \/ (failure[i] = "retry" /\ ~Retries)
          /\ i \notin deleted
          /\ Save(i, [host |-> NULL, vm |-> "error", task |-> NULL])
          /\ GoTo(i, "done")

\* build_instances is cast to the conductor.
Recast(i) ==
    /\ pc[i] = "recast"
    /\ Raise(i, NULL, "conductor")
    /\ KeepObject
    /\ UNCHANGED <<elsewhere, placement, builds>>

------------------------------------------------------------------------------
(* API delete of an instance, asked at most once.                           *)

writeDb == <<request, build, placement, up, running, crashes, orphans, builds, stuck>>

\* The row of i gets the values of c.
Write(i, c) == row' = [row EXCEPT ![i] = Assigned(@, c)]

DeleteStep(i, label) == dpc' = [dpc EXCEPT ![i] = label]

\* _delete_while_booting wins the BuildRequest, then destroys the row.
DeleteRequest(i) ==
    /\ dpc[i] = "idle" /\ i \in Deletable /\ i \in request
    /\ request' = request \ {i}
    /\ DeleteStep(i, "booting")
    /\ UNCHANGED <<row, deleted, build, placement, up, running, crashes, orphans, builds, stuck,
                   dhost, tpc, thost, tseen>>

DeleteBooting(i) ==
    /\ dpc[i] = "booting"
    /\ deleted' = deleted \cup {i}
    /\ DeleteStep(i, "done")
    /\ UNCHANGED <<row, writeDb, dhost, tpc, thost, tseen>>

\* The task state is set to deleting, whatever it was.
MarkDeleting(i) ==
    /\ dpc[i] = "idle" /\ i \in Deletable \ (request \cup deleted)
    /\ Write(i, [task |-> "deleting"])
    /\ dhost' = [dhost EXCEPT ![i] = row[i].host]
    /\ DeleteStep(i, IF row[i].host = NULL THEN "unhosted" ELSE "hosted")
    /\ UNCHANGED <<deleted, writeDb, tpc, thost, tseen>>

\* instance.destroy() if the host column is still NULL.
DestroyUnhosted(i) ==
    /\ dpc[i] = "unhosted"
    /\ \/ /\ i \in deleted \/ row[i].host = NULL
          /\ deleted' = deleted \cup {i}
          /\ DeleteStep(i, "done")
       \/ /\ i \notin deleted /\ row[i].host # NULL
          /\ DeleteStep(i, "refresh")
          /\ UNCHANGED deleted
    /\ UNCHANGED <<row, writeDb, dhost, tpc, thost, tseen>>

RefreshHost(i) ==
    /\ dpc[i] = "refresh"
    /\ dhost' = [dhost EXCEPT ![i] = row[i].host]
    /\ DeleteStep(i, IF i \in deleted THEN "done" ELSE "hosted")
    /\ UNCHANGED <<row, deleted, writeDb, tpc, thost, tseen>>

CastTerminate(i) ==
    /\ dpc[i] = "hosted" /\ dhost[i] \in up
    /\ tpc' = [tpc EXCEPT ![i] = "queued"]
    /\ thost' = [thost EXCEPT ![i] = dhost[i]]
    /\ DeleteStep(i, "done")
    /\ UNCHANGED <<row, deleted, writeDb, dhost, tseen>>

\* The host is down, or unset again: the row is deleted from here.  The networks
\* cannot be freed, and the request fails ...
LocalFails(i) ==
    /\ dpc[i] = "hosted" /\ dhost[i] \notin up
    /\ DeleteStep(i, "failed")
    /\ UNCHANGED <<row, deleted, writeDb, dhost, tpc, thost, tseen>>

\* ... or the row is saved, and the object refreshed by that ...
LocalSave(i) ==
    /\ dpc[i] = "hosted" /\ dhost[i] \notin up
    /\ \/ /\ i \in deleted
          /\ DeleteStep(i, "done")
          /\ UNCHANGED <<row, dhost>>
       \/ /\ i \notin deleted
          /\ Write(i, [vm |-> "deleted", task |-> NULL])
          /\ dhost' = [dhost EXCEPT ![i] = row[i].host]
          /\ DeleteStep(i, "local")
    /\ UNCHANGED <<deleted, writeDb, tpc, thost, tseen>>

\* ... and destroyed, which fails the request if the object has no host and the
\* row was given one since.
LocalDestroy(i) ==
    LET raced == i \notin deleted /\ dhost[i] = NULL /\ row[i].host # NULL
    IN  /\ dpc[i] = "local"
        /\ deleted' = IF raced THEN deleted ELSE deleted \cup {i}
        /\ DeleteStep(i, IF raced THEN "failed" ELSE "done")
        /\ UNCHANGED <<row, writeDb, dhost, tpc, thost, tseen>>

------------------------------------------------------------------------------
(* terminate_instance on the host thost[i].                                 *)

TerminateStep(i, label) == tpc' = [tpc EXCEPT ![i] = label]

\* The lock on the uuid is free and the domain is destroyed.
Shutdown(i) ==
    /\ tpc[i] = "queued" /\ thost[i] \in up
    /\ ~(pc[i] \in Locked /\ dest[i] = thost[i])
    /\ running' = [running EXCEPT ![thost[i]] = @ \ {i}]
    /\ TerminateStep(i, "save")
    /\ UNCHANGED <<row, deleted, request, build, placement, up, dpc, dhost, thost, tseen,
                   crashes, orphans, builds, stuck>>

\* The driver cannot destroy it: ERROR, and the task state is cleared.
ShutdownFails(i) ==
    /\ tpc[i] = "queued" /\ thost[i] \in up
    /\ ~(pc[i] \in Locked /\ dest[i] = thost[i])
    /\ IF i \in deleted THEN UNCHANGED row ELSE Write(i, [vm |-> "error", task |-> NULL])
    /\ TerminateStep(i, "done")
    /\ UNCHANGED <<deleted, writeDb, dpc, dhost, thost, tseen>>

SaveDeleted(i) ==
    /\ tpc[i] = "save"
    /\ IF i \in deleted THEN UNCHANGED row ELSE Write(i, [vm |-> "deleted", task |-> NULL])
    /\ tseen' = [tseen EXCEPT ![i] = row[i].host]
    /\ TerminateStep(i, IF i \in deleted THEN "done" ELSE "destroy")
    /\ UNCHANGED <<deleted, writeDb, dpc, dhost, thost>>

\* instance.destroy(), constrained to no host if the object has none: a host
\* set since makes it raise.  Otherwise the usage is given back.
Destroy(i) ==
    LET h == thost[i]
        raced == i \notin deleted /\ tseen[i] = NULL /\ row[i].host # NULL
    IN  /\ tpc[i] = "destroy"
        /\ TerminateStep(i, "done")
        /\ IF raced THEN Write(i, [vm |-> "error", task |-> NULL]) ELSE UNCHANGED row
        /\ deleted' = IF raced THEN deleted ELSE deleted \cup {i}
        /\ IF ~raced /\ i \notin deleted /\ tseen[i] = h /\ i \in tracked[h]
           THEN Track(h, tracked[h] \ {i}) ELSE UNCHANGED <<tracked, node, fresher>>
        /\ UNCHANGED <<request, build, view, up, running, dpc, dhost, thost, tseen,
                       crashes, orphans, builds, stuck>>

------------------------------------------------------------------------------
(* Periodic tasks, crashes and restarts of a compute service.               *)

\* The instances an audit counts on host h, given the table.
Audited(h, r, gone) == {i \in Instances \ gone : r[i].host = h /\ r[i].vm # "deleted"}

\* update_available_resource recomputes the usage from the database.
Audit(h) ==
    /\ h \in up
    /\ Track(h, Audited(h, row, deleted))
    /\ UNCHANGED <<row, deleted, request, build, view, world, builds>>

\* _cleanup_running_deleted_instances.
Reap(h, i) ==
    /\ h \in up
    /\ i \in running[h] /\ i \in deleted /\ row[i].host = h
    /\ running' = [running EXCEPT ![h] = @ \ {i}]
    /\ UNCHANGED <<row, deleted, request, build, placement, up, deletion, crashes, orphans,
                   builds, stuck>>

\* _init_instance: an unfinished build goes to ERROR ...
Unbuilt(r) ==
    \/ r.vm = "building"
    \/ r.vm = "active" /\ r.task \in {"scheduling", "networking", "mapping", "spawning"}

\* ... an unfinished deletion is completed.
Undeleted(r) == r.vm = "deleted" \/ (r.vm \in {"active", "error"} /\ r.task = "deleting")

Unfinished(r) == Unbuilt(r) \/ Undeleted(r)

\* The service ends with its threads; domains and queued casts stay.
Crash(h) ==
    /\ h \in up /\ crashes < MaxCrashes
    /\ crashes' = crashes + 1
    /\ up' = up \ {h}
    /\ tracked' = [tracked EXCEPT ![h] = {}]
    /\ pc' = [i \in Instances |->
                 IF pc[i] \in Locked /\ dest[i] = h THEN "done" ELSE pc[i]]
    /\ tpc' = [i \in Instances |->
                 IF tpc[i] \in {"save", "destroy"} /\ thost[i] = h THEN "done" ELSE tpc[i]]
    /\ orphans' = orphans \cup {i \in Instances : /\ pc'[i] # pc[i] \/ tpc'[i] # tpc[i]
                                                  /\ row[i].host # h \/ ~Unfinished(row[i])}
    /\ UNCHANGED <<row, deleted, request, dest, tried, attempts, failure, obj, dirty,
                   view, fresher, node, running, dpc, dhost, thost, tseen, builds, stuck>>

\* init_host for every instance of the host, and the audit of pre_start_hook.
Restart(h) ==
    LET mine == {i \in Instances \ deleted : row[i].host = h}
        ends == {i \in mine : Undeleted(row[i])}
    IN  /\ h \notin up
        /\ up' = up \cup {h}
        /\ row' = [i \in Instances |->
                      IF i \in ends THEN Assigned(row[i], [vm |-> "deleted", task |-> NULL])
                      ELSE IF i \in mine /\ Unbuilt(row[i])
                      THEN Assigned(row[i], [vm |-> "error", task |-> NULL])
                      ELSE row[i]]
        /\ deleted' = deleted \cup ends
        /\ running' = [running EXCEPT ![h] = @ \ {i \in ends : row[i].vm # "deleted"}]
        /\ Track(h, Audited(h, row', deleted'))
        /\ UNCHANGED <<request, build, view, deletion, crashes, orphans, builds, stuck>>

------------------------------------------------------------------------------
BuildStep(i) ==
    \/ \E h \in Hosts : Schedule(i, h)
    \/ ScheduleFails(i) \/ Dispatch(i) \/ StartBuild(i) \/ ClaimFails(i) \/ Claim(i)
    \/ \E kind \in {"abort", "retry"} : PrepareFails(i, kind)
    \/ AllocateNetwork(i) \/ MapDevices(i) \/ MarkSpawning(i) \/ Spawn(i)
    \/ \E kind \in {"abort", "retry"}, left \in BOOLEAN : SpawnFails(i, kind, left)
    \/ Activate(i) \/ CleanUp(i) \/ CleanUpFails(i) \/ Release(i)
    \/ \E saved \in BOOLEAN : FreeNetworks(i, saved)
    \/ Conclude(i) \/ Recast(i)

Delete(i) ==
    DeleteBooting(i) \/ DestroyUnhosted(i) \/ RefreshHost(i) \/ CastTerminate(i)
    \/ LocalFails(i) \/ LocalSave(i) \/ LocalDestroy(i)

Terminate(i) == Shutdown(i) \/ ShutdownFails(i) \/ SaveDeleted(i) \/ Destroy(i)

Next ==
    \/ \E i \in Instances : BuildStep(i) \/ DeleteRequest(i) \/ MarkDeleting(i) \/ Delete(i)
                               \/ Terminate(i)
    \/ \E h \in Hosts : Audit(h) \/ Crash(h) \/ Restart(h) \/ \E i \in Instances : Reap(h, i)

Spec == Init /\ [][Next]_vars

\* Threads once begun go on, queued casts are delivered, a service is restarted
\* and its periodic task runs.  Nobody is made to delete, and nothing to crash.
Fairness ==
    /\ \A i \in Instances : WF_vars(BuildStep(i)) /\ WF_vars(Delete(i)) /\ WF_vars(Terminate(i))
    /\ \A h \in Hosts : WF_vars(Restart(h)) /\ \A i \in Instances : WF_vars(Reap(h, i))

FairSpec == Spec /\ Fairness

------------------------------------------------------------------------------
Kept(i) == dpc[i] = "idle"

(* An instance nobody deletes keeps its claim: while the service of its host *)
(* is up, the resource tracker counts it, whatever audits, aborted claims of  *)
(* others, reschedules and restarts do.                                       *)
OwnersAreTracked ==
    \A i \in Instances : Kept(i) /\ row[i].host \in up => i \in tracked[row[i].host]

(* The hosts are never overbooked with instances nobody deletes, although the *)
(* scheduler chooses hosts from usage that is out of date.                    *)
NotOverbooked ==
    \A h \in Hosts : Cardinality({i \in Instances : Kept(i) /\ row[i].host = h}) <= Capacity

(* No instance runs on two hosts: a build is rescheduled only after the host  *)
(* it failed on is clean.                                                     *)
OneHost == \A i \in Instances, g, h \in Hosts : i \in running[g] \cap running[h] => g = h

(* An instance that is shown as active and idle, and that nobody deletes, is  *)
(* running on the host its row names.                                         *)
ActiveRuns ==
    \A i \in Instances :
        Kept(i) /\ row[i].vm = "active" /\ row[i].task = NULL
            => row[i].host # NULL /\ i \in running[row[i].host]

(* A build is tried at most once on a host, and the attempts are bounded.     *)
TriedOnce == \A i \in Instances, h \in Hosts : builds[i][h] <= 1

Settled(i) ==
    \/ i \in deleted
    \/ row[i].vm \in {"active", "error"} /\ row[i].task = NULL
    \/ dpc[i] = "failed"

(* Every build ends in ACTIVE or ERROR or with the instance deleted, also     *)
(* when it is deleted and rescheduled at the same time, and when its host      *)
(* crashes: init_host settles it, unless the row did not name that host when   *)
(* it crashed.                                                                 *)
BuildsEnd ==
    \A i \in Instances :
        pc[i] = "conductor" ~> (pc[i] = "done" /\ Settled(i)) \/ i \in orphans

(* A delete that marked the row DELETING ends with the instance deleted or in *)
(* ERROR, or its request is answered with an error: builds that overwrite the  *)
(* mark, set the host or unset it, and a crash of the host in between do not   *)
(* lose it, unless the row did not name that host when it crashed.             *)
DeletesEnd ==
    \A i \in Instances :
        row[i].task = "deleting" ~>
            i \in deleted \/ row[i].vm = "error" \/ dpc[i] = "failed" \/ i \in orphans

(* The periodic task is there to "cleanup any instances which are erroneously *)
(* still running after having been deleted" (manager.py:6474): the domain of  *)
(* a deleted instance does not outlive it for ever, unless the clean-up of a  *)
(* failed build left it behind.                                               *)
DomainsEnd ==
    \A i \in Instances, h \in Hosts :
        i \in deleted /\ i \in running[h] ~> i \notin running[h] \/ i \in stuck

==============================================================================
