--------------------------------- MODULE Quotas ---------------------------------
(***************************************************************************)
(* Quotas of nova.  A request that creates, restores or deletes an instance *)
(* reserves a delta, changes the table instances, and commits or rolls back *)
(* the reservation, each in a transaction of its own; reservations that are *)
(* left over expire.  One flavor stands for instances, cores and ram, and a *)
(* request is for one instance.  The build itself is in InstanceBuild: here *)
(* the conductor takes the BuildRequest, a host is claimed, and it is done. *)
(***************************************************************************)
EXTENDS Integers, FiniteSets, FiniteSetsExt

CONSTANTS
    Users,                  \* of one project
    Instances, Owner,       \* and the user each of them belongs to
    ProjectLimit, UserLimit,\* quotas; a negative one is unlimited
    Slots,                  \* delete requests that may overlap, {1} or {1, 2}
    Soft,                   \* instances that are soft-deleted
    Stranded,               \* instances whose host may be down
    Early,                  \* instances that may be deleted while they boot
    MaxFaults               \* bound on requests that die, fail or outlast their
                            \* reservation, and on outages of hosts

ASSUME QuotasAssumption ==
    /\ Owner \in [Instances -> Users]
    /\ ProjectLimit \in Int /\ UserLimit \in Int /\ MaxFaults \in Nat
    /\ 1 \in Slots
    /\ Soft \cup Stranded \cup Early \subseteq Instances

\* The rows of a user can be counted, and the users of a project summed over.
ASSUME FiniteInstances == IsFiniteSet(Instances)
ASSUME FiniteUsers == IsFiniteSet(Users)

VARIABLES
    inUse, reserved, live,  \* table quota_usages, and the reservations not deleted
    row, request,           \* table instances, BuildRequests
    booted,                 \* instances the conductor has taken
    cpc, del, rpc,          \* create, delete and restore requests; a delete keeps the
                            \* instance as it read it
    reclaiming, up,         \* read by _reclaim_queued_deletes; hosts that are up, by instance
    due, stale, value,      \* reservation_expire under way: the reservations it read that
                            \* are still there, the users whose usage it is to
                            \* overwrite, and the amounts it is to write
    slips, late, garbled,   \* history: instances whose usage a fault has lost, instances
                            \* whose delete never gives it back, users of whom an
                            \* expiry has overwritten a concurrent update, and the
    faults                  \* number of faults

usage  == <<inUse, reserved, live, due>>
table  == <<row, request, booted>>
expiry == <<stale, value, garbled>>
others == <<reclaiming, up, expiry, late, faults>>
vars   == <<usage, table, cpc, del, rpc, others, slips>>

------------------------------------------------------------------------------
Requests == {"create", "delete", "restore"} \X Instances \X Slots

\* The delta of the reservation of request p, and whose usage it is about.
Delta(p) == IF p[1] = "delete" THEN -1 ELSE 1
User(p)  == Owner[p[2]]

Creating(i)    == <<"create", i, 1>>
Restoring(i)   == <<"restore", i, 1>>
Deleting(i, n) == <<"delete", i, n>>

Vms   == {"building", "active", "error", "soft", "deleted", "gone"}
Tasks == {"scheduling", "deleting", "softdeleting", "restoring", "none"}
Rows  == [vm : Vms, task : Tasks, hosted : BOOLEAN]

NewRow == [vm |-> "building", task |-> "scheduling", hosted |-> FALSE]
Gone   == [vm |-> "gone", task |-> "none", hosted |-> FALSE]
rows   == {i \in Instances : row[i].vm # "gone"}

Idle == [pc |-> "idle", kind |-> "hard", obj |-> Gone]

CreatePcs == {"new", "reserved", "created", "undone", "exists", "refused", "dead"}
Deletes   == Instances \X Slots
DeletePcs == {"idle", "booting", "halted", "settle", "discard", "mark", "reserve", "unhosted",
              "hosted", "cast", "local", "destroy", "commit", "rollback"}

TypeOK ==
    /\ inUse \in [Users -> Int] /\ reserved \in [Users -> Int]
    /\ \A u \in Users \ garbled : reserved[u] >= 0
    /\ live \subseteq Requests /\ due \subseteq live
    /\ stale \subseteq Users /\ value \in [Users -> Int] /\ garbled \subseteq Users
    /\ row \in [Instances -> Rows]
    /\ request \subseteq Instances /\ booted \subseteq Instances
    /\ cpc \in [Instances -> CreatePcs]
    /\ del \in [Deletes -> [pc : DeletePcs, kind : {"hard", "soft"}, obj : Rows]]
    /\ rpc \in [Instances -> {"idle", "reserved", "commit", "rollback"}]
    /\ reclaiming \subseteq Instances /\ up \subseteq Instances
    /\ slips \subseteq Instances /\ late \subseteq Instances
    /\ faults \in 0 .. MaxFaults

Init ==
    /\ inUse = [u \in Users |-> 0] /\ reserved = [u \in Users |-> 0] /\ live = {}
    /\ due = {} /\ stale = {} /\ value = [u \in Users |-> 0] /\ garbled = {}
    /\ row = [i \in Instances |-> Gone] /\ request = {} /\ booted = {}
    /\ cpc = [i \in Instances |-> "new"]
    /\ del = [d \in Deletes |-> Idle]
    /\ rpc = [i \in Instances |-> "idle"]
    /\ reclaiming = {} /\ up = Instances /\ slips = {} /\ late = {} /\ faults = 0

------------------------------------------------------------------------------
(* Faulty variants, substituted for the definitions below one at a time to  *)
(* confirm that the properties can fail.                                    *)

\* A rollback forgets what was reserved.
RollbackForgets(p) == live' = live \ {p} /\ due' = due \ {p} /\ UNCHANGED <<inUse, reserved>>

\* A reservation is given back whether or not it has expired.
CommitAnyway(p) ==
    /\ live' = live \ {p} /\ due' = due \ {p}
    /\ reserved' = [reserved EXCEPT ![User(p)] = IF Delta(p) >= 0 THEN @ - Delta(p) ELSE @]
    /\ inUse' = [inUse EXCEPT ![User(p)] = @ + Delta(p)]

\* The outstanding reservations are not counted.
OverUsed(u) ==
    \/ ProjectLimit >= 0 /\ ProjectLimit < 1 + MapThenSumSet(LAMBDA v : inUse[v], Users)
    \/ UserLimit >= 0 /\ UserLimit < 1 + inUse[u]

\* The delete of an instance without a host does not commit its reservation.
DestroyUncommitted(i, n) ==
    /\ del[<<i, n>>].pc = "unhosted"
    /\ row' = IF row[i].hosted THEN row ELSE [row EXCEPT ![i] = Gone]
    /\ del' = [del EXCEPT ![<<i, n>>].pc = IF row[i].hosted THEN "hosted" ELSE "rollback"]
    /\ UNCHANGED <<usage, request, booted, cpc, rpc, others, slips>>

\* The usage of a soft-deleted instance is given back once more.
CastCounts(i, n) ==
    /\ del[<<i, n>>].pc = "hosted" /\ i \in up
    /\ del' = [del EXCEPT ![<<i, n>>].pc =
                  IF del[<<i, n>>].obj.task \in {"deleting", "softdeleting"} THEN "rollback" ELSE "cast"]
    /\ UNCHANGED <<usage, table, cpc, rpc, others, slips>>

------------------------------------------------------------------------------
(* The transactions on quota_usages and reservations.                       *)

\* in_use after _refresh_quota_usages_if_needed: a negative one is counted anew.
Refreshed(u) ==
    IF inUse[u] < 0 THEN Cardinality({i \in rows : Owner[i] = u}) ELSE inUse[u]

Refresh(u) == [inUse EXCEPT ![u] = Refreshed(u)]

\* The totals of the project are read before the refresh.
Total == MapThenSumSet(LAMBDA u : inUse[u] + reserved[u], Users)

Over(u) ==
    \/ ProjectLimit >= 0 /\ ProjectLimit < 1 + Total
    \/ UserLimit >= 0 /\ UserLimit < 1 + Refreshed(u) + reserved[u]

\* quota_reserve: only a positive delta is counted as reserved.  Its reservation
\* is none of those that an expiry has read.
Reserve(p) ==
    /\ live' = live \cup {p} /\ due' = due \ {p}
    /\ reserved' = [reserved EXCEPT ![User(p)] = IF Delta(p) > 0 THEN @ + Delta(p) ELSE @]
    /\ inUse' = Refresh(User(p))

\* A reservation that is gone is left alone.
Rollback(p) ==
    /\ live' = live \ {p} /\ due' = due \ {p}
    /\ reserved' = [reserved EXCEPT ![User(p)] =
                       IF p \in live /\ Delta(p) >= 0 THEN @ - Delta(p) ELSE @]
    /\ UNCHANGED inUse

Commit(p) ==
    /\ live' = live \ {p} /\ due' = due \ {p}
    /\ reserved' = [reserved EXCEPT ![User(p)] =
                       IF p \in live /\ Delta(p) >= 0 THEN @ - Delta(p) ELSE @]
    /\ inUse' = [inUse EXCEPT ![User(p)] = IF p \in live THEN @ + Delta(p) ELSE @]

\* The request that made the reservation is no more; a delete under way that has
\* not reserved yet is a later one.
Dead(p) ==
    \/ p[1] = "create" /\ cpc[p[2]] = "dead"
    \/ p[1] = "delete" /\ del[<<p[2], p[3]>>].pc \in {"idle", "booting", "halted", "mark", "reserve"}

\* The reservations among E that count as reserved for user u.
Positive(E, u) == {p \in E : User(p) = u /\ Delta(p) > 0}

\* reservation_expire, the periodic task of the scheduler, one transaction.  It
\* reads the expired reservations E and the usages without locking them and
\* computes the amounts to write ...
ExpireRead(E) ==
    /\ due = {} /\ stale = {} /\ E # {}
    /\ due' = E
    /\ stale' = {u \in Users : Positive(E, u) # {}}
    /\ value' = [u \in Users |-> IF Positive(E, u) = {} THEN 0
                                 ELSE reserved[u] - Cardinality(Positive(E, u))]
    /\ \/ (\A p \in E : Dead(p)) /\ UNCHANGED faults
       \/ (\E p \in E : ~Dead(p)) /\ faults < MaxFaults /\ faults' = faults + 1
    /\ UNCHANGED <<inUse, reserved, live, table, cpc, del, rpc, reclaiming, up, slips, late, garbled>>

\* ... and then writes them, whatever they have become, and deletes those of E
\* that are left.  A request under way that loses its reservation slips past the
\* quota; so does what an overwritten amount no longer covers.
ExpireWrite ==
    /\ due # {} \/ stale # {}
    /\ live' = live \ due
    /\ reserved' = [u \in Users |-> IF u \in stale THEN value[u] ELSE reserved[u]]
    /\ garbled' = garbled \cup
                     {u \in stale : value[u] # reserved[u] - Cardinality(Positive(due, u))}
    /\ slips' = slips \cup {p[2] : p \in {q \in due : Delta(q) > 0}}
                     \cup {i \in Instances : Owner[i] \in garbled'}
    /\ late' = late \cup {p[2] : p \in {q \in due : Delta(q) < 0 /\ ~Dead(q)}}
    /\ due' = {} /\ stale' = {} /\ value' = [u \in Users |-> 0]
    /\ UNCHANGED <<inUse, table, cpc, del, rpc, reclaiming, up, faults>>

------------------------------------------------------------------------------
(* Creation: API._provision_instances, then conductor and compute.          *)

requests == <<del, rpc>>

StartCreate(i) ==
    /\ cpc[i] = "new"
    /\ UNCHANGED <<table, requests, others, slips>>
    /\ \/ /\ ~Over(Owner[i])
          /\ Reserve(Creating(i))
          /\ cpc' = [cpc EXCEPT ![i] = "reserved"]
       \/ /\ Over(Owner[i])
          /\ inUse' = Refresh(Owner[i])
          /\ cpc' = [cpc EXCEPT ![i] = "refused"]
          /\ UNCHANGED <<reserved, live, due>>

\* The BuildRequest and the row of the instance.
CreateRow(i) ==
    /\ cpc[i] = "reserved"
    /\ request' = request \cup {i}
    /\ row' = [row EXCEPT ![i] = NewRow]
    /\ cpc' = [cpc EXCEPT ![i] = "created"]
    /\ UNCHANGED <<usage, booted, requests, others, slips>>

\* An exception: what was created is destroyed, then the quota rolled back.
CreateFails(i) ==
    /\ cpc[i] \in {"reserved", "created"}
    /\ request' = request \ {i}
    /\ row' = [row EXCEPT ![i] = Gone]
    /\ cpc' = [cpc EXCEPT ![i] = "undone"]
    /\ UNCHANGED <<usage, booted, requests, others, slips>>

RollbackCreate(i) ==
    /\ cpc[i] = "undone"
    /\ Rollback(Creating(i))
    /\ cpc' = [cpc EXCEPT ![i] = "refused"]
    /\ UNCHANGED <<table, requests, others, slips>>

CommitCreate(i) ==
    /\ cpc[i] = "created"
    /\ Commit(Creating(i))
    /\ cpc' = [cpc EXCEPT ![i] = "exists"]
    /\ UNCHANGED <<table, requests, others, slips>>

\* An API process dies and leaves its reservation.
CrashCreate(i) ==
    /\ cpc[i] \in {"reserved", "created", "undone"} /\ faults < MaxFaults
    /\ faults' = faults + 1
    /\ cpc' = [cpc EXCEPT ![i] = "dead"]
    /\ UNCHANGED <<usage, table, requests, reclaiming, up, expiry, late, slips>>

\* The conductor destroys the BuildRequest, and stops if it is gone.
Boot(i) ==
    /\ cpc[i] = "exists" /\ i \in request /\ i \in rows
    /\ request' = request \ {i}
    /\ booted' = booted \cup {i}
    /\ UNCHANGED <<usage, row, cpc, requests, others, slips>>

\* The compute manager claims a host ...
ClaimHost(i) ==
    /\ i \in booted \cap rows /\ ~row[i].hosted
    /\ row' = [row EXCEPT ![i].hosted = TRUE]
    /\ UNCHANGED <<usage, request, booted, cpc, requests, others, slips>>

\* ... and the instance becomes active, unless a delete preempts the build.
Activate(i) ==
    /\ i \in rows /\ row[i].hosted /\ row[i].vm = "building" /\ row[i].task = "scheduling"
    /\ row' = [row EXCEPT ![i].vm = "active", ![i].task = "none"]
    /\ UNCHANGED <<usage, request, booted, cpc, requests, others, slips>>

------------------------------------------------------------------------------
(* API._delete of instance i by request n, and the compute side of it.      *)

\* The request goes on, with the instance read anew, or ends.
DeleteGets(i, n, obj, label) ==
    del' = [del EXCEPT ![<<i, n>>] =
               IF label = "idle" THEN Idle ELSE [@ EXCEPT !.pc = label, !.obj = obj]]

DeleteTo(i, n, label) == DeleteGets(i, n, del[<<i, n>>].obj, label)

unread == <<cpc, rpc, others, slips>>

\* The API reads an instance whose creation was answered.
Read(i, n, kind) ==
    /\ del[<<i, n>>].pc = "idle" /\ cpc[i] = "exists" /\ i \in rows
    /\ i \in Early \cup booted
    /\ kind = "soft" => i \in Soft /\ row[i].vm # "building"
    /\ del' = [del EXCEPT ![<<i, n>>] = [kind |-> kind, obj |-> row[i],
                    pc |-> IF row[i].hosted THEN "mark" ELSE "booting"]]
    /\ UNCHANGED <<usage, table, unread>>

\* _delete_while_booting: the BuildRequest is won, or the instance looked up.
DeleteRequest(i, n) ==
    /\ del[<<i, n>>].pc = "booting"
    /\ UNCHANGED <<usage, row, booted, unread>>
    /\ \/ /\ i \in request
          /\ request' = request \ {i}
          /\ DeleteTo(i, n, "halted")
       \/ /\ i \notin request
          /\ DeleteGets(i, n, row[i], IF i \in rows THEN "mark" ELSE "idle")
          /\ UNCHANGED request

\* The build is halted: the usage is given back, then the row is destroyed.
ReserveHalted(i, n) ==
    /\ del[<<i, n>>].pc = "halted"
    /\ Reserve(Deleting(i, n))
    /\ DeleteTo(i, n, "settle")
    /\ UNCHANGED <<table, unread>>

CommitHalted(i, n) ==
    /\ del[<<i, n>>].pc = "settle"
    /\ Commit(Deleting(i, n))
    /\ DeleteTo(i, n, "discard")
    /\ UNCHANGED <<table, unread>>

DestroyHalted(i, n) ==
    /\ del[<<i, n>>].pc = "discard"
    /\ row' = [row EXCEPT ![i] = Gone]
    /\ DeleteTo(i, n, "idle")
    /\ UNCHANGED <<usage, request, booted, unread>>

\* The task state is saved whatever it was, and the object refreshed by that;
\* the original task state is kept.
Mark(i, n) ==
    /\ del[<<i, n>>].pc = "mark"
    /\ UNCHANGED <<usage, request, booted, unread>>
    /\ \/ /\ i \in rows
          /\ row' = [row EXCEPT ![i].task =
                        IF del[<<i, n>>].kind = "soft" THEN "softdeleting" ELSE "deleting"]
          /\ DeleteGets(i, n, [row[i] EXCEPT !.task = del[<<i, n>>].obj.task], "reserve")
       \/ /\ i \notin rows
          /\ DeleteTo(i, n, "idle")
          /\ UNCHANGED row

ReserveDelete(i, n) ==
    /\ del[<<i, n>>].pc = "reserve"
    /\ Reserve(Deleting(i, n))
    /\ DeleteTo(i, n, IF del[<<i, n>>].obj.hosted THEN "hosted" ELSE "unhosted")
    /\ UNCHANGED <<table, unread>>

\* instance.destroy(), constrained to rows without a host.
DestroyUnhosted(i, n) ==
    /\ del[<<i, n>>].pc = "unhosted"
    /\ UNCHANGED <<usage, request, booted, unread>>
    /\ \/ /\ i \notin rows
          /\ DeleteTo(i, n, "rollback")
          /\ UNCHANGED row
       \/ /\ i \in rows /\ ~row[i].hosted
          /\ row' = [row EXCEPT ![i] = Gone]
          /\ DeleteTo(i, n, "commit")
       \/ /\ i \in rows /\ row[i].hosted
          /\ DeleteGets(i, n, [row[i] EXCEPT !.task = del[<<i, n>>].obj.task], "hosted")
          /\ UNCHANGED row

\* The host is up: the request is ignored if another delete is under way, or
\* cast to the host; a soft-deleted instance gave its usage back before.
CastDelete(i, n) ==
    /\ del[<<i, n>>].pc = "hosted" /\ i \in up
    /\ UNCHANGED <<table, unread>>
    /\ \/ /\ del[<<i, n>>].obj.task \in {"deleting", "softdeleting"}
          /\ DeleteTo(i, n, "rollback")
          /\ UNCHANGED usage
       \/ /\ del[<<i, n>>].obj.task \notin {"deleting", "softdeleting"}
          /\ IF del[<<i, n>>].obj.vm = "soft" THEN Rollback(Deleting(i, n)) ELSE UNCHANGED usage
          /\ DeleteTo(i, n, "cast")

\* The host is down: _local_delete, whatever the state was.
LocalDelete(i, n) ==
    /\ del[<<i, n>>].pc = "hosted" /\ i \notin up
    /\ row' = IF i \in rows
              THEN [row EXCEPT ![i].vm = IF del[<<i, n>>].kind = "soft" THEN "soft" ELSE "deleted",
                               ![i].task = "none"]
              ELSE row
    /\ DeleteTo(i, n, IF i \in rows THEN "local" ELSE "rollback")
    /\ UNCHANGED <<usage, request, booted, unread>>

\* terminate_instance saves DELETED, or fails and leaves ERROR, also for an
\* instance that was soft-deleted and whose usage was given back.
Terminate(i, n, ok) ==
    /\ del[<<i, n>>].pc = "cast" /\ del[<<i, n>>].kind = "hard" /\ i \in up
    /\ row' = IF i \in rows
              THEN [row EXCEPT ![i].vm = IF ok THEN "deleted" ELSE "error", ![i].task = "none"]
              ELSE row
    /\ DeleteTo(i, n, IF ok /\ i \in rows THEN "destroy" ELSE "rollback")
    /\ slips' = IF ~ok /\ del[<<i, n>>].obj.vm = "soft" THEN slips \cup {i} ELSE slips
    /\ UNCHANGED <<usage, request, booted, cpc, rpc, others>>

\* instance.destroy() here and in _local_delete.
Destroy(i, n) ==
    /\ del[<<i, n>>].pc \in {"local", "destroy"}
    /\ row' = [row EXCEPT ![i] = Gone]
    /\ DeleteTo(i, n, IF i \in rows THEN "commit" ELSE "rollback")
    /\ UNCHANGED <<usage, request, booted, unread>>

\* soft_delete_instance, or its failure, which clears the task state.
SoftDelete(i, n, ok) ==
    /\ del[<<i, n>>].pc = "cast" /\ del[<<i, n>>].kind = "soft" /\ i \in up
    /\ UNCHANGED <<usage, request, booted, unread>>
    /\ \/ /\ ok /\ i \in rows /\ row[i].task = "softdeleting"
          /\ row' = [row EXCEPT ![i].vm = "soft", ![i].task = "none"]
          /\ DeleteTo(i, n, "commit")
       \/ /\ ~ok
          /\ row' = IF i \in rows THEN [row EXCEPT ![i].task = "none"] ELSE row
          /\ DeleteTo(i, n, "rollback")
       \/ /\ ok /\ (i \notin rows \/ row[i].task # "softdeleting")
          /\ DeleteTo(i, n, "rollback")
          /\ UNCHANGED row

EndDelete(i, n) ==
    /\ \/ del[<<i, n>>].pc = "commit" /\ Commit(Deleting(i, n))
       \/ del[<<i, n>>].pc = "rollback" /\ Rollback(Deleting(i, n))
    /\ DeleteTo(i, n, "idle")
    /\ UNCHANGED <<table, unread>>

------------------------------------------------------------------------------
(* Restoring and reclaiming soft-deleted instances.                         *)

RestoreTo(i, label) == rpc' = [rpc EXCEPT ![i] = label]

apart == <<cpc, del, others, slips>>

StartRestore(i) ==
    /\ rpc[i] = "idle" /\ i \in rows /\ row[i].vm = "soft" /\ row[i].task = "none"
    /\ UNCHANGED <<table, apart>>
    /\ \/ ~Over(Owner[i]) /\ Reserve(Restoring(i)) /\ RestoreTo(i, "reserved")
       \/ Over(Owner[i]) /\ inUse' = Refresh(Owner[i]) /\ UNCHANGED <<reserved, live, due, rpc>>

\* The task state is saved if there is none, and restore_instance cast.
MarkRestore(i) ==
    /\ rpc[i] = "reserved"
    /\ UNCHANGED <<usage, request, booted, apart>>
    /\ \/ /\ i \in rows /\ row[i].task = "none"
          /\ row' = [row EXCEPT ![i].task = "restoring"]
          /\ RestoreTo(i, "commit")
       \/ /\ i \notin rows \/ row[i].task # "none"
          /\ RestoreTo(i, "rollback")
          /\ UNCHANGED row

EndRestore(i) ==
    /\ \/ rpc[i] = "commit" /\ Commit(Restoring(i))
       \/ rpc[i] = "rollback" /\ Rollback(Restoring(i))
    /\ RestoreTo(i, "idle")
    /\ UNCHANGED <<table, apart>>

\* restore_instance on the host: when it fails the task state is cleared and
\* the usage stays committed.
RestoreInstance(i, ok) ==
    /\ i \in rows \cap up /\ row[i].task = "restoring"
    /\ row' = [row EXCEPT ![i].task = "none", ![i].vm = IF ok THEN "active" ELSE @]
    /\ UNCHANGED <<usage, request, booted, rpc, apart>>

\* _reclaim_queued_deletes reads its list, then deletes, without a reservation.
ReadReclaim(i) ==
    /\ i \in rows \cap up /\ row[i].vm = "soft" /\ row[i].task = "none"
    /\ reclaiming' = reclaiming \cup {i}
    /\ UNCHANGED <<usage, table, rpc, cpc, del, up, expiry, late, faults, slips>>

Reclaim(i) ==
    /\ i \in reclaiming \cap up
    /\ reclaiming' = reclaiming \ {i}
    /\ row' = [row EXCEPT ![i] = Gone]
    /\ UNCHANGED <<usage, request, booted, rpc, cpc, del, up, expiry, late, faults, slips>>

------------------------------------------------------------------------------
\* The service of the host of i goes down and comes back.
HostDown(i) ==
    /\ i \in Stranded /\ i \in up /\ faults < MaxFaults
    /\ faults' = faults + 1
    /\ up' = up \ {i}
    /\ UNCHANGED <<usage, table, rpc, cpc, del, reclaiming, expiry, late, slips>>

HostUp(i) ==
    /\ i \notin up
    /\ up' = up \cup {i}
    /\ UNCHANGED <<usage, table, rpc, cpc, del, reclaiming, expiry, late, faults, slips>>

\* The process that runs a delete dies.  Between the commit and the destruction
\* of a halted instance, a delete that is repeated counts it again; between the
\* destruction and the commit, the usage is never given back.
CrashDelete(i, n) ==
    /\ del[<<i, n>>].pc \notin {"idle", "cast", "destroy"} /\ faults < MaxFaults
    /\ faults' = faults + 1
    /\ slips' = IF del[<<i, n>>].pc = "discard" THEN slips \cup {i} ELSE slips
    /\ late' = IF del[<<i, n>>].pc = "commit" THEN late \cup {i} ELSE late
    /\ DeleteTo(i, n, "idle")
    /\ UNCHANGED <<usage, table, cpc, rpc, reclaiming, up, expiry>>

\* An exception on the way of a delete, such as that of a notification: the
\* reservation is rolled back, also when the row is gone already.
FailDelete(i, n) ==
    /\ del[<<i, n>>].pc \in {"unhosted", "hosted", "local", "commit"} /\ faults < MaxFaults
    /\ faults' = faults + 1
    /\ late' = IF del[<<i, n>>].pc = "commit" THEN late \cup {i} ELSE late
    /\ DeleteTo(i, n, "rollback")
    /\ UNCHANGED <<usage, table, cpc, rpc, reclaiming, up, expiry, slips>>

Create(i) ==
    CreateRow(i) \/ CreateFails(i) \/ RollbackCreate(i) \/ CommitCreate(i)

Delete(i, n) ==
    \/ DeleteRequest(i, n) \/ ReserveHalted(i, n) \/ CommitHalted(i, n) \/ DestroyHalted(i, n)
    \/ Mark(i, n) \/ ReserveDelete(i, n) \/ DestroyUnhosted(i, n)
    \/ CastDelete(i, n) \/ LocalDelete(i, n) \/ Destroy(i, n) \/ EndDelete(i, n)
    \/ \E ok \in BOOLEAN : Terminate(i, n, ok) \/ SoftDelete(i, n, ok)

Restore(i) == MarkRestore(i) \/ EndRestore(i)

Next ==
    \/ \E i \in Instances :
          \/ StartCreate(i) \/ Create(i) \/ CrashCreate(i) \/ Boot(i) \/ ClaimHost(i) \/ Activate(i)
          \/ \E n \in Slots, kind \in {"hard", "soft"} : Read(i, n, kind)
          \/ \E n \in Slots : Delete(i, n) \/ CrashDelete(i, n) \/ FailDelete(i, n)
          \/ StartRestore(i) \/ Restore(i) \/ \E ok \in BOOLEAN : RestoreInstance(i, ok)
          \/ ReadReclaim(i) \/ Reclaim(i) \/ HostDown(i) \/ HostUp(i)
    \/ \E E \in SUBSET live : ExpireRead(E)
    \/ ExpireWrite

Spec == Init /\ [][Next]_vars

------------------------------------------------------------------------------
(* What is reserved is what the outstanding reservations of creations and     *)
(* restores add up to, whatever the order in which commits, rollbacks, the    *)
(* two halves of an expiry and the requests of other users come: nothing is   *)
(* counted twice or for ever.  Excepted are users of whom an expiry, which    *)
(* does not lock what it reads, has overwritten a concurrent update.          *)
Backing(u) == Positive(live, u)
ReservedIsBacked == \A u \in Users \ garbled : reserved[u] = Cardinality(Backing(u))

\* The instances of user u that the quota is about.
Counted(u) ==
    {i \in rows : Owner[i] = u /\ row[i].vm \in {"building", "active", "error"}
                               /\ i \in request \cup booted}

(* Unless a reservation expires under its request, an expiry overwrites one,  *)
(* or a delete dies or fails where its usage was given back (slips), usage and *)
(* reservations together cover the instances there are, so that racing        *)
(* creations, deletes, restores and reclaims never hide an instance from the  *)
(* quota ("races don't cause under or over counting", db/sqlalchemy/api.py:   *)
(* 3575).                                                                     *)
UsageCovers ==
    slips = {} => \A u \in Users : Cardinality(Counted(u)) <= inUse[u] + reserved[u]

\* Nothing is reserved for user u, and none of the user's deletes is under way.
Quiet(u) ==
    /\ reserved[u] = 0
    /\ \A d \in Deletes : Owner[d[1]] = u => del[d].pc = "idle"

(* Nor is anything counted for ever that is not there: whenever the requests  *)
(* of a user are over, the usage is the number of the user's rows, also after *)
(* builds that were preempted, deletes that raced them, deletes that died or  *)
(* failed before the row was destroyed, and hosts that were down.  Excepted   *)
(* are instances that can be soft-deleted (failed restores count too much),   *)
(* deletes that outlast their reservation, and deletes that die or fail       *)
(* between the destruction of the row and the commit.                         *)
UsageExact ==
    slips = {} /\ late = {} =>
        \A u \in Users :
            Quiet(u) /\ (\A i \in Soft : Owner[i] # u)
                => inUse[u] = Cardinality({i \in rows : Owner[i] = u})

\* A user, and the project, has no more instances than allowed.
UserQuota ==
    slips = {} /\ UserLimit >= 0 => \A u \in Users : Cardinality(Counted(u)) <= UserLimit

ProjectQuota ==
    slips = {} /\ ProjectLimit >= 0 =>
        Cardinality(UNION {Counted(u) : u \in Users}) <= ProjectLimit

(* ... and so neither the project nor a user has more instances than allowed, *)
(* although limits are checked when the reservation is made and the instance  *)
(* is created later.                                                          *)
QuotaHolds == UserQuota /\ ProjectQuota

=================================================================================
