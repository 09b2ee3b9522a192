---------------------------- MODULE LiveMigration ----------------------------
(***************************************************************************)
(* Live migration of one VM: the API (compute/api.py), the conductor's     *)
(* task (conductor/manager.py, conductor/tasks/live_migrate.py), the       *)
(* compute managers of source and destination (compute/manager.py) and the *)
(* libvirt driver, with requests to delete the VM and restarts of          *)
(* nova-compute in between.                                                *)
(*                                                                         *)
(* The column host says where every later command for the VM is sent, the  *)
(* attestation service's included (attest_service.py reads it each round). *)
(* The domain itself moves when libvirt completes the copy; the column     *)
(* follows in a later step, and only if task_state is still MIGRATING.     *)
(*                                                                         *)
(* The instance directory is not shared between the hosts, so a rollback   *)
(* cleans up the destination.                                              *)
(***************************************************************************)
EXTENDS Integers

CONSTANTS
    Hosts,            \* compute hosts
    Home,             \* the one the VM was built on
    MaxMigrations,    \* bound on the migrations of the VM
    MaxRestarts,      \* bound on the restarts of nova-compute
    NULL              \* SQL NULL

ASSUME HomeAssumption ==
    Home \in Hosts /\ NULL \notin Hosts \cup {"MIGRATING", "DELETING"}
ASSUME MigrationBoundsAssumption == MaxMigrations \in Nat /\ MaxRestarts \in Nat

VARIABLES
    row,          \* the columns host, vm_state and task_state
    dom, owner,   \* the VM on each hypervisor, and the migration that brought it there
    mig, nmig,    \* table migrations, with the pc of each one's thread
    arrivals,     \* post_live_migration_at_destination casts on their way
    cleanups,     \* rollback_live_migration_at_destination casts on their way
    dpc, dhost,   \* the delete: pc, and the host it was sent to
    restarts,     \* restarts of nova-compute so far
    slips         \* history: what went wrong that nothing puts right

vars == <<row, dom, owner, mig, nmig, arrivals, cleanups, dpc, dhost, restarts, slips>>

------------------------------------------------------------------------------
Ids      == 1 .. MaxMigrations
Statuses == {"none", "accepted", "queued", "preparing", "running",
             "completed", "error", "cancelled"}
Finished == {"completed", "error", "cancelled"}
Threads  == {"pre", "copy", "post", "finish", "rollback", "undo"}
Pcs      == {"none", "conductor", "cast", "queued", "ended"} \cup Threads

Migrations == [pc : Pcs, status : Statuses, src : Hosts \cup {NULL},
               dest : Hosts \cup {NULL}, outcome : {"error", "cancelled"}]

\* Migrations are numbered as they begin, and one that was sent to its source
\* has a destination other than it.
Routed ==
    /\ \A m \in Ids : mig[m].pc # "none" => m <= nmig /\ mig[m].src \in Hosts
    /\ \A m \in Ids : mig[m].pc \in Threads \cup {"cast", "queued"} \/ m \in arrivals \cup cleanups
                         => mig[m].pc # "none" /\ mig[m].dest \in Hosts \ {mig[m].src}

Rows == [host : Hosts, vm : {"ACTIVE", "ERROR", "DELETED"},
         task : {NULL, "MIGRATING", "DELETING"}]

(* The row, the hypervisors and the table are typed, and migrations go from *)
(* one host to another.                                                     *)
TypeOK ==
    /\ row \in Rows
    /\ dom \in [Hosts -> {"none", "dir", "running"}]
    /\ owner \in [Hosts -> {0} \cup Ids]
    /\ mig \in [Ids -> Migrations]
    /\ nmig \in 0 .. MaxMigrations
    /\ arrivals \subseteq Ids /\ cleanups \subseteq Ids
    /\ dpc \in {"none", "cast", "done"}
    /\ dhost \in Hosts \cup {NULL}
    /\ dpc = "cast" => dhost \in Hosts
    /\ restarts \in 0 .. MaxRestarts
    /\ slips \subseteq {"stuck", "interrupted", "clobbered", "overtaken"}
    /\ Routed

Init ==
    /\ row = [host |-> Home, vm |-> "ACTIVE", task |-> NULL]
    /\ dom = [h \in Hosts |-> IF h = Home THEN "running" ELSE "none"]
    /\ owner = [h \in Hosts |-> 0]
    /\ mig = [m \in Ids |-> [pc |-> "none", status |-> "none", src |-> NULL, dest |-> NULL,
                             outcome |-> "error"]]
    /\ nmig = 0
    /\ arrivals = {}
    /\ cleanups = {}
    /\ dpc = "none"
    /\ dhost = NULL
    /\ restarts = 0
    /\ slips = {}

\* instance.save(expected_task_state=MIGRATING) succeeds.
Migrating == row.vm # "DELETED" /\ row.task = "MIGRATING"

\* Migration m goes on at pc with a new status, or ends.
Goes(m, pc, status) == mig' = [mig EXCEPT ![m].pc = pc, ![m].status = status]
Ends(m, status)     == Goes(m, "ended", status)

\* The instance directory is removed, and with it the disks of a VM that runs.
Wipe(h) ==
    /\ dom' = [dom EXCEPT ![h] = "none"]
    /\ slips' = IF dom[h] = "running" THEN slips \cup {"clobbered"} ELSE slips

------------------------------------------------------------------------------
(* Faulty variants, substituted to confirm that the properties can fail.    *)

\* The destination is not compared with the source.
AcceptAny(m, d) ==
    /\ mig[m].pc = "conductor"
    /\ mig[m].dest \in {NULL, d}
    /\ mig' = [mig EXCEPT ![m].pc = "cast", ![m].dest = d]
    /\ UNCHANGED <<row, dom, owner, nmig, arrivals, cleanups, dpc, dhost, restarts, slips>>

\* The host column is not updated at the destination.
ArriveKeepsHost(m, ok) ==
    /\ m \in arrivals
    /\ arrivals' = arrivals \ {m}
    /\ row' = IF Migrating THEN [row EXCEPT !.task = NULL, !.vm = IF ok THEN @ ELSE "ERROR"]
              ELSE row
    /\ UNCHANGED <<dom, owner, mig, nmig, cleanups, dpc, dhost, restarts, slips>>

\* The terminate is sent to the host the VM was built on.
DeleteAtHome ==
    /\ dpc = "none"
    /\ row.vm # "DELETED"
    /\ row' = [row EXCEPT !.task = "DELETING"]
    /\ dpc' = "cast"
    /\ dhost' = Home
    /\ slips' = IF row.task = "MIGRATING" THEN slips \cup {"overtaken"} ELSE slips
    /\ UNCHANGED <<dom, owner, mig, nmig, arrivals, cleanups, restarts>>

\* A failure after the destination was told is rolled back as well.
FinishRollsBack(m, cleaned, status) ==
    /\ mig[m].pc = "finish"
    /\ status = "completed" => cleaned
    /\ cleanups' = IF status = "error" THEN cleanups \cup {m} ELSE cleanups
    /\ Ends(m, status)
    /\ IF cleaned THEN Wipe(mig[m].src) ELSE UNCHANGED <<dom, slips>>
    /\ UNCHANGED <<row, owner, nmig, arrivals, dpc, dhost, restarts>>

\* The status is not set when the rollback is done.
UndoKeepsStatus(m) ==
    /\ mig[m].pc = "undo"
    /\ cleanups' = cleanups \cup {m}
    /\ Ends(m, mig[m].status)
    /\ UNCHANGED <<row, dom, owner, nmig, arrivals, dpc, dhost, restarts, slips>>

\* The rollback leaves the task state alone.
RollBackKeepsTask(m) ==
    /\ mig[m].pc = "rollback"
    /\ row' = row
    /\ IF Migrating THEN Goes(m, "undo", mig[m].status) ELSE Ends(m, "error")
    /\ UNCHANGED <<dom, owner, nmig, arrivals, cleanups, dpc, dhost, restarts, slips>>

------------------------------------------------------------------------------
(* The API and the conductor.                                               *)

\* live_migrate: the task state is set with a save that expects None, then
\* the conductor creates the migration.
LiveMigrate(d) ==
    /\ row.vm = "ACTIVE" /\ row.task = NULL
    /\ nmig < MaxMigrations
    /\ row' = [row EXCEPT !.task = "MIGRATING"]
    /\ nmig' = nmig + 1
    /\ mig' = [mig EXCEPT ![nmig + 1] = [pc |-> "conductor", status |-> "accepted",
                                         src |-> row.host, dest |-> d, outcome |-> "error"]]
    /\ UNCHANGED <<dom, owner, arrivals, cleanups, dpc, dhost, restarts, slips>>

\* A host without compute nodes is found out after the task state was saved.
UnknownHost ==
    /\ row.vm = "ACTIVE" /\ row.task = NULL
    /\ nmig < MaxMigrations
    /\ row' = [row EXCEPT !.task = "MIGRATING"]
    /\ slips' = slips \cup {"stuck"}
    /\ UNCHANGED <<dom, owner, mig, nmig, arrivals, cleanups, dpc, dhost, restarts>>

\* LiveMigrationTask: the requested host, or one the scheduler finds, passes
\* the checks, and the source is told.
Accept(m, d) ==
    /\ mig[m].pc = "conductor"
    /\ mig[m].dest \in {NULL, d}
    /\ d # mig[m].src
    /\ mig' = [mig EXCEPT ![m].pc = "cast", ![m].dest = d]
    /\ UNCHANGED <<row, dom, owner, nmig, arrivals, cleanups, dpc, dhost, restarts, slips>>

\* A check fails with one of the listed exceptions: the row is saved with the
\* vm_state the API read and no task.  expected_task_state is passed among the
\* values, not to save, so nothing is expected.
Refuse(m) ==
    /\ mig[m].pc = "conductor"
    /\ row' = IF row.vm = "DELETED" THEN row ELSE [row EXCEPT !.vm = "ACTIVE", !.task = NULL]
    /\ Ends(m, IF row.vm = "DELETED" THEN "accepted" ELSE "error")
    /\ UNCHANGED <<dom, owner, nmig, arrivals, cleanups, dpc, dhost, restarts, slips>>

\* Any other exception: ERROR, and the task state the API saved.
FailUnexpectedly(m) ==
    /\ mig[m].pc = "conductor"
    /\ row' = IF row.vm = "DELETED" THEN row
              ELSE [row EXCEPT !.vm = "ERROR", !.task = "MIGRATING"]
    /\ Ends(m, IF row.vm = "DELETED" THEN "accepted" ELSE "error")
    /\ slips' = slips \cup {"stuck"}
    /\ UNCHANGED <<dom, owner, nmig, arrivals, cleanups, dpc, dhost, restarts>>

------------------------------------------------------------------------------
(* The source.                                                              *)

Queue(m) ==
    /\ mig[m].pc = "cast"
    /\ Goes(m, "queued", "queued")
    /\ UNCHANGED <<row, dom, owner, nmig, arrivals, cleanups, dpc, dhost, restarts, slips>>

\* The semaphore of the source lets one migration through at a time.
Begin(m) ==
    /\ mig[m].pc = "queued"
    /\ \A n \in Ids : mig[n].pc \in Threads => mig[n].src # mig[m].src
    /\ Goes(m, "pre", "preparing")
    /\ UNCHANGED <<row, dom, owner, nmig, arrivals, cleanups, dpc, dhost, restarts, slips>>

\* pre_live_migration creates the instance directory at the destination, and
\* fails if there is one.
Prepare(m) ==
    /\ mig[m].pc = "pre"
    /\ dom[mig[m].dest] = "none"
    /\ dom' = [dom EXCEPT ![mig[m].dest] = "dir"]
    /\ owner' = [owner EXCEPT ![mig[m].dest] = m]
    /\ Goes(m, "copy", "running")
    /\ UNCHANGED <<row, nmig, arrivals, cleanups, dpc, dhost, restarts, slips>>

\* It fails, before or after it created the directory, or the call is lost.
PrepareFails(m, left) ==
    /\ mig[m].pc = "pre"
    /\ left => dom[mig[m].dest] = "none"
    /\ dom' = IF left THEN [dom EXCEPT ![mig[m].dest] = "dir"] ELSE dom
    /\ owner' = IF left THEN [owner EXCEPT ![mig[m].dest] = m] ELSE owner
    /\ Goes(m, "rollback", "error")
    /\ UNCHANGED <<row, nmig, arrivals, cleanups, dpc, dhost, restarts, slips>>

CanMove(m) == dom[mig[m].src] = "running" /\ dom[mig[m].dest] = "dir"

\* The domain is gone from the source, its directory is not.
Moved(m) == [dom EXCEPT ![mig[m].src] = "dir", ![mig[m].dest] = "running"]

\* libvirt reports the job as completed: the domain runs at the destination.
Complete(m) ==
    /\ mig[m].pc = "copy"
    /\ CanMove(m)
    /\ dom' = Moved(m)
    /\ Goes(m, "post", mig[m].status)
    /\ UNCHANGED <<row, owner, nmig, arrivals, cleanups, dpc, dhost, restarts, slips>>

\* libvirt reports it as failed, or as cancelled: by live_migrate_abort, which
\* asks for the status running, or by the monitor's timeouts.
FailOrAbort(m, outcome) ==
    /\ mig[m].pc = "copy"
    /\ mig' = [mig EXCEPT ![m].pc = "rollback", ![m].outcome = outcome]
    /\ UNCHANGED <<row, dom, owner, nmig, arrivals, cleanups, dpc, dhost, restarts, slips>>

\* The monitoring raises, while libvirt goes on or not: "nothing must be
\* recovered in this version".
MonitorRaises(m, moved) ==
    /\ mig[m].pc = "copy"
    /\ moved => CanMove(m)
    /\ dom' = IF moved THEN Moved(m) ELSE dom
    /\ Ends(m, "error")
    /\ slips' = slips \cup {"stuck"}
    /\ UNCHANGED <<row, owner, nmig, arrivals, cleanups, dpc, dhost, restarts>>

\* _post_live_migration raises before it tells the destination.
PostRaises(m) ==
    /\ mig[m].pc = "post"
    /\ Ends(m, "error")
    /\ slips' = slips \cup {"stuck"}
    /\ UNCHANGED <<row, dom, owner, nmig, arrivals, cleanups, dpc, dhost, restarts>>

\* It casts post_live_migration_at_destination ...
Post(m) ==
    /\ mig[m].pc = "post"
    /\ arrivals' = arrivals \cup {m}
    /\ Goes(m, "finish", mig[m].status)
    /\ UNCHANGED <<row, dom, owner, nmig, cleanups, dpc, dhost, restarts, slips>>

\* ... then removes the directory at the source and sets the status, or raises
\* before or after it did the former.
Finish(m, cleaned, status) ==
    /\ mig[m].pc = "finish"
    /\ status = "completed" => cleaned
    /\ Ends(m, status)
    /\ IF cleaned THEN Wipe(mig[m].src) ELSE UNCHANGED <<dom, slips>>
    /\ UNCHANGED <<row, owner, nmig, arrivals, cleanups, dpc, dhost, restarts>>

\* _rollback_live_migration saves the row first ...
RollBack(m) ==
    /\ mig[m].pc = "rollback"
    /\ row' = IF Migrating THEN [row EXCEPT !.task = NULL] ELSE row
    /\ IF Migrating THEN Goes(m, "undo", mig[m].status) ELSE Ends(m, "error")
    /\ UNCHANGED <<dom, owner, nmig, arrivals, cleanups, dpc, dhost, restarts, slips>>

\* ... then networks and volumes, the cast to the destination, the status.
Undo(m) ==
    /\ mig[m].pc = "undo"
    /\ cleanups' = cleanups \cup {m}
    /\ Ends(m, IF mig[m].status = "error" THEN "error" ELSE mig[m].outcome)
    /\ UNCHANGED <<row, dom, owner, nmig, arrivals, dpc, dhost, restarts, slips>>

UndoFails(m) ==
    /\ mig[m].pc = "undo"
    /\ Ends(m, "error")
    /\ UNCHANGED <<row, dom, owner, nmig, arrivals, cleanups, dpc, dhost, restarts, slips>>

------------------------------------------------------------------------------
(* The destination.                                                         *)

\* post_live_migration_at_destination saves the row, also when the driver
\* failed; a row that is no longer MIGRATING refuses the save.
Arrive(m, ok) ==
    /\ m \in arrivals
    /\ arrivals' = arrivals \ {m}
    /\ row' = IF Migrating THEN [row EXCEPT !.host = mig[m].dest, !.task = NULL,
                                            !.vm = IF ok THEN @ ELSE "ERROR"] ELSE row
    /\ UNCHANGED <<dom, owner, mig, nmig, cleanups, dpc, dhost, restarts, slips>>

\* It raises before that, setting up the networks.
ArriveRaises(m) ==
    /\ m \in arrivals
    /\ arrivals' = arrivals \ {m}
    /\ slips' = slips \cup {"stuck"}
    /\ UNCHANGED <<row, dom, owner, mig, nmig, cleanups, dpc, dhost, restarts>>

\* rollback_live_migration_at_destination destroys the VM it finds there, and
\* removes the directory.
CleanUp(m) ==
    /\ m \in cleanups
    /\ cleanups' = cleanups \ {m}
    /\ Wipe(mig[m].dest)
    /\ UNCHANGED <<row, owner, mig, nmig, arrivals, dpc, dhost, restarts>>

------------------------------------------------------------------------------
(* What happens meanwhile.                                                  *)

\* delete: allowed in every state, sent to the host of the row.
Delete ==
    /\ dpc = "none"
    /\ row.vm # "DELETED"
    /\ row' = [row EXCEPT !.task = "DELETING"]
    /\ dpc' = "cast"
    /\ dhost' = row.host
    /\ slips' = IF row.task = "MIGRATING" THEN slips \cup {"overtaken"} ELSE slips
    /\ UNCHANGED <<dom, owner, mig, nmig, arrivals, cleanups, restarts>>

\* terminate_instance
Terminate ==
    /\ dpc = "cast"
    /\ dpc' = "done"
    /\ dom' = [dom EXCEPT ![dhost] = "none"]
    /\ row' = [row EXCEPT !.vm = "DELETED", !.task = NULL]
    /\ UNCHANGED <<owner, mig, nmig, arrivals, cleanups, dhost, restarts, slips>>

\* nova-compute restarts on h: its threads are gone, libvirt finishes a copy
\* or not, casts it had taken from its queue are lost, and _init_instance
\* takes a VM that is MIGRATING and has h in its row for one that is there.
Restart(h, moved, taken) ==
    LET lost == {m \in Ids : mig[m].src = h /\ mig[m].pc \in Threads \cup {"queued"}}
        copy == {m \in lost : mig[m].pc = "copy" /\ CanMove(m)}
        casts == {m \in Ids : taken /\ mig[m].dest = h}
        reset == row.host = h /\ row.vm = "ACTIVE" /\ row.task = "MIGRATING"
    IN  /\ restarts < MaxRestarts
        /\ restarts' = restarts + 1
        /\ moved => copy # {}
        /\ dom' = IF moved THEN Moved(CHOOSE m \in copy : TRUE) ELSE dom
        /\ mig' = [m \in Ids |-> IF m \in lost THEN [mig[m] EXCEPT !.pc = "ended"] ELSE mig[m]]
        /\ arrivals' = arrivals \ casts
        /\ cleanups' = cleanups \ casts
        /\ row' = IF reset THEN [row EXCEPT !.task = NULL] ELSE row
        /\ slips' = IF reset \/ lost # {} \/ arrivals \cap casts # {}
                    THEN slips \cup {"interrupted"} ELSE slips
        /\ UNCHANGED <<owner, nmig, dpc, dhost>>

------------------------------------------------------------------------------
Conductor(m) == (\E d \in Hosts : Accept(m, d)) \/ Refuse(m) \/ FailUnexpectedly(m)

Source(m) ==
    \/ Queue(m)
    \/ Begin(m)
    \/ Prepare(m)
    \/ \E left \in BOOLEAN : PrepareFails(m, left)
    \/ Complete(m)
    \/ \E outcome \in {"error", "cancelled"} : FailOrAbort(m, outcome)
    \/ \E moved \in BOOLEAN : MonitorRaises(m, moved)
    \/ PostRaises(m)
    \/ Post(m)
    \/ \E cleaned \in BOOLEAN, status \in {"completed", "error"} : Finish(m, cleaned, status)
    \/ RollBack(m)
    \/ Undo(m)
    \/ UndoFails(m)

Destination(m) == (\E ok \in BOOLEAN : Arrive(m, ok)) \/ ArriveRaises(m)

Next ==
    \/ \E d \in Hosts \cup {NULL} : LiveMigrate(d)
    \/ UnknownHost
    \/ \E m \in Ids : Conductor(m) \/ Source(m) \/ Destination(m) \/ CleanUp(m)
    \/ Delete
    \/ Terminate
    \/ \E h \in Hosts, moved, taken \in BOOLEAN : Restart(h, moved, taken)

Spec == Init /\ [][Next]_vars

\* The conductor finishes a task it began, a thread of the source runs,
\* libvirt's job ends (a copy that makes no progress is aborted), and a cast
\* to the destination is delivered.
Fairness == \A m \in Ids :
    WF_vars(Conductor(m)) /\ WF_vars(Source(m)) /\ WF_vars(Destination(m))

FairSpec == Spec /\ Fairness

------------------------------------------------------------------------------
(* Whenever the row says that the VM is active and idle, the VM runs on the *)
(* host of the row and nowhere else, through every failure of a migration   *)
(* on either side; exempt are a restart that lost a migration and a late    *)
(* removal of the directory of a VM that came back.                         *)
RunsOnItsHost ==
    row.vm = "ACTIVE" /\ row.task = NULL /\ slips \cap {"interrupted", "clobbered"} = {} =>
        {h \in Hosts : dom[h] = "running"} = {row.host}

(* A deleted VM runs nowhere, unless the delete came during a migration or  *)
(* a restart lost one.                                                      *)
DeletedRunsNowhere ==
    row.vm = "DELETED" /\ slips \cap {"interrupted", "overtaken"} = {} =>
        \A h \in Hosts : dom[h] # "running"

(* What _post_live_migration at the source and the rollback at the          *)
(* destination remove is never the VM their own migration moved or failed   *)
(* to move: only one that a later migration brought to that host can be     *)
(* hit, short of a restart.                                                 *)
SparesItsOwnVM ==
    "interrupted" \notin slips =>
        /\ \A m \in cleanups : dom[mig[m].dest] = "running" => owner[mig[m].dest] > m
        /\ \A m \in Ids : mig[m].pc = "finish" /\ dom[mig[m].src] = "running" =>
                              owner[mig[m].src] > m

(* Every migration ends with a final status, unless a restart of the source *)
(* lost it or the VM was deleted before the conductor could say so.         *)
MigrationsEnd ==
    \A m \in Ids : mig[m].status = "accepted" ~>
        mig[m].status \in Finished \/ row.vm = "DELETED" \/ "interrupted" \in slips

(* The VM does not stay MIGRATING, unless the API, the conductor, the       *)
(* source or the destination failed where nothing puts the task state back, *)
(* or a restart lost the cast to the destination.                           *)
MigratingEnds ==
    row.task = "MIGRATING" ~>
        row.task # "MIGRATING" \/ slips \cap {"stuck", "interrupted"} # {}

==============================================================================
