# CloudMonatt: a verification development in TLA+

CloudMonatt lets the customer of an OpenStack cloud ask that security
properties of a virtual machine be watched. A modified nova forks a process per
VM and property that attests the property again and again through an
OpenAttestation (OAT) server; an agent on the compute host measures the VM,
puts the measurement into the PCRs of a (modified, emulated) TPM, quotes them
and reports to the server, which appraises the report. The results come back
into nova's database, and the dashboard shows them. The repository carries the
OpenStack it modifies; what the attested VM lives by (its build, its quota, its
deletion, its migration to another host) is part of the program.

This directory holds TLA+ modules for the parts of that loop that keep state,
TLC configurations that check them on small instances, and TLAPS proofs of
their main safety properties for all instances. `PROJECT.json` lists the
components, the runs, the source lines behind every definition, the hazards
and the theorems.

## The system

| Component | State | Operations |
|---|---|---|
| Protection service (`nova/api/openstack/compute/servers.py`, `attest_service.py`) | columns `protection` and `protection_results` of the VM's row in `instances`; forked processes; the monitors they start inside a VM | action changeProtection (SELECT, UPDATE, one fork per newly enabled property); `attestation_service`: start monitor, re-read, attest, count a failure, stop monitor, clear the count, exit |
| Attestation requests (`HOSTResource.pollHosts`, `AttestService` of AttestationService) | table `attest_request` | file requests, loop until attested or timed out, answer; a variant with a time threshold and a background thread `CheckAttestThread` |
| Appraisal (`HisPollingWebService`, `HisWebService`, `HisReportUtil`, `HisReportValidator`, `AttestService` of HisAppraiser) | the same table, the audit log | getNextAction, getNonce, postIntegrityReport |
| Agent (`StandaloneHIS`) | the PCRs of its host | poll; fetch nonce, measure, quote, report |
| Measurement (`attestation_kernel.c`), TPM emulator (`tpm_integrity.c`) | the file `PCR_VALUE` | write the digits of one property; read a PCR from the file |
| Building and deleting instances (`nova/conductor/manager.py`, `scheduler/host_manager.py`, `compute/manager.py`, `compute/resource_tracker.py`, `compute/api.py`) | table `instances`, BuildRequests, tracked usage and compute node rows, the scheduler's view, domains on the hypervisors | schedule, claim, build, spawn, fail, reschedule, delete, terminate, audit, reap, crash and restart |
| Quotas (`nova/db/sqlalchemy/api.py`, `quota.py`, `compute/api.py`) | tables `quota_usages`, `reservations` | reserve, commit, roll back, expire; create, delete, soft delete, restore, reclaim |
| Live migration (`nova/compute/api.py`, `conductor/tasks/live_migrate.py`, `compute/manager.py`, `virt/libvirt/driver.py`) | host, vm_state and task_state of a row, table `migrations`, domains and instance directories | request, check, prepare, copy, hand over, roll back, clean up; restart |
| Property checks (`CheckIntegrity`, `CheckAvailability`, `CheckConfidentiality`) | none | from PCR digits to a verdict |
| Trusted filter of the scheduler (`trusted_filter.py`) | a cache per compute node | is this host trusted |
| Registry (`HOSTResource`, `WLMService`) | tables of hosts, MLEs, OEMs, OSs, white lists | create, update, delete, query |
| Enrollment, Privacy CA | machine certificates, keys of the TPM | take ownership, certify an identity |
| Front end (horizon, novaclient), portal, command line tools | none | forward and show |

How they interact: the dashboard sends a list of properties to nova's action;
the children it forks call PollHosts of the OAT server over HTTPS and block
until it answers; that call and the agent's web services never talk to each
other except through rows of `attest_request`; the agent and its measurement
program share the PCR file; the children of one VM share its row.

What is hard here is the shared rows. Nothing locks, nothing carries a version,
and most writes put back a whole row or a whole string that was read earlier,
sometimes minutes earlier:

* API workers and children write the two columns of a VM concurrently, each
  from its own earlier read; processes are lost to a full process table or a
  reboot, and nothing looks for them.
* The loop of `pollHosts`, `getNextAction` and `submitReport` write whole rows
  of `attest_request` over each other; a timeout races the report; reports are
  lost; a report is matched to a request by position, not by identity.
* In nova a row is protected by the task state a save expects. What is not
  covered by that save (domains, directories, usage, reservations, casts) is
  put right by later steps that race the next request.
* A measurement that fails is not noticed, so what was measured and what is
  judged can belong to different requests.

What makes the parts correct:

* Protection service: an enabled property has a process that attests it; a
  disabled one loses its process and its monitor; the count shown is a count of
  failures that happened.
* Attestation: a verdict belongs to a report, the report was made after the
  request, an answered verdict stands, a request is handed out at most once,
  every call is answered, and the measurement is that of the request.
* Life cycle: an instance runs on one host, the one of its row; a host is never
  overbooked; builds, deletes and migrations end; a deleted instance runs
  nowhere.
* Quotas: what is reserved is what reservations say, every instance is counted,
  so that the limits hold, and nothing is counted that is not there.

## Modules

| Module | What it is |
|---|---|
| `ProtectionService` | the protection service of one VM: handlers, children, monitors, reboots |
| `MCProtectionService` | its instances for TLC |
| `ProtectionServiceProofs` | its theorems |
| `OatAttestation` | the life of an attestation request: calls of PollHosts, agents, appraisal, PCRs |
| `MCOatAttestation` | its instances for TLC |
| `OatAttestationProofs` | its theorems |
| `AttestationPromise` | abstract specification: what an attestation request promises its caller |
| `OatRefinement`, `OatRefinementProofs` | the refinement mapping from `OatAttestation` to `AttestationPromise`, and its proof |
| `OatThreshold`, `MCOatThreshold` | extends `OatAttestation` by PollHosts with a time threshold and `CheckAttestThread` |
| `OatThresholdProofs` | its theorems; uses the lemmas of `OatAttestationProofs` |
| `InstanceBuild`, `MCInstanceBuild` | building and deleting instances: API, conductor, scheduler, compute managers, resource trackers, crashes |
| `InstanceBuildProofs` | its theorems |
| `Quotas`, `MCQuotas` | usage, reservations and the requests that hold them |
| `QuotaTotalProofs`, `QuotasProofs` | what the total over the users of a project covers; its theorems |
| `LiveMigration`, `MCLiveMigration` | the migrations of a VM, with deletes and restarts in between |
| `LiveMigrationProofs` | its theorems |

### ProtectionService

One VM. `protection` is NULL or the set of enabled properties (the string of
seven digits), `protection_results` NULL or a count per property (the string of
numbers joined by blanks; `Split` is the code's parse of it, which reads NULL as
zeros). Each API worker has a pc, the old and new list it works with and the
properties it has still to fork for; each slot of the process table has a pc, a
property and the snapshot its database transaction reads from.

One step is one SQL statement with its commit, one remote command or one fork.
Two details matter. First, `attestation_service` opens a transaction with its
first SELECT and reads `protection_results` later in the same one; under
InnoDB's REPEATABLE READ it therefore sees the string as it was at the first
SELECT, before the attestation. `Load` takes the snapshot, `Record` and `Reset`
write it back with one count changed. Second, nobody waits for children, so an
exited one keeps its slot (`Fork` needs a free slot, `ForkFails` happens when
there is none). A child that leaves by an exception (`ResetRaises`) continues in
the forked copy of the API's request handling; the model stops it there, in the
state "crashed", and does not count the copy as another worker.

Left out: the host column (a command goes to the VM's current host), the text of
commands, and more than one VM (VMs share no state but the process table).
Also exceptions of the MySQL calls, which end a child without a trace
(`attest_service.py:36`, `52`, `72`, `85`).
The answer of the attestation server is a choice of `Verdicts`; what it may be
is the subject of `OatAttestation`.

History variables: `fails` and `since` count failed attestations; `overlapped`,
`unserved` and `abandoned` record the losses that the properties except.

### OatAttestation

`rows` is the table `attest_request`, `nrows` its auto-increment id. A record of
`Rows` keeps the columns the control depends on: host, property (and with it
the VM), whether a machine certificate was found, next action, consumed flag,
audit log and result. Each client is a server thread in `pollHosts`, with the
copy of the row it fetched before its loop; each host has one agent, whose
variables also hold the transaction of the web service it is calling, since the
agent waits for the answer.

* `AddRequest`, `FetchRequest`, `CheckRequest`, `WriteResult`, `IsAllAttested`,
  `Respond` are the database accesses of `pollHosts` in order. `WriteResult`
  writes the copy of `FetchRequest`, not the row `CheckRequest` looked at.
* `GetFirstRequest` and `ConsumeRequest` are the read and the write of
  `getNextAction`, `DoNothing` its answer when it finds nothing.
* `GetNonce`: what to measure comes from the row whose id is the number of rows.
* `Measure` overwrites the PCRs of the property; `MeasureFails` leaves them and
  the agent goes on; `Quote` reads all PCRs and signs them with the nonce.
* `SubmitReport` picks the oldest consumed and unattested request of the host
  and appraises the report for it, `StoreVerdict` is the commit,
  `SubmitUnasked` the case with no such request.
* `AgentFails`: a lost call, a restart, an exception, an empty report. It does
  not happen while `getNextAction` or `postIntegrityReport` runs for the host, so
  a host has one transaction at a time; an agent that reconnects while its old
  call still runs on the server is left out.

What is abstracted: the outcome of verifying a quote (`valid`), of the
comparison with the white list (`white`) and of a property check (`good`) are
choices made when the quote or the measurement is made; `Appraise` combines
them as `validatePCRReport` does, in which the properties 1 to 3 replace the
outcome of the white list. The audit log is the report itself. Requests are
ordered by id where the code orders by request time (equal times are broken
arbitrarily by the database). A call names one host, as those of the protection
service do. Re-enrollment, alerts and torn writes of the PCR file are left out.
Transactions: a SELECT sees committed rows, and an UPDATE by Hibernate writes
every column (the mapping has neither `dynamic-update` nor `version`), so it
puts back what its transaction, or the thread, read.

### AttestationPromise and OatRefinement

`AttestationPromise` knows four things of a request: whether it is filed,
whether an agent was told of it, its verdict, and its answer. A request is told
at most once, gets a verdict only after that, may lose it only while its call is
unanswered, and is answered once, with the verdict it has. `OatRefinement` maps
the table onto that: the verdict is the result column if it is one of the
appraisal's, the told requests are those of `delivered`. Every whole-row write
of `OatAttestation` that puts an older row back has to map to a step or a
stutter; the loop of `pollHosts` that writes TIME_OUT over a verdict is the
step that loses one.

### OatThreshold

`wpc` and `wreq` are the `CheckAttestThread` of a request. With a threshold the
row is filed with DO_NOTHING, the last result of the host is copied into it, or
SEND_REPORT is set, or a thread is left behind; the outcome of `validateTime`
and the choice of the last result are left open. The instance begins with one
answered request of the host, since a copy needs something to copy.

### InstanceBuild

A build has the Instance object of the process that handles it: `obj` and
`dirty` are its columns and the ones changed since the last successful save,
because a save that is refused (`Refusal`: the expected task state differs)
keeps its changes and the next save writes them. `tracked`, `node` and `view`
are the three copies of a host's usage: of its resource tracker, in its row, in
the scheduler. A crash of a compute service loses its builds and its claims,
`_init_instance` is part of the restart. A delete is the API's part (`dpc`) and
`terminate_instance` at the host (`tpc`). When the host is down, or unset, the
API deletes the row itself in two steps: `LocalSave` is the `instance.save()` of
the callback (it also refreshes the object), `LocalDestroy` the
`instance.destroy()` after it. If the object has no host, destroy is constrained
to rows without one, so a claim on the next host in between makes it raise; the
request is then answered with an error (`dpc` = "failed") and the build goes on.
It fails the same way when the networks cannot be freed (`LocalFails`). One
flavor; volumes and networks fail or not, and have no state. The death of an API
process is left out here.

`orphans` (history) names the instances that a host was at work on, in a build or
in `terminate_instance`, when its service crashed, while their row did not name
that host or showed nothing unfinished. `init_host` reads the rows of its own
host, so nobody settles these: an instance not yet claimed or just given up, and
one whose DELETING a preempted build has overwritten.

### Quotas

`inUse` and `reserved` are columns of `quota_usages`, `live` the reservations
that were not deleted. Each request is a sequence of transactions, with the row
as it first read it. A customer deletes only instances whose create was
answered; builds are one step.

`reservation_expire` is two steps. `ExpireRead` picks the expired reservations
(`due`) and computes, for the users with a positive one (`stale`), the amount to
write (`value`): unlike `quota_reserve` and `reservation_commit` it takes no lock.
`ExpireWrite` writes these amounts, whatever was reserved, committed or rolled
back in between, and deletes what is left of `due`. A user of whom it overwrites
such an update is `garbled`. The reservations of requests that died expire
freely, one of a request under way costs a fault.

A delete whose host is down saves the row (`LocalDelete`) and then destroys it
(`Destroy` at "local"). `CrashDelete` is the death of an API process at any step
of a delete it runs, also between `instance.destroy()` and `quotas.commit()`;
`FailDelete` is an exception at those steps (a notification, the networks, the
destroy), after which `_delete` rolls the reservation back and raises again.

`slips` names the instances whose usage is known to be lost to a fault: an
expired reservation of a request under way, an overwritten one, the death
between commit and destroy of a halted build, a failed terminate of a
soft-deleted instance. `late` names those whose delete outlasted its reservation,
or died or failed between the destroy and the commit, so that too much stays
counted.

Left out: restarts of compute services that complete a deletion begun
(`compute/manager.py:702-716`), the death of a compute service between the save
and the destroy of `terminate_instance`, the death of the API in a restore, two
schedulers that expire at the same time, and the forced refresh of
`nova-manage`.

### LiveMigration

`row` has the columns host, vm_state and task_state of the VM, `dom` what each
hypervisor has of it (the domain, only its directory, nothing). A migration is
a record of `mig`, with the pc of the thread that handles it: conductor, then a
thread of the source. `arrivals` and `cleanups` are the two casts to the
destination. The order is the code's: `Complete` moves the domain, `Post` casts,
`Finish` removes the source's directory, while `Arrive` saves the host column
whenever the cast gets there; `RollBack` first saves the task state, then `Undo`
casts the clean-up. `Restart` is init_host: threads are lost, libvirt goes on,
and a VM of the host that is MIGRATING is reset. `slips` records where the code
gives up: "stuck" (an exception after which nothing resets the task state),
"interrupted" (a restart during a migration), "overtaken" (a delete during one),
"clobbered" (a late clean-up that hit a VM that runs).

Left out: shared instance directories (then nothing is cleaned up), post-copy,
force-complete, and a pre_live_migration that goes on after its caller timed out
(it could only leave a directory behind).

## Runs

| Run | Result | Shows |
|---|---|---|
| `protection_safety` | pass | one worker, two properties, two slots, two failures each: type, counts, monitors, no property left without a child |
| `protection_live` | pass | with one worker, disabled properties lose their children and enabled ones are attested for ever |
| `protection_two_workers` | violation | two interleaved handlers leave a property enabled with no child |
| `oat_safety` | pass | two calls, one host: verdict and report stay together and are fresh, no double delivery, and the whole implements `AttestationPromise` |
| `oat_threshold` | pass | calls with any threshold after an earlier answer: copied results keep their report, agents are asked once, calls and background threads end |
| `oat_old_measurement` | violation | a failed measurement leaves an old one to be judged |
| `build_safety` | pass | two instances, two hosts with room for one each, deletes and reschedules: no overbooking, one host each, tracked where they are, each host tried once |
| `build_live` | pass | builds and deletes end through reschedules, races with each other, two crashes and their restarts; excepted are `orphans`, and a delete may end by telling the customer that it failed |
| `build_leak` | violation | a delete during a rescheduled build leaves a domain that no periodic task finds |
| `quotas` | pass | two users, a project quota of one, every request, expiries and one fault: reservations add up but for users an expiry has overwritten, no instance escapes the quota short of a slip, and what is counted once the requests of a user are over is there short of a delete that died or failed after the row was gone |
| `quotas_two_deletes` | violation | two overlapping deletes of a booting instance give its usage back twice |
| `migration` | pass | three migrations between two hosts, a delete, a restart: the host column follows the VM, clean-ups spare what their own migration moved, migrations and the state MIGRATING end, each short of the `slips` that its definition names |

The violations are disagreements between the code and a comment in it; each is
quoted in `PROJECT.json` under findings.

Bounds. `MaxRequests` = 2: every property relates a request to a report of
another or to its own, so two requests, one of them older, exhibit each
interaction, and the proofs remove the bound. `MaxFails`, `MaxReboots` and
`Procs` bound counters and the process table; a full table, a zombie and a
restart after a reboot occur. `Interpreted` is empty in the larger runs, because
the measurements only multiply states there. `build_safety`: two instances for
two places with two attempts make every claim contended; without crashes, which
are in `build_live`: there two, so that both hosts, or the same one twice, may go
down during one build and its delete. `quotas`: one instance is soft-deleted and restored, the
other deleted while it boots or while its host is down, for a project quota of
one, so that each competes with the other; `MaxFaults` = 1. The second
instance is the only one of its user, so that `UsageExact` has something to say.
Two bounds of the exploration (`MCBounds`): a
pass of the expiry finds one reservation, and once an instance has slipped
nothing is reclaimed any more, since only the reservations are still checked then
and a reclaim makes none. Without them the run has four times the states (3.1
million) and the same result. The limit of a user is not reached there; that part
is proved. `migration`: three
migrations let a VM go, come back and meet a clean-up of its first journey; two
hosts, since a third adds no new way to return. Symmetry is used in runs of
safety properties only.

Deadlock is checked except in `quotas` and `migration`, where all requests may
be served and nothing is left to do. Idle polling of an agent is a step of the
model (`DoNothing`), as in the code.

Fairness. `ProtectionService`: a handler that read the row goes on to write it
and to fork (it is straight-line code; a body it rejects is not forced), and a
child is scheduled by the operating system, its sleep ends, and its command
ends since curl gets an answer once the server's own timeout passed. Nothing
makes a customer act or a node reboot. `OatThreshold`: server threads and
background threads run, time passes, and a begun transaction commits; nothing is
assumed of agents. `InstanceBuild`: messages are delivered, threads of a service
that is up run, a crashed service is restarted, and the periodic tasks are
called. `LiveMigration`: the conductor finishes its task, a thread of the source
runs, libvirt's job ends (the monitor aborts one without progress), and a cast
is delivered; nothing is assumed of restarts and deletes, nor that the clean-up
arrives. Weak fairness suffices throughout.

Each property of a passing run has a mutant: a faulty variant of an action, in
the section of the module headed so, which makes TLC find the property violated
when substituted for the action.

## Observations without a run

Met while modelling; each follows from the lines named.

* Any answer but "trusted" (a timeout too) raises the count that the dashboard
  labels violations (`attest_service.py:70`, `tables.py:72`). For properties 1
  to 3 the white list does not matter, although `AttestService.java:172`
  explains "trusted" by it. Disabling a property before any failure makes the
  child raise on a NULL column (`attest_service.py:103`).
* A stale write of getNextAction (`HisPollingWebService.java:78`) can make a
  call answer "pending", and the loop of pollHosts can replace a verdict by a
  timeout (`HOSTResource.java:529`). An agent measures for the newest request,
  which may be one of another host (`HisWebService.java:117`).
* With a threshold, a verdict that was copied and answered can be erased by such
  a write, and no `CheckAttestThread` watches that row.
* The histogram of `attestation_kernel.c:188` writes `bin[i]` where `j` is the
  loop variable.
* A refused save's columns are written by the next save of the object, although
  `compute/manager.py:159-161` counts on the refusal. Aborting the claim of an
  instance an audit dropped adds its usage (`resource_tracker.py:841-862`). A
  restart turns BUILDING with DELETING into ERROR and forgets the delete.
* A delete whose object has no host, racing a claim on the next host, saves
  DELETED over the row and then fails; the build ends in ACTIVE
  (`compute/api.py:1981-1982`, `objects/instance.py:552-568`). A service that
  crashes in `terminate_instance` after a preempted build wrote ACTIVE over
  DELETING loses the delete: the row is ACTIVE and idle, without a domain
  (`compute/manager.py:2118`, `801`).
* Quotas: the delete of a soft-deleted instance whose host is down counts it
  twice (`compute/api.py:1789-1795`), as does a delete after a failed
  terminate; a failed restore, or a reclaim that races one, counts too much. So
  does a delete that dies or fails between the destroy and the commit
  (`compute/api.py:1753-1758`, `1982-1806`): the row is gone, the reservation
  expires or is rolled back, and the usage is never given back.
* The expiry of reservations loses updates (`db/sqlalchemy/api.py:3979-3990`,
  compare `3584`, `3908`): a reservation made meanwhile is overwritten, and its
  commit then makes `reserved` negative, by which the next check is too generous.
  The comment at `3574` says that "the quota code uses SQL locking to ensure races
  don't cause under or over counting of resources"; this is not among the
  findings, because `quotas_two_deletes` already contradicts that sentence. In the
  run `quotas` both states occur and are excepted as `garbled`.
* Live migration: the state is saved as MIGRATING before an unknown host is
  noticed, and stays (`compute/api.py:3623-3640`); `set_vm_state_and_notify`
  takes `expected_task_state` for a column and ignores it, so a refused
  migration overwrites DELETING (`scheduler/utils.py:102`). The rollback at the
  destination and the clean-up at the source can hit a VM that a later
  migration brought there (`compute/manager.py:5634`, `5467`). A restart of the
  source "resets the state" of a VM that has left (`compute/manager.py:987`),
  and the destination's save is then refused. A delete during the copy is sent
  to the source, and the domain runs on at the destination. The host the
  attestation command goes to is that column too (`attest_service.py`), so it
  asks the wrong agent in each of these cases.

## Proofs

Assumptions: bounds are naturals, properties are numbers and the monitored ones
are properties, NULL is no value of the columns (`PropertiesAssumption`,
`BoundsAssumption`, `NullAssumption`, `MaxRequestsAssumption`,
`OatNullAssumption`, `EarlierAssumption`, `BuildBounds`, `BuildNull`,
`HomeAssumption`, `MigrationBoundsAssumption`, `QuotasAssumption`). The sets of
workers, processes, hosts, clients, users and instances are arbitrary, and need
not be finite, but for the instances of `InstanceBuild` and `Quotas`
(`FiniteInstances`), whose rows the code counts, and the users of a project in
`Quotas` (`FiniteUsers`), whose usage it sums up.

`ProtectionServiceProofs`

* `TypeCorrect`: `TypeOK` is inductive by itself.
* `PhantomFree` (`NoPhantomViolations`): not inductive, because a child may
  write back a snapshot. `PhantomInv` adds that every snapshot is bounded by the
  failures so far, and strictly for the property whose failure the child is
  about to record, since that failure happened after the snapshot.
* `MonitorsOwned`: inductive given the types, which say that only children of
  monitored properties reach the steps that start and stop.
* `SingleWorkerServes` (`EnabledIsServed`): assumes that there is at most one
  worker. `ServedInv` adds that the list a handler read is still the row's list
  and that only a forking handler has something to fork. The run
  `protection_two_workers` is what happens without the assumption.
* `SoleChildCounts` (`CountIsExact`): as long as no two children were alive
  together and the node was not rebooted. `SoleInv` says that there is one
  running child, that the snapshot it works on is still the row, and that the
  row is behind by the one failure this child has seen and not yet recorded.

`OatAttestationProofs`

* `OatTypeCorrect`: `TypeOK`, which includes that whoever may write a row holds
  one.
* `OatInvariant`: `OatInv` is inductive. The properties alone are not, because
  each write puts back an older row; the invariant says what the old copies may
  hold. `CallCopy`: the copy of a call is never ahead of the row and has no
  report when it is written. `AgentRow`: a row read by an agent's transaction
  still has no report when the transaction writes (one transaction per host,
  and a row belongs to one host). `AgentCopy`: what the two transactions are
  about to write. `ReportCovers`: a consumed request of a host is no newer than
  the nonce of the report in preparation, because the agent handed out the
  request itself before it fetched the nonce. `HandedOut` and `OneCall`:
  histories agree with the rows.
* `ReportsBehindVerdicts`, `VerdictsAreFresh`, `VerdictsStand`,
  `HandedOutOnce`: the four safety properties, each a conjunct of `OatInv`.

`OatRefinementProofs`

* `ConsumedRowsWereTold`: what the mapping needs beyond `OatInv`: the consumed
  rows, and the rows that calls and transactions are about to write back, are
  ones an agent was told of.
* `OatImplementsPromise` (`KeepsPromise`): initial states map to initial states,
  and each action to a step of `AttestationPromise` or a stutter, for every
  number of hosts, clients and requests.

`OatThresholdProofs`

* `ThresholdInvariant`: `ThresholdInv` is inductive. It cannot reuse `OatInv`:
  a copied result makes a row decided without an agent, and a thread goes on
  writing after the call has answered. `Calls`: a request belongs to one call,
  and a thread to a call that is done but for its answer. `RowsFit`: report and
  verdict come together, and a request with a threshold has DO_NOTHING until
  its call has decided to ask (for a threshold of 0, for ever). `AgentFits`:
  what an agent's transaction is about to write is a row of its own host, and
  it overwrites a report only where no loop or thread minds the request.
  `CallFits`, `WatcherFits`: the copies that loops and threads write back have a
  report only if the row has one, and none when they write a timeout. `Told`:
  once an agent was asked, neither the row nor a row about to be written invites
  a second asking.
* `ThresholdTypeCorrect`, `ThresholdVerdictsHaveReports`, `AgentsAskedOnce`
  (`ThresholdTypeOK`, `VerdictHasReport`, `AskedOnce`): its consequences.

`InstanceBuildProofs`

* `BuildInv` is inductive: types; `Attempted` (a host where a build began is in
  the list of the RetryFilter, the one it is sent to is not yet built on);
  `Domains` (a domain is on the host of its build, and only in the stages after
  the spawn or when the build gave up); `KeptFollows` (for an instance nobody
  deletes no save is refused, so the object has no unsaved column, the task
  state is the one the stage expects, the host column is set from the claim to
  the clean-up, and that host tracks it); and `NotOverbooked` itself, kept by
  the claim because what the host tracks includes all its guests.
* `BuildTypeCorrect`, `BuildsTryOnce`, `OwnersStayTracked`, `NeverOverbooked`,
  `RunsOnOneHost`, `ActiveMeansRunning` (`TypeOK`, `TriedOnce`,
  `OwnersAreTracked`, `NotOverbooked`, `OneHost`, `ActiveRuns`): its
  consequences, for any number of crashes.

`LiveMigrationProofs`

* `MigrationTypeCorrect`: `TypeOK` is inductive by itself.
* `IdleRunsOnItsHost`, `DeletedIsGone`, `CleanUpsSpareTheirOwn`
  (`RunsOnItsHost`, `DeletedRunsNowhere`, `SparesItsOwnVM`): consequences of
  `MigrationInv`. None is inductive: an idle row says nothing of the threads and
  casts that earlier migrations left behind. `Bookkeeping` says which thread
  sent each cast, and that only a delete under way leaves DELETING.
  `NewestActive`: only the newest migration may still save the row or move the
  domain, and while it may the row is not idle, so that no other begins.
  `Whereabouts`: the VM is where the row says until the active migration has
  moved it, then at its destination. `Spared`: a host about to be cleaned up has
  the VM only if a later migration brought it. `Undisturbed`: a delete that
  found the row idle meets no active migration. All but the first two conjuncts
  are claimed short of a restart that lost a migration, since such a restart
  makes the row idle while the migration goes on.

`QuotasProofs`

* `ReservationsBacked` (`ReservedIsBacked`): for every user that no expiry has
  overwritten. `ReserveInv` adds to the equation the types it needs, that the
  reservations behind it are finitely many (so that one more or one less changes
  their number by one), and `NothingHeld`: a creation that has not begun and a
  restore that is over hold no reservation, so that what they reserve is new. A
  commit or rollback after the expiry finds no reservation and changes nothing.
  `Expiring` is the expiry between its two steps: what it is about to delete
  belongs to users whose usage it is about to write, so that a user it does not
  write keeps all of his reservations; and a lost update is always a slip.
  `ExpiryReads` and `ExpiryWrites` are its steps: an amount that is still what
  was read less what goes is right, any other is recorded.
* `QuotasTypeCorrect` (`TypeOK`): `reserved` is an integer, and with `ReserveInv`
  never negative for a user that no expiry has overwritten.
* `UsageCovered`, `UsersWithinQuota`, `ProjectWithinQuota` and `QuotasHold`
  (`UsageCovers`, `QuotaHolds` and its two parts): for `OneDelete`, that is, the deletes of an instance do not
  overlap, and no instance that can be soft-deleted loses its host. The code
  counts both cases twice: the first is the run `quotas_two_deletes`, the second
  an observation above. `Covered` is an inequality per user: the instances that
  `in_use` has to count (`Billed`), and the ones a delete is about to give back
  (`Returning`), are no more than `in_use` and the restores that are about to
  commit (`Regained`). A restored instance may be deleted, and that committed,
  before the commit of its restore, so neither `in_use` alone nor one count per
  instance is enough; for the same reason `in_use` may be negative for a moment,
  and then `RefreshRaises` shows that counting it anew only raises it.
  `Standing` says which states of the row, the BuildRequest, the create, the
  delete and the restore of one instance occur together: what a delete read of
  the vm state still decides whether the usage was given back (`AsRead`), a
  delete that won the BuildRequest has the instance for itself (`Halted`), and a
  request that has not lost its reservation holds it (`Kept`). `WithinLimit`
  bounds the instances that are billed or reserved for, of each user and of the
  project: the check of a new reservation compares at least as many with the
  limit. For the project that is `TotalCovers` of `QuotaTotalProofs`: if the
  usage of each user covers a set of instances, the total covers their union.
  The total is a fold, so this is an induction over the users, done with the
  least size of a set of users whose sum is wrong (`LeastNumber`): the
  library's induction rules cannot be instantiated, a minimal element of a set
  of numbers can be picked. Each action is about one instance (`About`), so it
  is enough to weigh that one before and after (`Counts`).
* `UsageIsExact` (`UsageExact`): for a user none of whose instances can be
  soft-deleted the inequality `Covered` is an equation (`Exact`), as long as no
  request outlasted its reservation and no delete died or failed between the
  destroy of the row and the commit. `Hard` says why: such an instance is
  neither restored nor reclaimed, a delete of it never believes that the usage
  was given back before, and holds its reservation until it ends. `in_use` is
  then never negative (`NotNegative`), so it is never counted anew while a
  request is under way. Where instances can be soft-deleted the equation is
  false in the code, see the observations.

Only model-checked: the liveness properties (`DisabledChildrenEnd`,
`EnabledIsAttested`, `CallsReturn`, `WatchersEnd`, `BuildsEnd`, `DeletesEnd`,
`MigrationsEnd`, `MigratingEnds`), which the prover does not handle. Every
invariant and every action property of the passing runs is proved.

## Not modelled, and the plan

Next, in this order:

1. The composition of `ProtectionService` with `AttestationPromise`, where
   `Verdicts` becomes the answer of a call, and with the host column of
   `LiveMigration`.
2. Resizes and evacuations as further ways for a VM to change its host.
3. The registry (create, update and delete with referential checks).

Left out: the property checks and encoders, which are sequential arithmetic on
digits with constants of the prototype and nothing to check them against; the
trusted filter, whose calls of PollHosts lack the VM ids and properties that
addRequests reads, so that every host stays unknown to it; enrollment and the
cryptography of the quote and of the Privacy CA; the symbolic ProVerif scripts
under `src/verification`; front ends, portal and installers, which keep no
state.

Of the OpenStack code the life cycle of an instance is modelled. The rest (the
other hypervisor drivers, networks, volumes, cells, API extensions, database
queries, horizon, the clients) is most of the repository's lines, is carried
from upstream, and does not interact with the attestation service; the modules
here therefore map a small share of the repository as a whole and most of what
CloudMonatt adds to it.
