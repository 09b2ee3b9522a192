-------------------------- MODULE ProtectionService --------------------------
(***************************************************************************)
(* The protection service of one virtual machine.  The nova API action     *)
(* changeProtection (servers.py) writes the set of security properties the *)
(* customer wants watched and forks one child process per newly enabled    *)
(* property; each child runs attestation_service (attest_service.py): it   *)
(* re-reads the row every ten seconds, attests the property while it is    *)
(* enabled, counts the attestations that did not come back "trusted", and  *)
(* resets the count and exits once the property is disabled.               *)
(*                                                                         *)
(* API workers and children are separate processes.  They share only the   *)
(* VM's row of the instances table, and every step below is one database   *)
(* statement (with its commit), one remote command, or one fork.           *)
(***************************************************************************)
EXTENDS Integers, FiniteSets

CONSTANTS
    Properties,     \* the security properties, 1..7 in the code
    Monitored,      \* the ones with a monitor to start and stop, p > 4
    Workers,        \* nova-api worker processes
    Procs,          \* the slots of the process table left for the children
    MaxFails,       \* bound on the failed attestations of one property
    MaxReboots,     \* bound on the reboots of the controller node
    NULL            \* the SQL NULL of both columns

ASSUME PropertiesAssumption == Properties \subseteq Nat /\ Monitored \subseteq Properties
ASSUME BoundsAssumption == MaxFails \in Nat /\ MaxReboots \in Nat
ASSUME NullAssumption == /\ \A S \in SUBSET Properties : NULL # S
                         /\ NULL \notin [Properties -> Nat]

VARIABLES
    protection,           \* column: NULL or the enabled properties
    protection_results,   \* column: NULL or a count per property
    wpc, wold, wnew, wtodo,     \* the handlers: pc, old and new list, properties to fork for
    spc, sprop, ssnap,    \* the children: pc, property, row snapshot of their transaction
    monitor,              \* properties whose monitor runs in the VM (external)
    reboots,              \* how often the controller rebooted
    fails,                \* history: failed attestations of each property
    since,                \* history: the same, since a child last reset the count
    overlapped,           \* history: two children have been alive at once
    unserved,             \* history: properties whose child was lost to a failed fork or a reboot
    abandoned             \* history: properties whose stop command was lost

handlers == <<wpc, wold, wnew, wtodo>>
children == <<spc, sprop, ssnap>>
row      == <<protection, protection_results>>
counts   == <<fails, since>>
losses   == <<overlapped, unserved, abandoned>>
vars     == <<row, handlers, children, monitor, reboots, counts, losses>>

------------------------------------------------------------------------------
Results == {NULL} \cup [Properties -> Nat]

\* list(results[0][0]), with seven "0" for NULL
Enabled(prot) == IF prot = NULL THEN {} ELSE prot

\* old_protection_results.split(), with "0 0 0 0 0 0 0" for NULL
Split(res) == IF res = NULL THEN [p \in Properties |-> 0] ELSE res

ServicePcs == {"free", "start", "load", "attest", "record", "stop", "reset",
               "exited", "crashed"}
Ended      == {"free", "exited", "crashed"}
Running(s) == spc[s] \notin Ended

\* The result is trusted only if the answer holds the word "trusted": a
\* timeout, "unknown", "pending" or no answer at all counts like "untrusted".
Verdicts == {"trusted", "untrusted", "unanswered"}
Failed(verdict) == verdict # "trusted"

HandlersOK ==
    /\ wpc \in [Workers -> {"idle", "update", "fork"}]
    /\ wold \in [Workers -> SUBSET Properties]
    /\ wnew \in [Workers -> SUBSET Properties]
    /\ wtodo \in [Workers -> SUBSET Properties]

ChildrenOK ==
    /\ spc \in [Procs -> ServicePcs]
    /\ sprop \in [Procs -> Properties \cup {NULL}]
    /\ ssnap \in [Procs -> Results]
    /\ \A s \in Procs : spc[s] # "free" => sprop[s] \in Properties
    /\ \A s \in Procs : spc[s] \in {"start", "stop"} => sprop[s] \in Monitored

CountsOK ==
    /\ fails \in [Properties -> 0 .. MaxFails]
    /\ since \in [Properties -> 0 .. MaxFails]
    /\ \A p \in Properties : since[p] <= fails[p]

LossesOK ==
    /\ overlapped \in BOOLEAN
    /\ unserved \subseteq Properties
    /\ abandoned \subseteq Monitored

(* The columns, the handlers, the children and the histories are typed; a   *)
(* child that starts or stops a monitor serves a monitored property.        *)
TypeOK ==
    /\ protection \in {NULL} \cup SUBSET Properties
    /\ protection_results \in Results
    /\ monitor \subseteq Monitored
    /\ reboots \in 0 .. MaxReboots
    /\ HandlersOK
    /\ ChildrenOK
    /\ CountsOK
    /\ LossesOK

Init ==
    /\ protection = NULL
    /\ protection_results = NULL
    /\ wpc = [w \in Workers |-> "idle"]
    /\ wold = [w \in Workers |-> {}]
    /\ wnew = [w \in Workers |-> {}]
    /\ wtodo = [w \in Workers |-> {}]
    /\ spc = [s \in Procs |-> "free"]
    /\ sprop = [s \in Procs |-> NULL]
    /\ ssnap = [s \in Procs |-> NULL]
    /\ monitor = {}
    /\ reboots = 0
    /\ fails = [p \in Properties |-> 0]
    /\ since = [p \in Properties |-> 0]
    /\ overlapped = FALSE
    /\ unserved = {}
    /\ abandoned = {}

------------------------------------------------------------------------------
(* Faulty variants of the actions below, substituted for them one at a time *)
(* to confirm that the properties can fail.                                 *)

\* The start list and the stop list of the update are swapped.
UpdateForksRemoved(w) ==
    /\ wpc[w] = "update"
    /\ protection' = wnew[w]
    /\ wtodo' = [wtodo EXCEPT ![w] = wold[w] \ wnew[w]]
    /\ wpc' = [wpc EXCEPT ![w] = IF wold[w] \ wnew[w] = {} THEN "idle" ELSE "fork"]
    /\ wold' = [wold EXCEPT ![w] = {}]
    /\ wnew' = [wnew EXCEPT ![w] = {}]
    /\ UNCHANGED <<protection_results, children, monitor, reboots, counts, losses>>

\* The test security_property > 4 is missing before the stop command.
LoadStopsAll(s) ==
    /\ spc[s] = "load"
    /\ ssnap' = [ssnap EXCEPT ![s] = protection_results]
    /\ spc' = [spc EXCEPT ![s] =
                  IF sprop[s] \in Enabled(protection) THEN "attest" ELSE "stop"]
    /\ UNCHANGED <<row, handlers, sprop, monitor, reboots, counts, losses>>

\* The protection read at the fork is used for ever.
LoadIgnoresRow(s) ==
    /\ spc[s] = "load"
    /\ ssnap' = [ssnap EXCEPT ![s] = protection_results]
    /\ spc' = [spc EXCEPT ![s] = "attest"]
    /\ UNCHANGED <<row, handlers, sprop, monitor, reboots, counts, losses>>

\* A trusted answer is recorded like a failed one.
AttestRecordsAll(s, verdict) ==
    LET p == sprop[s] IN
    /\ spc[s] = "attest"
    /\ Failed(verdict) => fails[p] < MaxFails
    /\ spc' = [spc EXCEPT ![s] = "record"]
    /\ fails' = [fails EXCEPT ![p] = IF Failed(verdict) THEN @ + 1 ELSE @]
    /\ since' = [since EXCEPT ![p] = IF Failed(verdict) THEN @ + 1 ELSE @]
    /\ UNCHANGED <<row, handlers, sprop, ssnap, monitor, reboots, losses>>

\* The child leaves its loop after a failure.
RecordThenExits(s) ==
    /\ spc[s] = "record"
    /\ protection_results' = [Split(ssnap[s]) EXCEPT ![sprop[s]] = @ + 1]
    /\ ssnap' = [ssnap EXCEPT ![s] = NULL]
    /\ spc' = [spc EXCEPT ![s] = "exited"]
    /\ UNCHANGED <<protection, handlers, sprop, monitor, reboots, counts, losses>>

\* The stop command is never sent.
StopSkipsCommand(s) ==
    /\ spc[s] = "stop"
    /\ spc' = [spc EXCEPT ![s] = "reset"]
    /\ UNCHANGED <<row, handlers, sprop, ssnap, monitor, reboots, counts, losses>>

\* The count is written back uncleared.
ResetKeepsCount(s) ==
    /\ spc[s] = "reset"
    /\ ssnap[s] # NULL
    /\ protection_results' = ssnap[s]
    /\ ssnap' = [ssnap EXCEPT ![s] = NULL]
    /\ spc' = [spc EXCEPT ![s] = "exited"]
    /\ since' = [since EXCEPT ![sprop[s]] = 0]
    /\ UNCHANGED <<protection, handlers, sprop, monitor, reboots, fails, losses>>

------------------------------------------------------------------------------
(* changeProtection: SELECT, then UPDATE and commit, then the forks.       *)

ReadOld(w, want) ==
    /\ wpc[w] = "idle"
    /\ wpc' = [wpc EXCEPT ![w] = "update"]
    /\ wold' = [wold EXCEPT ![w] = Enabled(protection)]
    /\ wnew' = [wnew EXCEPT ![w] = want]
    /\ UNCHANGED <<row, wtodo, children, monitor, reboots, counts, losses>>

\* A body that names no property list, or a number out of range, raises
\* before the UPDATE: the API answers an error and the row stays as it was.
RejectBody(w) ==
    /\ wpc[w] = "update"
    /\ wpc' = [wpc EXCEPT ![w] = "idle"]
    /\ wold' = [wold EXCEPT ![w] = {}]
    /\ wnew' = [wnew EXCEPT ![w] = {}]
    /\ UNCHANGED <<row, wtodo, children, monitor, reboots, counts, losses>>

\* The children to fork are decided by the list read before the UPDATE.
UpdateRow(w) ==
    /\ wpc[w] = "update"
    /\ protection' = wnew[w]
    /\ wtodo' = [wtodo EXCEPT ![w] = wnew[w] \ wold[w]]
    /\ wpc' = [wpc EXCEPT ![w] = IF wnew[w] \ wold[w] = {} THEN "idle" ELSE "fork"]
    /\ wold' = [wold EXCEPT ![w] = {}]
    /\ wnew' = [wnew EXCEPT ![w] = {}]
    /\ UNCHANGED <<protection_results, children, monitor, reboots, counts, losses>>

\* The loop forks in the order of the property numbers.
NextToFork(w, p) == p \in wtodo[w] /\ \A q \in wtodo[w] : p <= q

\* os.fork: a child begins in attestation_service.  Nobody waits for the
\* children, so an exited one keeps its slot as a zombie.
Fork(w, s, p) ==
    /\ wpc[w] = "fork"
    /\ NextToFork(w, p)
    /\ spc[s] = "free"
    /\ spc' = [spc EXCEPT ![s] = IF p \in Monitored THEN "start" ELSE "load"]
    /\ sprop' = [sprop EXCEPT ![s] = p]
    /\ wtodo' = [wtodo EXCEPT ![w] = @ \ {p}]
    /\ wpc' = [wpc EXCEPT ![w] = IF wtodo[w] = {p} THEN "idle" ELSE "fork"]
    /\ overlapped' = (overlapped \/ \E t \in Procs : Running(t))
    /\ unserved' = unserved \ {p}
    /\ UNCHANGED <<row, wold, wnew, ssnap, monitor, reboots, counts, abandoned>>

\* The process table is full: os.fork raises, and the handler ends with an
\* error although its UPDATE is committed.
ForkFails(w) ==
    /\ wpc[w] = "fork"
    /\ \A s \in Procs : spc[s] # "free"
    /\ wpc' = [wpc EXCEPT ![w] = "idle"]
    /\ wtodo' = [wtodo EXCEPT ![w] = {}]
    /\ unserved' = unserved \cup wtodo[w]
    /\ UNCHANGED <<row, wold, wnew, children, monitor, reboots, counts,
                   overlapped, abandoned>>

------------------------------------------------------------------------------
(* attestation_service, one child.                                         *)

\* The start command of a monitored property; its answer is not looked at,
\* so a lost command goes unnoticed.
StartMonitor(s) ==
    /\ spc[s] = "start"
    /\ spc' = [spc EXCEPT ![s] = "load"]
    /\ monitor' \in {monitor, monitor \cup {sprop[s]}}
    /\ UNCHANGED <<row, handlers, sprop, ssnap, reboots, counts, losses>>

\* The first SELECT of an iteration opens the transaction whose snapshot the
\* later SELECT of protection_results reads (InnoDB, REPEATABLE READ).
Load(s) ==
    /\ spc[s] = "load"
    /\ ssnap' = [ssnap EXCEPT ![s] = protection_results]
    /\ spc' = [spc EXCEPT ![s] =
                  CASE sprop[s] \in Enabled(protection)          -> "attest"
                    [] sprop[s] \in Monitored \ Enabled(protection) -> "stop"
                    [] OTHER                                     -> "reset"]
    /\ UNCHANGED <<row, handlers, sprop, monitor, reboots, counts, losses>>

\* execute_cmd and the scan of its answer, then the sleep if it is trusted.
Attest(s, verdict) ==
    LET p == sprop[s] IN
    /\ spc[s] = "attest"
    /\ Failed(verdict) => fails[p] < MaxFails
    /\ spc' = [spc EXCEPT ![s] = IF Failed(verdict) THEN "record" ELSE "load"]
    /\ fails' = [fails EXCEPT ![p] = IF Failed(verdict) THEN @ + 1 ELSE @]
    /\ since' = [since EXCEPT ![p] = IF Failed(verdict) THEN @ + 1 ELSE @]
    /\ UNCHANGED <<row, handlers, sprop, ssnap, monitor, reboots, losses>>

\* The whole string of the snapshot is written back with one count raised.
Record(s) ==
    /\ spc[s] = "record"
    /\ protection_results' = [Split(ssnap[s]) EXCEPT ![sprop[s]] = @ + 1]
    /\ ssnap' = [ssnap EXCEPT ![s] = NULL]
    /\ spc' = [spc EXCEPT ![s] = "load"]
    /\ UNCHANGED <<protection, handlers, sprop, monitor, reboots, counts, losses>>

StopMonitor(s) ==
    /\ spc[s] = "stop"
    /\ spc' = [spc EXCEPT ![s] = "reset"]
    /\ \/ /\ monitor' = monitor \ {sprop[s]}
          /\ UNCHANGED abandoned
       \/ /\ abandoned' = abandoned \cup {sprop[s]}    \* the command is lost
          /\ UNCHANGED monitor
    /\ UNCHANGED <<row, handlers, sprop, ssnap, reboots, counts, overlapped, unserved>>

\* The whole string of the snapshot is written back with one count cleared,
\* and the child exits.
Reset(s) ==
    /\ spc[s] = "reset"
    /\ ssnap[s] # NULL
    /\ protection_results' = [ssnap[s] EXCEPT ![sprop[s]] = 0]
    /\ ssnap' = [ssnap EXCEPT ![s] = NULL]
    /\ spc' = [spc EXCEPT ![s] = "exited"]
    /\ since' = [since EXCEPT ![sprop[s]] = 0]
    /\ UNCHANGED <<protection, handlers, sprop, monitor, reboots, fails, losses>>

\* None.split(): nothing was ever recorded, and the exception takes the child
\* out of attestation_service into the error handling of the API request.
ResetRaises(s) ==
    /\ spc[s] = "reset"
    /\ ssnap[s] = NULL
    /\ spc' = [spc EXCEPT ![s] = "crashed"]
    /\ UNCHANGED <<row, handlers, sprop, ssnap, monitor, reboots, counts, losses>>

------------------------------------------------------------------------------
\* The controller node reboots: every process is gone, the row stays, and
\* nothing forks the children again.
Reboot ==
    /\ reboots < MaxReboots
    /\ reboots' = reboots + 1
    /\ wpc' = [w \in Workers |-> "idle"]
    /\ wold' = [w \in Workers |-> {}]
    /\ wnew' = [w \in Workers |-> {}]
    /\ wtodo' = [w \in Workers |-> {}]
    /\ spc' = [s \in Procs |-> "free"]
    /\ sprop' = [s \in Procs |-> NULL]
    /\ ssnap' = [s \in Procs |-> NULL]
    /\ unserved' = unserved \cup Enabled(protection)
    /\ abandoned' = abandoned \cup monitor
    /\ UNCHANGED <<row, monitor, counts, overlapped>>

Handler(w) ==
    \/ \E want \in SUBSET Properties : ReadOld(w, want)
    \/ RejectBody(w)
    \/ UpdateRow(w)
    \/ \E s \in Procs, p \in Properties : Fork(w, s, p)
    \/ ForkFails(w)

Child(s) ==
    \/ StartMonitor(s)
    \/ Load(s)
    \/ \E verdict \in Verdicts : Attest(s, verdict)
    \/ Record(s)
    \/ StopMonitor(s)
    \/ Reset(s)
    \/ ResetRaises(s)

Next ==
    \/ \E w \in Workers : Handler(w)
    \/ \E s \in Procs : Child(s)
    \/ Reboot

Spec == Init /\ [][Next]_vars

\* A handler that has read the row finishes; a child is scheduled, its sleep
\* of ten seconds ends and so does its command, which the attestation server
\* answers at the latest when its own timeout expires.
Fairness ==
    /\ \A w \in Workers : WF_vars(UpdateRow(w) \/ ForkFails(w)
                                    \/ \E s \in Procs, p \in Properties : Fork(w, s, p))
    /\ \A s \in Procs : WF_vars(Child(s))

FairSpec == Spec /\ Fairness

------------------------------------------------------------------------------
Count(p) == Split(protection_results)[p]

\* Child s has not yet found p disabled.
Serves(s, p) == sprop[s] = p /\ spc[s] \in {"start", "load", "attest", "record"}

\* Child s may have started the monitor of p and has not yet stopped it.
Owns(s, p) == sprop[s] = p /\ spc[s] \in {"load", "attest", "record", "stop"}

(* Stale whole-string writes of the children can lose a count or bring back *)
(* one that was cleared, but the dashboard never shows more failures of a   *)
(* property than attestations of that property have failed.                 *)
NoPhantomViolations == \A p \in Properties : Count(p) <= fails[p]

(* An enabled property has a child that will attest it, or a handler about  *)
(* to fork one, unless a failed fork or a reboot lost it.  It relies on the *)
(* handlers not interleaving: the forks are decided by a list read before   *)
(* the UPDATE.                                                              *)
EnabledIsServed ==
    \A p \in Enabled(protection) :
        \/ \E s \in Procs : Serves(s, p)
        \/ \E w \in Workers : p \in wtodo[w]
        \/ p \in unserved

(* A monitor left running in the VM always has a child that will stop it,   *)
(* unless a stop command or its child was lost; this holds although a child *)
(* that was told to stop can outlive the start of the next one.             *)
MonitorIsOwned ==
    \A p \in monitor : (\E s \in Procs : Owns(s, p)) \/ p \in abandoned

\* A failure counted by a child and not yet written to the row.
Unwritten(p) == Cardinality({s \in Procs : sprop[s] = p /\ spc[s] = "record"})

(* As long as no two children of the VM were ever alive together, the row   *)
(* counts exactly the failures since the property was last disabled.        *)
CountIsExact ==
    ~overlapped /\ reboots = 0 =>
        \A p \in Properties : Count(p) + Unwritten(p) = since[p]

(* A property that stays disabled ends up with no child running for it.     *)
DisabledChildrenEnd ==
    \A p \in Properties :
        <>[](p \notin Enabled(protection))
            => <>[](\A s \in Procs : Running(s) => sprop[s] # p)

(* An enabled property is attested again and again until it is disabled:    *)
(* "send attestation requests ... periodically" (attest_service.py:3).      *)
EnabledIsAttested ==
    \A p \in Properties :
        p \in Enabled(protection) ~>
            \/ \E s \in Procs : sprop[s] = p /\ spc[s] = "attest"
            \/ p \notin Enabled(protection)
            \/ p \in unserved

==============================================================================
