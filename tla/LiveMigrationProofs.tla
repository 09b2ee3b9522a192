------------------------- MODULE LiveMigrationProofs -------------------------
(* Theorems about LiveMigration, for all hosts and any number of migrations *)
(* and restarts.                                                            *)
EXTENDS LiveMigration, TLAPS

AtSource == {"conductor", "cast", "queued", "pre", "copy", "rollback"}

\* Migration m may still save the row or move the domain.
Active(m) == mig[m].pc \in AtSource \cup {"post"} \/ m \in arrivals

\* The VM runs on h and nowhere else, if it was not hit.
At(h) ==
    /\ \A g \in Hosts : dom[g] = "running" => g = h
    /\ "clobbered" \notin slips => dom[h] = "running"

\* Casts belong to migrations whose thread has sent them, and only a delete
\* under way leaves DELETING.
Bookkeeping ==
    /\ \A m \in arrivals : mig[m].pc \in {"finish", "ended"}
    /\ \A m \in cleanups : mig[m].pc = "ended"
    /\ row.task = "DELETING" => dpc # "none"
    /\ dpc # "done" <=> row.vm # "DELETED"

\* Only the newest migration is active, and it keeps the row busy.
NewestActive ==
    \A m \in Ids : Active(m) =>
        /\ m = nmig
        /\ row.vm # "DELETED" => row.task # NULL /\ mig[m].src = row.host

\* Where the VM is: with the row, until the active migration has moved it.
Whereabouts ==
    row.vm # "DELETED" =>
        /\ row.task = NULL => At(row.host)
        /\ \A m \in Ids : mig[m].pc \in AtSource => At(row.host)
        /\ \A m \in Ids : mig[m].pc = "post" \/ m \in arrivals => At(mig[m].dest)

\* A host that a migration is about to clean up has the VM only if a later
\* one brought it there.
Spared ==
    \A m \in Ids :
        /\ mig[m].pc = "copy" => owner[mig[m].dest] = m
        /\ (mig[m].pc = "undo" \/ m \in cleanups) /\ dom[mig[m].dest] = "running" =>
              owner[mig[m].dest] > m
        /\ mig[m].pc \in {"post", "finish"} /\ dom[mig[m].src] = "running" =>
              owner[mig[m].src] > m

\* A delete of an idle VM is undisturbed.
Undisturbed ==
    "overtaken" \notin slips =>
        /\ dpc = "cast" => row.task = "DELETING" /\ row.host = dhost /\ At(dhost)
        /\ dpc # "none" => \A m \in Ids : ~Active(m)
        /\ dpc = "done" => \A h \in Hosts : dom[h] # "running"

MigrationInv ==
    /\ TypeOK
    /\ Bookkeeping
    /\ "interrupted" \notin slips => NewestActive /\ Whereabouts /\ Spared /\ Undisturbed

USE HomeAssumption, MigrationBoundsAssumption

------------------------------------------------------------------------------
(* What an action may write keeps its type.                                 *)

\* A migration that goes on keeps its hosts and its type.
LEMMA GoesType ==
    ASSUME NEW m \in Ids, NEW pc \in Pcs, NEW status \in Statuses,
           mig \in [Ids -> Migrations], Goes(m, pc, status)
    PROVE  /\ mig' \in [Ids -> Migrations]
           /\ \A n \in Ids : mig'[n].src = mig[n].src /\ mig'[n].dest = mig[n].dest
           /\ \A n \in Ids : n # m => mig'[n] = mig[n]
           /\ mig'[m].pc = pc
<1>1. mig'[m] = [mig[m] EXCEPT !.pc = pc, !.status = status]
  BY DEF Goes
<1>2. mig[m] \in Migrations
  OBVIOUS
<1>3. mig'[m] \in Migrations
  BY <1>1, <1>2 DEF Migrations
<1>4. mig'[m].pc = pc /\ mig'[m].src = mig[m].src /\ mig'[m].dest = mig[m].dest
  BY <1>1, <1>2 DEF Migrations
<1> QED
  BY <1>3, <1>4 DEF Goes

\* A migration that goes on, and its casts, stay routed.
LEMMA GoesRouted ==
    ASSUME TypeOK, NEW m \in Ids, NEW pc \in Pcs, NEW status \in Statuses, Goes(m, pc, status),
           pc # "none" /\ mig[m].pc # "none", nmig' = nmig,
           mig[m].pc \in Threads \cup {"cast", "queued"} \/ pc = "ended",
           arrivals' \cup cleanups' \subseteq arrivals \cup cleanups \cup
               (IF mig[m].pc \in Threads THEN {m} ELSE {})
    PROVE  mig' \in [Ids -> Migrations] /\ Routed'
<1>1. mig \in [Ids -> Migrations] /\ Routed
  BY DEF TypeOK
<1>2. /\ mig' \in [Ids -> Migrations]
      /\ \A n \in Ids : mig'[n].src = mig[n].src /\ mig'[n].dest = mig[n].dest
      /\ \A n \in Ids : n # m => mig'[n] = mig[n]
      /\ mig'[m].pc = pc
  BY <1>1, GoesType
<1> QED
  BY <1>1, <1>2 DEF Routed, Threads

\* A row with another task or vm state is a row.
LEMMA RowTypes ==
    ASSUME row \in Rows
    PROVE  /\ \A t \in {NULL, "MIGRATING", "DELETING"} : [row EXCEPT !.task = t] \in Rows
           /\ \A v \in {"ACTIVE", "ERROR", "DELETED"}, t \in {NULL, "MIGRATING", "DELETING"} :
                  [row EXCEPT !.vm = v, !.task = t] \in Rows
           /\ \A h \in Hosts, ok \in BOOLEAN :
                  [row EXCEPT !.host = h, !.task = NULL, !.vm = IF ok THEN @ ELSE "ERROR"] \in Rows
BY DEF Rows

\* The domains after the guest has moved are typed.
LEMMA MovedType ==
    ASSUME TypeOK, NEW m \in Ids, CanMove(m), mig[m].pc = "copy"
    PROVE  Moved(m) \in [Hosts -> {"none", "dir", "running"}]
BY DEF TypeOK, Moved, Routed, Threads

\* The domains after a cleanup are typed.
LEMMA WipeType ==
    ASSUME TypeOK, NEW h \in Hosts, Wipe(h)
    PROVE  /\ dom' \in [Hosts -> {"none", "dir", "running"}]
           /\ slips' \subseteq {"stuck", "interrupted", "clobbered", "overtaken"}
BY DEF TypeOK, Wipe

------------------------------------------------------------------------------
(* TypeOK is inductive by itself.                                           *)

\* Every action keeps the types.
LEMMA TypeStep ==
    ASSUME TypeOK, [Next]_vars
    PROVE  TypeOK'
<1>1. ASSUME NEW m \in Ids, NEW d \in Hosts, Accept(m, d)
      PROVE  TypeOK'
  <2>1. mig'[m] = [mig[m] EXCEPT !.pc = "cast", !.dest = d] /\ mig[m] \in Migrations
    BY <1>1 DEF Accept, TypeOK
  <2>2. mig'[m] \in Migrations /\ mig'[m].dest = d /\ mig'[m].src = mig[m].src
    BY <2>1 DEF Migrations, Pcs
  <2>3. mig[m].src \in Hosts
    BY <1>1 DEF Accept, TypeOK, Routed
  <2>4. mig' \in [Ids -> Migrations] /\ Routed'
    BY <1>1, <2>2, <2>3 DEF Accept, TypeOK, Routed
  <2> QED
    BY <1>1, <2>4 DEF Accept, TypeOK
<1>2. ASSUME NEW m \in Ids, Refuse(m)
      PROVE  TypeOK'
  <2>0. mig[m].status \in Statuses
    BY DEF TypeOK, Migrations
  <2>1. mig' \in [Ids -> Migrations] /\ Routed'
    BY <1>2, <2>0, GoesRouted DEF Refuse, Ends, Pcs, Threads, Statuses
  <2>2. row' \in Rows
    BY <1>2, RowTypes DEF Refuse, TypeOK
  <2> QED
    BY <1>2, <2>1, <2>2 DEF Refuse, TypeOK
<1>3. ASSUME NEW m \in Ids, FailUnexpectedly(m)
      PROVE  TypeOK'
  <2>1. mig' \in [Ids -> Migrations] /\ Routed'
    BY <1>3, GoesRouted DEF FailUnexpectedly, Ends, Pcs, Threads, Statuses
  <2>2. row' \in Rows
    BY <1>3, RowTypes DEF FailUnexpectedly, TypeOK
  <2> QED
    BY <1>3, <2>1, <2>2 DEF FailUnexpectedly, TypeOK
<1>4. ASSUME NEW m \in Ids, Queue(m)
      PROVE  TypeOK'
  <2>1. mig' \in [Ids -> Migrations] /\ Routed'
    BY <1>4, GoesRouted DEF Queue, Ends, Pcs, Threads, Statuses
  <2> QED
    BY <1>4, <2>1 DEF Queue, TypeOK
<1>5. ASSUME NEW m \in Ids, Begin(m)
      PROVE  TypeOK'
  <2>1. mig' \in [Ids -> Migrations] /\ Routed'
    BY <1>5, GoesRouted DEF Begin, Ends, Pcs, Threads, Statuses
  <2> QED
    BY <1>5, <2>1 DEF Begin, TypeOK
<1>6. ASSUME NEW m \in Ids, Prepare(m)
      PROVE  TypeOK'
  <2>1. mig' \in [Ids -> Migrations] /\ Routed'
    BY <1>6, GoesRouted DEF Prepare, Ends, Pcs, Threads, Statuses
  <2> QED
    BY <1>6, <2>1 DEF Prepare, TypeOK, Routed, Threads
<1>7. ASSUME NEW m \in Ids, NEW left \in BOOLEAN, PrepareFails(m, left)
      PROVE  TypeOK'
  <2>1. mig' \in [Ids -> Migrations] /\ Routed'
    BY <1>7, GoesRouted DEF PrepareFails, Ends, Pcs, Threads, Statuses
  <2> QED
    BY <1>7, <2>1 DEF PrepareFails, TypeOK, Routed, Threads
<1>8. ASSUME NEW m \in Ids, Complete(m)
      PROVE  TypeOK'
  <2>0. mig[m].status \in Statuses
    BY DEF TypeOK, Migrations
  <2>1. mig' \in [Ids -> Migrations] /\ Routed'
    BY <1>8, <2>0, GoesRouted DEF Complete, Ends, Pcs, Threads, Statuses
  <2> QED
    BY <1>8, <2>1, MovedType DEF Complete, TypeOK
<1>9. ASSUME NEW m \in Ids, NEW outcome \in {"error", "cancelled"}, FailOrAbort(m, outcome)
      PROVE  TypeOK'
  <2>1. mig[m] \in Migrations /\ mig'[m] = [mig[m] EXCEPT !.pc = "rollback", !.outcome = outcome]
    BY <1>9 DEF FailOrAbort, TypeOK
  <2>2. mig'[m] \in Migrations /\ mig'[m].dest = mig[m].dest /\ mig'[m].src = mig[m].src
    BY <2>1 DEF Migrations, Pcs, Threads
  <2>3. mig' \in [Ids -> Migrations] /\ Routed'
    BY <1>9, <2>2 DEF FailOrAbort, TypeOK, Routed, Threads
  <2> QED
    BY <1>9, <2>3 DEF FailOrAbort, TypeOK
<1>10. ASSUME NEW m \in Ids, NEW moved \in BOOLEAN, MonitorRaises(m, moved)
      PROVE  TypeOK'
  <2>1. mig' \in [Ids -> Migrations] /\ Routed'
    BY <1>10, GoesRouted DEF MonitorRaises, Ends, Pcs, Threads, Statuses
  <2> QED
    BY <1>10, <2>1, MovedType DEF MonitorRaises, TypeOK
<1>11. ASSUME NEW m \in Ids, PostRaises(m)
      PROVE  TypeOK'
  <2>1. mig' \in [Ids -> Migrations] /\ Routed'
    BY <1>11, GoesRouted DEF PostRaises, Ends, Pcs, Threads, Statuses
  <2> QED
    BY <1>11, <2>1 DEF PostRaises, TypeOK
<1>12. ASSUME NEW m \in Ids, Post(m)
      PROVE  TypeOK'
  <2>0. mig[m].status \in Statuses
    BY DEF TypeOK, Migrations
  <2>1. mig' \in [Ids -> Migrations] /\ Routed'
    BY <1>12, <2>0, GoesRouted DEF Post, Ends, Pcs, Threads, Statuses
  <2> QED
    BY <1>12, <2>1 DEF Post, TypeOK
<1>13. ASSUME NEW m \in Ids, NEW cleaned \in BOOLEAN, NEW status \in {"completed", "error"},
             Finish(m, cleaned, status)
      PROVE  TypeOK'
  <2>1. mig' \in [Ids -> Migrations] /\ Routed'
    BY <1>13, GoesRouted DEF Finish, Ends, Pcs, Threads, Statuses
  <2>2. mig[m].src \in Hosts
    BY <1>13 DEF Finish, TypeOK, Routed, Threads
  <2>3. dom' \in [Hosts -> {"none", "dir", "running"}]
          /\ slips' \subseteq {"stuck", "interrupted", "clobbered", "overtaken"}
    BY <1>13, <2>2, WipeType DEF Finish, TypeOK
  <2> QED
    BY <1>13, <2>1, <2>3 DEF Finish, TypeOK
<1>14. ASSUME NEW m \in Ids, RollBack(m)
      PROVE  TypeOK'
  <2>0. mig[m].status \in Statuses
    BY DEF TypeOK, Migrations
  <2>1. mig' \in [Ids -> Migrations] /\ Routed'
    BY <1>14, <2>0, GoesRouted DEF RollBack, Ends, Pcs, Threads, Statuses
  <2>2. row' \in Rows
    BY <1>14, RowTypes DEF RollBack, TypeOK, Migrating
  <2> QED
    BY <1>14, <2>1, <2>2 DEF RollBack, TypeOK
<1>15. ASSUME NEW m \in Ids, Undo(m)
      PROVE  TypeOK'
  <2>0. mig[m].outcome \in Statuses
    BY DEF TypeOK, Migrations, Statuses
  <2>1. mig' \in [Ids -> Migrations] /\ Routed'
    BY <1>15, <2>0, GoesRouted DEF Undo, Ends, Pcs, Threads, Statuses
  <2> QED
    BY <1>15, <2>1 DEF Undo, TypeOK
<1>16. ASSUME NEW m \in Ids, UndoFails(m)
      PROVE  TypeOK'
  <2>1. mig' \in [Ids -> Migrations] /\ Routed'
    BY <1>16, GoesRouted DEF UndoFails, Ends, Pcs, Threads, Statuses
  <2> QED
    BY <1>16, <2>1 DEF UndoFails, TypeOK
<1>17. ASSUME NEW m \in Ids, NEW ok \in BOOLEAN, Arrive(m, ok)
      PROVE  TypeOK'
  <2>1. mig[m].dest \in Hosts
    BY <1>17 DEF Arrive, TypeOK, Routed
  <2>2. row' \in Rows
    BY <1>17, <2>1, RowTypes DEF Arrive, TypeOK
  <2> QED
    BY <1>17, <2>2 DEF Arrive, TypeOK, Routed
<1>18. ASSUME NEW m \in Ids, ArriveRaises(m)
      PROVE  TypeOK'
  BY <1>18 DEF ArriveRaises, TypeOK, Routed
<1>19. ASSUME NEW m \in Ids, CleanUp(m)
      PROVE  TypeOK'
  <2>1. mig[m].dest \in Hosts
    BY <1>19 DEF CleanUp, TypeOK, Routed
  <2>2. dom' \in [Hosts -> {"none", "dir", "running"}]
          /\ slips' \subseteq {"stuck", "interrupted", "clobbered", "overtaken"}
    BY <1>19, <2>1, WipeType DEF CleanUp
  <2> QED
    BY <1>19, <2>2 DEF CleanUp, TypeOK, Routed
<1>20. ASSUME NEW d \in Hosts \cup {NULL}, LiveMigrate(d)
      PROVE  TypeOK'
  <2>1. nmig + 1 \in Ids
    BY <1>20 DEF LiveMigrate, TypeOK, Ids
  <2>2. mig' \in [Ids -> Migrations]
    BY <1>20, <2>1 DEF LiveMigrate, TypeOK, Migrations, Pcs, Statuses, Rows
  <2>3. mig'[nmig + 1].pc = "conductor" /\ mig'[nmig + 1].src \in Hosts
    BY <1>20, <2>1 DEF LiveMigrate, TypeOK, Rows
  <2>4. nmig + 1 \notin arrivals \cup cleanups
    BY <2>1 DEF TypeOK, Routed
  <2>5. Routed'
    BY <1>20, <2>1, <2>3, <2>4 DEF LiveMigrate, TypeOK, Routed, Threads, Ids
  <2>6. nmig' \in 0 .. MaxMigrations
    BY <1>20 DEF LiveMigrate, TypeOK
  <2>7. row' \in Rows
    BY <1>20, RowTypes DEF LiveMigrate, TypeOK
  <2> QED
    BY <1>20, <2>2, <2>5, <2>6, <2>7 DEF LiveMigrate, TypeOK
<1>21. CASE UnknownHost
  BY <1>21, RowTypes DEF UnknownHost, TypeOK, Routed
<1>22. CASE Delete
  <2>1. row' \in Rows /\ row.host \in Hosts
    BY <1>22, RowTypes DEF Delete, TypeOK, Rows
  <2> QED
    BY <1>22, <2>1 DEF Delete, TypeOK, Routed
<1>23. CASE Terminate
  BY <1>23, RowTypes DEF Terminate, TypeOK, Routed
<1>24. ASSUME NEW h \in Hosts, NEW moved \in BOOLEAN, NEW taken \in BOOLEAN,
             Restart(h, moved, taken)
      PROVE  TypeOK'
  <2> DEFINE lost == {m \in Ids : mig[m].src = h /\ mig[m].pc \in Threads \cup {"queued"}}
             copy == {m \in lost : mig[m].pc = "copy" /\ CanMove(m)}
  <2>1. mig' = [m \in Ids |-> IF m \in lost THEN [mig[m] EXCEPT !.pc = "ended"] ELSE mig[m]]
    BY <1>24 DEF Restart
  <2>2. \A m \in Ids : mig[m] \in Migrations
    BY DEF TypeOK
  <2>3. \A m \in Ids : /\ mig'[m] \in Migrations
                       /\ mig'[m].src = mig[m].src /\ mig'[m].dest = mig[m].dest
                       /\ mig'[m].pc = IF m \in lost THEN "ended" ELSE mig[m].pc
    BY <2>1, <2>2 DEF Migrations, Pcs
  <2>4. mig' \in [Ids -> Migrations]
    BY <2>1, <2>3
  <2>5. arrivals' \subseteq arrivals /\ cleanups' \subseteq cleanups /\ nmig' = nmig
    BY <1>24 DEF Restart
  <2>6. Routed'
    BY <2>3, <2>5 DEF TypeOK, Routed, Threads
  <2>7. row' \in Rows
    BY <1>24, RowTypes DEF Restart, TypeOK
  <2>8. dom' \in [Hosts -> {"none", "dir", "running"}]
    <3>1. CASE moved
      <4>1. copy # {} /\ dom' = Moved(CHOOSE m \in copy : TRUE)
        BY <1>24, <3>1 DEF Restart
      <4>2. (CHOOSE m \in copy : TRUE) \in copy
        BY <4>1
      <4> QED
        BY <4>1, <4>2, MovedType
    <3>2. CASE ~moved
      BY <1>24, <3>2 DEF Restart, TypeOK
    <3> QED
      BY <3>1, <3>2
  <2> QED
    BY <1>24, <2>4, <2>5, <2>6, <2>7, <2>8 DEF Restart, TypeOK
<1>25. CASE UNCHANGED vars
  BY <1>25 DEF TypeOK, Routed, vars
<1> QED
  BY <1>1, <1>2, <1>3, <1>4, <1>5, <1>6, <1>7, <1>8, <1>9,
     <1>10, <1>11, <1>12, <1>13, <1>14, <1>15, <1>16, <1>17,
     <1>18, <1>19, <1>20, <1>21, <1>22, <1>23, <1>24, <1>25
     DEF Next, Conductor, Source, Destination

\* The initial states are typed.
LEMMA TypeInit == Init => TypeOK
BY DEF Init, TypeOK, Rows, Migrations, Pcs, Statuses, Routed, Threads, Ids

(* The state stays typed: a migration that reached its source goes from one *)
(* existing host to another, whatever fails, is deleted or restarts.        *)
THEOREM MigrationTypeCorrect == Spec => []TypeOK
BY TypeInit, TypeStep, PTL DEF Spec

------------------------------------------------------------------------------
(* What a step does to the migrations, as far as the invariant looks.       *)

\* A migration that goes on leaves the others where they are.
LEMMA GoesKeeps ==
    ASSUME TypeOK, NEW m \in Ids, NEW pc, NEW status, Goes(m, pc, status)
    PROVE  \A n \in Ids : /\ mig'[n].src = mig[n].src /\ mig'[n].dest = mig[n].dest
                          /\ mig'[n].pc = IF n = m THEN pc ELSE mig[n].pc
<1>1. mig'[m] = [mig[m] EXCEPT !.pc = pc, !.status = status] /\ mig[m] \in Migrations
  BY DEF Goes, TypeOK
<1>2. mig'[m].pc = pc /\ mig'[m].src = mig[m].src /\ mig'[m].dest = mig[m].dest
  BY <1>1 DEF Migrations
<1> QED
  BY <1>2 DEF Goes, TypeOK

(* Every step keeps the invariant.                                          *)
LEMMA InvStep ==
    ASSUME MigrationInv, [Next]_vars
    PROVE  MigrationInv'
<1> DEFINE Placed == NewestActive /\ Whereabouts /\ Spared /\ Undisturbed
<1> DEFINE Kept == Bookkeeping' /\ ("interrupted" \notin slips' => Placed')
<1>t. TypeOK /\ Bookkeeping /\ ("interrupted" \notin slips => Placed) /\ TypeOK'
  BY TypeStep DEF MigrationInv
<1>s. SUFFICES Kept
  BY <1>t DEF MigrationInv
<1>1. ASSUME NEW m \in Ids, NEW d \in Hosts, Accept(m, d)
      PROVE  Kept
  <2>1. \A n \in Ids : /\ mig'[n].src = mig[n].src
                       /\ mig'[n].pc = IF n = m THEN "cast" ELSE mig[n].pc
                       /\ n # m => mig'[n].dest = mig[n].dest
    <3>1. mig[m] \in Migrations /\ mig'[m] = [mig[m] EXCEPT !.pc = "cast", !.dest = d]
      BY <1>1, <1>t DEF Accept, TypeOK
    <3>2. mig'[m].pc = "cast" /\ mig'[m].src = mig[m].src
      BY <3>1 DEF Migrations
    <3>3. \A n \in Ids \ {m} : mig'[n] = mig[n]
      BY <1>1, <1>t DEF Accept, TypeOK
    <3> QED
      BY <3>2, <3>3
  <2>2. Bookkeeping'
    BY <1>1, <1>t, <2>1 DEF Accept, Bookkeeping, TypeOK, Rows, Migrating, Threads
  <2>3. ASSUME "interrupted" \notin slips'
        PROVE  Placed'
    <3>1. Placed
      BY <1>1, <1>t, <2>3 DEF Accept
    <3>2. NewestActive'
      BY <1>1, <1>t, <3>1, <2>1
         DEF Accept, NewestActive, Active, AtSource, Bookkeeping, Routed, TypeOK, Rows, Threads
    <3>3. Whereabouts'
      BY <1>1, <1>t, <3>1, <2>1
         DEF Accept, NewestActive, Active, AtSource, Whereabouts, At, Bookkeeping, TypeOK,
             Rows, Routed, Threads
    <3>4. Spared'
      BY <1>1, <1>t, <3>1, <2>1
         DEF Accept, Spared, NewestActive, Active, AtSource, TypeOK, Rows, Routed, Threads
    <3>5. Undisturbed'
      BY <1>1, <1>t, <3>1, <2>1
         DEF Accept, Undisturbed, NewestActive, Active, AtSource, Whereabouts, At, TypeOK,
             Rows, Routed, Threads
    <3> QED
      BY <3>2, <3>3, <3>4, <3>5
  <2> QED
    BY <2>2, <2>3
<1>2. ASSUME NEW m \in Ids, Refuse(m)
      PROVE  Kept
  <2>1. \A n \in Ids : /\ mig'[n].src = mig[n].src /\ mig'[n].dest = mig[n].dest
                       /\ mig'[n].pc = IF n = m THEN "ended" ELSE mig[n].pc
    BY <1>2, <1>t, GoesKeeps DEF Refuse, Ends
  <2>2. Bookkeeping'
    BY <1>2, <1>t, <2>1 DEF Refuse, Bookkeeping, TypeOK, Rows, Migrating, Threads
  <2>3. ASSUME "interrupted" \notin slips'
        PROVE  Placed'
    <3>1. Placed
      BY <1>2, <1>t, <2>3 DEF Refuse
    <3>2. NewestActive'
      BY <1>2, <1>t, <3>1, <2>1
         DEF Refuse, NewestActive, Active, AtSource, Bookkeeping, Routed, TypeOK, Rows, Threads
    <3>3. Whereabouts'
      BY <1>2, <1>t, <3>1, <2>1
         DEF Refuse, NewestActive, Active, AtSource, Whereabouts, At, Bookkeeping, TypeOK,
             Rows, Routed, Threads
    <3>4. Spared'
      BY <1>2, <1>t, <3>1, <2>1
         DEF Refuse, Spared, NewestActive, Active, AtSource, TypeOK, Rows, Routed, Threads
    <3>5. Undisturbed'
      BY <1>2, <1>t, <3>1, <2>1
         DEF Refuse, Undisturbed, NewestActive, Active, AtSource, Whereabouts, At, TypeOK,
             Rows, Routed, Threads
    <3> QED
      BY <3>2, <3>3, <3>4, <3>5
  <2> QED
    BY <2>2, <2>3
<1>3. ASSUME NEW m \in Ids, FailUnexpectedly(m)
      PROVE  Kept
  <2>1. \A n \in Ids : /\ mig'[n].src = mig[n].src /\ mig'[n].dest = mig[n].dest
                       /\ mig'[n].pc = IF n = m THEN "ended" ELSE mig[n].pc
    BY <1>3, <1>t, GoesKeeps DEF FailUnexpectedly, Ends
  <2>2. Bookkeeping'
    BY <1>3, <1>t, <2>1 DEF FailUnexpectedly, Bookkeeping, TypeOK, Rows, Migrating, Threads
  <2>3. ASSUME "interrupted" \notin slips'
        PROVE  Placed'
    <3>1. Placed
      BY <1>3, <1>t, <2>3 DEF FailUnexpectedly
    <3>2. NewestActive'
      BY <1>3, <1>t, <3>1, <2>1
         DEF FailUnexpectedly, NewestActive, Active, AtSource, Bookkeeping, Routed, TypeOK,
             Rows, Threads
    <3>3. Whereabouts'
      BY <1>3, <1>t, <3>1, <2>1
         DEF FailUnexpectedly, NewestActive, Active, AtSource, Whereabouts, At, Bookkeeping,
             TypeOK, Rows, Routed, Threads
    <3>4. Spared'
      BY <1>3, <1>t, <3>1, <2>1
         DEF FailUnexpectedly, Spared, NewestActive, Active, AtSource, TypeOK, Rows, Routed,
             Threads
    <3>5. Undisturbed'
      BY <1>3, <1>t, <3>1, <2>1
         DEF FailUnexpectedly, Undisturbed, NewestActive, Active, AtSource, Whereabouts, At,
             TypeOK, Rows, Routed, Threads
    <3> QED
      BY <3>2, <3>3, <3>4, <3>5
  <2> QED
    BY <2>2, <2>3
<1>4. ASSUME NEW m \in Ids, Queue(m)
      PROVE  Kept
  <2>1. \A n \in Ids : /\ mig'[n].src = mig[n].src /\ mig'[n].dest = mig[n].dest
                       /\ mig'[n].pc = IF n = m THEN "queued" ELSE mig[n].pc
    BY <1>4, <1>t, GoesKeeps DEF Queue, Ends
  <2>2. Bookkeeping'
    BY <1>4, <1>t, <2>1 DEF Queue, Bookkeeping, TypeOK, Rows, Migrating, Threads
  <2>3. ASSUME "interrupted" \notin slips'
        PROVE  Placed'
    <3>1. Placed
      BY <1>4, <1>t, <2>3 DEF Queue
    <3>2. NewestActive'
      BY <1>4, <1>t, <3>1, <2>1
         DEF Queue, NewestActive, Active, AtSource, Bookkeeping, Routed, TypeOK, Rows, Threads
    <3>3. Whereabouts'
      BY <1>4, <1>t, <3>1, <2>1
         DEF Queue, NewestActive, Active, AtSource, Whereabouts, At, Bookkeeping, TypeOK,
             Rows, Routed, Threads
    <3>4. Spared'
      BY <1>4, <1>t, <3>1, <2>1
         DEF Queue, Spared, NewestActive, Active, AtSource, TypeOK, Rows, Routed, Threads
    <3>5. Undisturbed'
      BY <1>4, <1>t, <3>1, <2>1
         DEF Queue, Undisturbed, NewestActive, Active, AtSource, Whereabouts, At, TypeOK,
             Rows, Routed, Threads
    <3> QED
      BY <3>2, <3>3, <3>4, <3>5
  <2> QED
    BY <2>2, <2>3
<1>5. ASSUME NEW m \in Ids, Begin(m)
      PROVE  Kept
  <2>1. \A n \in Ids : /\ mig'[n].src = mig[n].src /\ mig'[n].dest = mig[n].dest
                       /\ mig'[n].pc = IF n = m THEN "pre" ELSE mig[n].pc
    BY <1>5, <1>t, GoesKeeps DEF Begin, Ends
  <2>2. Bookkeeping'
    BY <1>5, <1>t, <2>1 DEF Begin, Bookkeeping, TypeOK, Rows, Migrating, Threads
  <2>3. ASSUME "interrupted" \notin slips'
        PROVE  Placed'
    <3>1. Placed
      BY <1>5, <1>t, <2>3 DEF Begin
    <3>2. NewestActive'
      BY <1>5, <1>t, <3>1, <2>1
         DEF Begin, NewestActive, Active, AtSource, Bookkeeping, Routed, TypeOK, Rows, Threads
    <3>3. Whereabouts'
      BY <1>5, <1>t, <3>1, <2>1
         DEF Begin, NewestActive, Active, AtSource, Whereabouts, At, Bookkeeping, TypeOK,
             Rows, Routed, Threads
    <3>4. Spared'
      BY <1>5, <1>t, <3>1, <2>1
         DEF Begin, Spared, NewestActive, Active, AtSource, TypeOK, Rows, Routed, Threads
    <3>5. Undisturbed'
      BY <1>5, <1>t, <3>1, <2>1
         DEF Begin, Undisturbed, NewestActive, Active, AtSource, Whereabouts, At, TypeOK,
             Rows, Routed, Threads
    <3> QED
      BY <3>2, <3>3, <3>4, <3>5
  <2> QED
    BY <2>2, <2>3
<1>6. ASSUME NEW m \in Ids, Prepare(m)
      PROVE  Kept
  <2>1. \A n \in Ids : /\ mig'[n].src = mig[n].src /\ mig'[n].dest = mig[n].dest
                       /\ mig'[n].pc = IF n = m THEN "copy" ELSE mig[n].pc
    BY <1>6, <1>t, GoesKeeps DEF Prepare, Ends
  <2>2. Bookkeeping'
    BY <1>6, <1>t, <2>1 DEF Prepare, Bookkeeping, TypeOK, Rows, Migrating, Threads
  <2>3. ASSUME "interrupted" \notin slips'
        PROVE  Placed'
    <3>1. Placed
      BY <1>6, <1>t, <2>3 DEF Prepare
    <3>2. NewestActive'
      BY <1>6, <1>t, <3>1, <2>1
         DEF Prepare, NewestActive, Active, AtSource, Bookkeeping, Routed, TypeOK, Rows, Threads
    <3>3. Whereabouts'
      BY <1>6, <1>t, <3>1, <2>1
         DEF Prepare, NewestActive, Active, AtSource, Whereabouts, At, Bookkeeping, TypeOK,
             Rows, Routed, Threads
    <3>4. Spared'
      BY <1>6, <1>t, <3>1, <2>1
         DEF Prepare, Spared, NewestActive, Active, AtSource, TypeOK, Rows, Routed, Threads
    <3>5. Undisturbed'
      BY <1>6, <1>t, <3>1, <2>1
         DEF Prepare, Undisturbed, NewestActive, Active, AtSource, Whereabouts, At, TypeOK,
             Rows, Routed, Threads
    <3> QED
      BY <3>2, <3>3, <3>4, <3>5
  <2> QED
    BY <2>2, <2>3
<1>7. ASSUME NEW m \in Ids, NEW left \in BOOLEAN, PrepareFails(m, left)
      PROVE  Kept
  <2>1. \A n \in Ids : /\ mig'[n].src = mig[n].src /\ mig'[n].dest = mig[n].dest
                       /\ mig'[n].pc = IF n = m THEN "rollback" ELSE mig[n].pc
    BY <1>7, <1>t, GoesKeeps DEF PrepareFails, Ends
  <2>2. Bookkeeping'
    BY <1>7, <1>t, <2>1 DEF PrepareFails, Bookkeeping, TypeOK, Rows, Migrating, Threads
  <2>3. ASSUME "interrupted" \notin slips'
        PROVE  Placed'
    <3>1. Placed
      BY <1>7, <1>t, <2>3 DEF PrepareFails
    <3>2. NewestActive'
      BY <1>7, <1>t, <3>1, <2>1
         DEF PrepareFails, NewestActive, Active, AtSource, Bookkeeping, Routed, TypeOK, Rows,
             Threads
    <3>3. Whereabouts'
      BY <1>7, <1>t, <3>1, <2>1
         DEF PrepareFails, NewestActive, Active, AtSource, Whereabouts, At, Bookkeeping,
             TypeOK, Rows, Routed, Threads
    <3>4. Spared'
      BY <1>7, <1>t, <3>1, <2>1
         DEF PrepareFails, Spared, NewestActive, Active, AtSource, TypeOK, Rows, Routed, Threads
    <3>5. Undisturbed'
      BY <1>7, <1>t, <3>1, <2>1
         DEF PrepareFails, Undisturbed, NewestActive, Active, AtSource, Whereabouts, At,
             TypeOK, Rows, Routed, Threads
    <3> QED
      BY <3>2, <3>3, <3>4, <3>5
  <2> QED
    BY <2>2, <2>3
<1>8. ASSUME NEW m \in Ids, Complete(m)
      PROVE  Kept
  <2>1. \A n \in Ids : /\ mig'[n].src = mig[n].src /\ mig'[n].dest = mig[n].dest
                       /\ mig'[n].pc = IF n = m THEN "post" ELSE mig[n].pc
    BY <1>8, <1>t, GoesKeeps DEF Complete, Ends
  <2>2. Bookkeeping'
    BY <1>8, <1>t, <2>1 DEF Complete, Bookkeeping, TypeOK, Rows, Migrating, Threads
  <2>3. ASSUME "interrupted" \notin slips'
        PROVE  Placed'
    <3>1. Placed
      BY <1>8, <1>t, <2>3 DEF Complete
    <3>2. NewestActive'
      BY <1>8, <1>t, <3>1, <2>1
         DEF Complete, NewestActive, Active, AtSource, Bookkeeping, Routed, TypeOK, Rows,
             Threads, Moved, CanMove
    <3>3. Whereabouts'
      BY <1>8, <1>t, <3>1, <2>1
         DEF Complete, NewestActive, Active, AtSource, Whereabouts, At, Bookkeeping, TypeOK,
             Rows, Routed, Threads, Moved, CanMove
    <3>4. Spared'
      <4>1. \A n \in Ids : n # m /\ mig[n].pc # "none" => n < m
        BY <1>8, <1>t, <3>1 DEF Complete, NewestActive, Active, AtSource, TypeOK, Routed, Ids
      <4>2. mig[m].src \in Hosts /\ mig[m].dest \in Hosts \ {mig[m].src} /\ owner[mig[m].dest] = m
        BY <1>8, <1>t, <3>1 DEF Complete, Spared, TypeOK, Routed, Threads
      <4>3. \A h \in Hosts : dom'[h] = "running" => dom[h] = "running" \/ h = mig[m].dest
        BY <1>8, <1>t, <4>2 DEF Complete, Moved, TypeOK
      <4>4. dom'[mig[m].src] = "dir"
        BY <1>8, <1>t, <4>2 DEF Complete, Moved, TypeOK
      <4> QED
        BY <1>8, <1>t, <2>1, <3>1, <4>1, <4>2, <4>3, <4>4
           DEF Complete, Spared, Bookkeeping, TypeOK, Routed, Threads
    <3>5. Undisturbed'
      BY <1>8, <1>t, <3>1, <2>1
         DEF Complete, Undisturbed, NewestActive, Active, AtSource, Whereabouts, At, TypeOK,
             Rows, Routed, Threads, Moved, CanMove
    <3> QED
      BY <3>2, <3>3, <3>4, <3>5
  <2> QED
    BY <2>2, <2>3
<1>9. ASSUME NEW m \in Ids, NEW outcome \in {"error", "cancelled"}, FailOrAbort(m, outcome)
      PROVE  Kept
  <2>1. \A n \in Ids : /\ mig'[n].src = mig[n].src /\ mig'[n].dest = mig[n].dest
                       /\ mig'[n].pc = IF n = m THEN "rollback" ELSE mig[n].pc
    <3>1. mig[m] \in Migrations /\ mig'[m] = [mig[m] EXCEPT !.pc = "rollback", !.outcome = outcome]
      BY <1>9, <1>t DEF FailOrAbort, TypeOK
    <3>2. mig'[m].pc = "rollback" /\ mig'[m].src = mig[m].src /\ mig'[m].dest = mig[m].dest
      BY <3>1 DEF Migrations
    <3> QED
      BY <1>9, <1>t, <3>2 DEF FailOrAbort, TypeOK
  <2>2. Bookkeeping'
    BY <1>9, <1>t, <2>1 DEF FailOrAbort, Bookkeeping, TypeOK, Rows, Migrating, Threads
  <2>3. ASSUME "interrupted" \notin slips'
        PROVE  Placed'
    <3>1. Placed
      BY <1>9, <1>t, <2>3 DEF FailOrAbort
    <3>2. NewestActive'
      BY <1>9, <1>t, <3>1, <2>1
         DEF FailOrAbort, NewestActive, Active, AtSource, Bookkeeping, Routed, TypeOK, Rows,
             Threads
    <3>3. Whereabouts'
      BY <1>9, <1>t, <3>1, <2>1
         DEF FailOrAbort, NewestActive, Active, AtSource, Whereabouts, At, Bookkeeping,
             TypeOK, Rows, Routed, Threads
    <3>4. Spared'
      BY <1>9, <1>t, <3>1, <2>1
         DEF FailOrAbort, Spared, NewestActive, Active, AtSource, TypeOK, Rows, Routed, Threads
    <3>5. Undisturbed'
      BY <1>9, <1>t, <3>1, <2>1
         DEF FailOrAbort, Undisturbed, NewestActive, Active, AtSource, Whereabouts, At,
             TypeOK, Rows, Routed, Threads
    <3> QED
      BY <3>2, <3>3, <3>4, <3>5
  <2> QED
    BY <2>2, <2>3
<1>10. ASSUME NEW m \in Ids, NEW moved \in BOOLEAN, MonitorRaises(m, moved)
      PROVE  Kept
  <2>1. \A n \in Ids : /\ mig'[n].src = mig[n].src /\ mig'[n].dest = mig[n].dest
                       /\ mig'[n].pc = IF n = m THEN "ended" ELSE mig[n].pc
    BY <1>10, <1>t, GoesKeeps DEF MonitorRaises, Ends
  <2>2. Bookkeeping'
    BY <1>10, <1>t, <2>1 DEF MonitorRaises, Bookkeeping, TypeOK, Rows, Migrating, Threads
  <2>3. ASSUME "interrupted" \notin slips'
        PROVE  Placed'
    <3>1. Placed
      BY <1>10, <1>t, <2>3 DEF MonitorRaises
    <3>2. NewestActive'
      BY <1>10, <1>t, <3>1, <2>1
         DEF MonitorRaises, NewestActive, Active, AtSource, Bookkeeping, Routed, TypeOK, Rows,
             Threads, Moved, CanMove
    <3>3. Whereabouts'
      BY <1>10, <1>t, <3>1, <2>1
         DEF MonitorRaises, NewestActive, Active, AtSource, Whereabouts, At, Bookkeeping,
             TypeOK, Rows, Routed, Threads, Moved, CanMove
    <3>4. Spared'
      <4>1. \A n \in Ids : n # m /\ mig[n].pc # "none" => n < m
        BY <1>10, <1>t, <3>1
           DEF MonitorRaises, NewestActive, Active, AtSource, TypeOK, Routed, Ids
      <4>2. mig[m].src \in Hosts /\ mig[m].dest \in Hosts \ {mig[m].src} /\ owner[mig[m].dest] = m
        BY <1>10, <1>t, <3>1 DEF MonitorRaises, Spared, TypeOK, Routed, Threads
      <4>3. \A h \in Hosts : dom'[h] = "running" => dom[h] = "running" \/ h = mig[m].dest
        BY <1>10, <1>t, <4>2 DEF MonitorRaises, Moved, TypeOK
      <4> QED
        BY <1>10, <1>t, <2>1, <3>1, <4>1, <4>2, <4>3
           DEF MonitorRaises, Spared, Bookkeeping, TypeOK, Routed, Threads
    <3>5. Undisturbed'
      BY <1>10, <1>t, <3>1, <2>1
         DEF MonitorRaises, Undisturbed, NewestActive, Active, AtSource, Whereabouts, At,
             TypeOK, Rows, Routed, Threads, Moved, CanMove
    <3> QED
      BY <3>2, <3>3, <3>4, <3>5
  <2> QED
    BY <2>2, <2>3
<1>11. ASSUME NEW m \in Ids, PostRaises(m)
      PROVE  Kept
  <2>1. \A n \in Ids : /\ mig'[n].src = mig[n].src /\ mig'[n].dest = mig[n].dest
                       /\ mig'[n].pc = IF n = m THEN "ended" ELSE mig[n].pc
    BY <1>11, <1>t, GoesKeeps DEF PostRaises, Ends
  <2>2. Bookkeeping'
    BY <1>11, <1>t, <2>1 DEF PostRaises, Bookkeeping, TypeOK, Rows, Migrating, Threads
  <2>3. ASSUME "interrupted" \notin slips'
        PROVE  Placed'
    <3>1. Placed
      BY <1>11, <1>t, <2>3 DEF PostRaises
    <3>2. NewestActive'
      BY <1>11, <1>t, <3>1, <2>1
         DEF PostRaises, NewestActive, Active, AtSource, Bookkeeping, Routed, TypeOK, Rows,
             Threads
    <3>3. Whereabouts'
      BY <1>11, <1>t, <3>1, <2>1
         DEF PostRaises, NewestActive, Active, AtSource, Whereabouts, At, Bookkeeping, TypeOK,
             Rows, Routed, Threads
    <3>4. Spared'
      BY <1>11, <1>t, <3>1, <2>1
         DEF PostRaises, Spared, NewestActive, Active, AtSource, TypeOK, Rows, Routed, Threads
    <3>5. Undisturbed'
      BY <1>11, <1>t, <3>1, <2>1
         DEF PostRaises, Undisturbed, NewestActive, Active, AtSource, Whereabouts, At, TypeOK,
             Rows, Routed, Threads
    <3> QED
      BY <3>2, <3>3, <3>4, <3>5
  <2> QED
    BY <2>2, <2>3
<1>12. ASSUME NEW m \in Ids, Post(m)
      PROVE  Kept
  <2>1. \A n \in Ids : /\ mig'[n].src = mig[n].src /\ mig'[n].dest = mig[n].dest
                       /\ mig'[n].pc = IF n = m THEN "finish" ELSE mig[n].pc
    BY <1>12, <1>t, GoesKeeps DEF Post, Ends
  <2>2. Bookkeeping'
    BY <1>12, <1>t, <2>1 DEF Post, Bookkeeping, TypeOK, Rows, Migrating, Threads
  <2>3. ASSUME "interrupted" \notin slips'
        PROVE  Placed'
    <3>1. Placed
      BY <1>12, <1>t, <2>3 DEF Post
    <3>2. NewestActive'
      BY <1>12, <1>t, <3>1, <2>1
         DEF Post, NewestActive, Active, AtSource, Bookkeeping, Routed, TypeOK, Rows, Threads
    <3>3. Whereabouts'
      BY <1>12, <1>t, <3>1, <2>1
         DEF Post, NewestActive, Active, AtSource, Whereabouts, At, Bookkeeping, TypeOK, Rows,
             Routed, Threads
    <3>4. Spared'
      BY <1>12, <1>t, <3>1, <2>1
         DEF Post, Spared, NewestActive, Active, AtSource, TypeOK, Rows, Routed, Threads
    <3>5. Undisturbed'
      BY <1>12, <1>t, <3>1, <2>1
         DEF Post, Undisturbed, NewestActive, Active, AtSource, Whereabouts, At, TypeOK, Rows,
             Routed, Threads
    <3> QED
      BY <3>2, <3>3, <3>4, <3>5
  <2> QED
    BY <2>2, <2>3
<1>13. ASSUME NEW m \in Ids, NEW cleaned \in BOOLEAN, NEW status \in {"completed", "error"},
             Finish(m, cleaned, status)
      PROVE  Kept
  <2>1. \A n \in Ids : /\ mig'[n].src = mig[n].src /\ mig'[n].dest = mig[n].dest
                       /\ mig'[n].pc = IF n = m THEN "ended" ELSE mig[n].pc
    BY <1>13, <1>t, GoesKeeps DEF Finish, Ends
  <2>2. Bookkeeping'
    BY <1>13, <1>t, <2>1 DEF Finish, Bookkeeping, TypeOK, Rows, Migrating, Threads
  <2>3. ASSUME "interrupted" \notin slips'
        PROVE  Placed'
    <3>1. Placed
      BY <1>13, <1>t, <2>3 DEF Finish, Wipe
    <3>2. NewestActive'
      BY <1>13, <1>t, <3>1, <2>1
         DEF Finish, NewestActive, Active, AtSource, Bookkeeping, Routed, TypeOK, Rows,
             Threads, Wipe
    <3>3. Whereabouts'
      BY <1>13, <1>t, <3>1, <2>1
         DEF Finish, NewestActive, Active, AtSource, Whereabouts, At, Bookkeeping, TypeOK,
             Rows, Routed, Threads, Wipe
    <3>4. Spared'
      BY <1>13, <1>t, <3>1, <2>1
         DEF Finish, Spared, NewestActive, Active, AtSource, TypeOK, Rows, Routed, Threads, Wipe
    <3>5. Undisturbed'
      BY <1>13, <1>t, <3>1, <2>1
         DEF Finish, Undisturbed, NewestActive, Active, AtSource, Whereabouts, At, TypeOK,
             Rows, Routed, Threads, Wipe
    <3> QED
      BY <3>2, <3>3, <3>4, <3>5
  <2> QED
    BY <2>2, <2>3
<1>14. ASSUME NEW m \in Ids, RollBack(m)
      PROVE  Kept
  <2>1. \A n \in Ids : /\ mig'[n].src = mig[n].src /\ mig'[n].dest = mig[n].dest
                       /\ mig'[n].pc = IF n = m THEN (IF Migrating THEN "undo" ELSE "ended") ELSE mig[n].pc
    BY <1>14, <1>t, GoesKeeps DEF RollBack, Ends
  <2>2. Bookkeeping'
    BY <1>14, <1>t, <2>1 DEF RollBack, Bookkeeping, TypeOK, Rows, Migrating, Threads
  <2>3. ASSUME "interrupted" \notin slips'
        PROVE  Placed'
    <3>1. Placed
      BY <1>14, <1>t, <2>3 DEF RollBack
    <3>2. NewestActive'
      BY <1>14, <1>t, <3>1, <2>1
         DEF RollBack, NewestActive, Active, AtSource, Bookkeeping, Routed, TypeOK, Rows,
             Migrating, Threads
    <3>3. Whereabouts'
      BY <1>14, <1>t, <3>1, <2>1
         DEF RollBack, NewestActive, Active, AtSource, Whereabouts, At, Bookkeeping, TypeOK,
             Rows, Migrating, Routed, Threads
    <3>4. Spared'
      <4>1. Migrating => dom[mig[m].dest] # "running"
        BY <1>14, <1>t, <3>1
           DEF RollBack, Migrating, NewestActive, Active, AtSource, Whereabouts, At, TypeOK,
               Routed, Threads
      <4> QED
        BY <1>14, <1>t, <2>1, <3>1, <4>1 DEF RollBack, Spared
    <3>5. Undisturbed'
      BY <1>14, <1>t, <3>1, <2>1
         DEF RollBack, Undisturbed, NewestActive, Active, AtSource, Whereabouts, At, TypeOK,
             Rows, Migrating, Routed, Threads
    <3> QED
      BY <3>2, <3>3, <3>4, <3>5
  <2> QED
    BY <2>2, <2>3
<1>15. ASSUME NEW m \in Ids, Undo(m)
      PROVE  Kept
  <2>1. \A n \in Ids : /\ mig'[n].src = mig[n].src /\ mig'[n].dest = mig[n].dest
                       /\ mig'[n].pc = IF n = m THEN "ended" ELSE mig[n].pc
    BY <1>15, <1>t, GoesKeeps DEF Undo, Ends
  <2>2. Bookkeeping'
    BY <1>15, <1>t, <2>1 DEF Undo, Bookkeeping, TypeOK, Rows, Migrating, Threads
  <2>3. ASSUME "interrupted" \notin slips'
        PROVE  Placed'
    <3>1. Placed
      BY <1>15, <1>t, <2>3 DEF Undo
    <3>2. NewestActive'
      BY <1>15, <1>t, <3>1, <2>1
         DEF Undo, NewestActive, Active, AtSource, Bookkeeping, Routed, TypeOK, Rows, Threads
    <3>3. Whereabouts'
      BY <1>15, <1>t, <3>1, <2>1
         DEF Undo, NewestActive, Active, AtSource, Whereabouts, At, Bookkeeping, TypeOK, Rows,
             Routed, Threads
    <3>4. Spared'
      BY <1>15, <1>t, <3>1, <2>1
         DEF Undo, Spared, NewestActive, Active, AtSource, TypeOK, Rows, Routed, Threads
    <3>5. Undisturbed'
      BY <1>15, <1>t, <3>1, <2>1
         DEF Undo, Undisturbed, NewestActive, Active, AtSource, Whereabouts, At, TypeOK, Rows,
             Routed, Threads
    <3> QED
      BY <3>2, <3>3, <3>4, <3>5
  <2> QED
    BY <2>2, <2>3
<1>16. ASSUME NEW m \in Ids, UndoFails(m)
      PROVE  Kept
  <2>1. \A n \in Ids : /\ mig'[n].src = mig[n].src /\ mig'[n].dest = mig[n].dest
                       /\ mig'[n].pc = IF n = m THEN "ended" ELSE mig[n].pc
    BY <1>16, <1>t, GoesKeeps DEF UndoFails, Ends
  <2>2. Bookkeeping'
    BY <1>16, <1>t, <2>1 DEF UndoFails, Bookkeeping, TypeOK, Rows, Migrating, Threads
  <2>3. ASSUME "interrupted" \notin slips'
        PROVE  Placed'
    <3>1. Placed
      BY <1>16, <1>t, <2>3 DEF UndoFails
    <3>2. NewestActive'
      BY <1>16, <1>t, <3>1, <2>1
         DEF UndoFails, NewestActive, Active, AtSource, Bookkeeping, Routed, TypeOK, Rows,
             Threads
    <3>3. Whereabouts'
      BY <1>16, <1>t, <3>1, <2>1
         DEF UndoFails, NewestActive, Active, AtSource, Whereabouts, At, Bookkeeping, TypeOK,
             Rows, Routed, Threads
    <3>4. Spared'
      BY <1>16, <1>t, <3>1, <2>1
         DEF UndoFails, Spared, NewestActive, Active, AtSource, TypeOK, Rows, Routed, Threads
    <3>5. Undisturbed'
      BY <1>16, <1>t, <3>1, <2>1
         DEF UndoFails, Undisturbed, NewestActive, Active, AtSource, Whereabouts, At, TypeOK,
             Rows, Routed, Threads
    <3> QED
      BY <3>2, <3>3, <3>4, <3>5
  <2> QED
    BY <2>2, <2>3
<1>17. ASSUME NEW m \in Ids, NEW ok \in BOOLEAN, Arrive(m, ok)
      PROVE  Kept
  <2>2. Bookkeeping'
    BY <1>17, <1>t DEF Arrive, Bookkeeping, TypeOK, Rows, Migrating
  <2>3. ASSUME "interrupted" \notin slips'
        PROVE  Placed'
    <3>1. Placed
      BY <1>17, <1>t, <2>3 DEF Arrive
    <3>2. NewestActive'
      BY <1>17, <1>t, <3>1
         DEF Arrive, NewestActive, Active, AtSource, Bookkeeping, Routed, TypeOK, Rows,
             Migrating, Threads
    <3>3. Whereabouts'
      BY <1>17, <1>t, <3>1
         DEF Arrive, NewestActive, Active, AtSource, Whereabouts, At, Bookkeeping, TypeOK,
             Rows, Migrating, Routed, Threads
    <3>4. Spared'
      BY <1>17, <1>t, <3>1
         DEF Arrive, Spared, NewestActive, Active, AtSource, TypeOK, Rows, Migrating, Routed,
             Threads
    <3>5. Undisturbed'
      BY <1>17, <1>t, <3>1
         DEF Arrive, Undisturbed, NewestActive, Active, AtSource, Whereabouts, At, TypeOK,
             Rows, Migrating, Routed, Threads
    <3> QED
      BY <3>2, <3>3, <3>4, <3>5
  <2> QED
    BY <2>2, <2>3
<1>18. ASSUME NEW m \in Ids, ArriveRaises(m)
      PROVE  Kept
  <2>2. Bookkeeping'
    BY <1>18, <1>t DEF ArriveRaises, Bookkeeping, TypeOK, Rows, Migrating
  <2>3. ASSUME "interrupted" \notin slips'
        PROVE  Placed'
    <3>1. Placed
      BY <1>18, <1>t, <2>3 DEF ArriveRaises
    <3>2. NewestActive'
      BY <1>18, <1>t, <3>1
         DEF ArriveRaises, NewestActive, Active, AtSource, Bookkeeping, Routed, TypeOK, Rows
    <3>3. Whereabouts'
      BY <1>18, <1>t, <3>1
         DEF ArriveRaises, NewestActive, Active, AtSource, Whereabouts, At, Bookkeeping,
             TypeOK, Rows
    <3>4. Spared'
      BY <1>18, <1>t, <3>1
         DEF ArriveRaises, Spared, NewestActive, Active, AtSource, TypeOK, Rows
    <3>5. Undisturbed'
      BY <1>18, <1>t, <3>1
         DEF ArriveRaises, Undisturbed, NewestActive, Active, AtSource, Whereabouts, At,
             TypeOK, Rows
    <3> QED
      BY <3>2, <3>3, <3>4, <3>5
  <2> QED
    BY <2>2, <2>3
<1>19. ASSUME NEW m \in Ids, CleanUp(m)
      PROVE  Kept
  <2>2. Bookkeeping'
    BY <1>19, <1>t DEF CleanUp, Bookkeeping, TypeOK, Rows, Migrating
  <2>3. ASSUME "interrupted" \notin slips'
        PROVE  Placed'
    <3>1. Placed
      BY <1>19, <1>t, <2>3 DEF CleanUp, Wipe
    <3>2. NewestActive'
      BY <1>19, <1>t, <3>1
         DEF CleanUp, NewestActive, Active, AtSource, Bookkeeping, Routed, TypeOK, Rows,
             Threads, Wipe
    <3>3. Whereabouts'
      BY <1>19, <1>t, <3>1
         DEF CleanUp, NewestActive, Active, AtSource, Whereabouts, At, Bookkeeping, TypeOK,
             Rows, Routed, Threads, Wipe
    <3>4. Spared'
      BY <1>19, <1>t, <3>1
         DEF CleanUp, Spared, NewestActive, Active, AtSource, TypeOK, Rows, Routed, Threads,
             Wipe
    <3>5. Undisturbed'
      BY <1>19, <1>t, <3>1
         DEF CleanUp, Undisturbed, NewestActive, Active, AtSource, Whereabouts, At, TypeOK,
             Rows, Routed, Threads, Wipe
    <3> QED
      BY <3>2, <3>3, <3>4, <3>5
  <2> QED
    BY <2>2, <2>3
<1>20. ASSUME NEW d \in Hosts \cup {NULL}, LiveMigrate(d)
      PROVE  Kept
  <2>1. /\ nmig + 1 \in Ids /\ mig'[nmig + 1].pc = "conductor" /\ mig'[nmig + 1].src = row.host
        /\ \A n \in Ids \ {nmig + 1} : mig'[n] = mig[n]
        /\ nmig + 1 \notin arrivals \cup cleanups
    BY <1>20, <1>t DEF LiveMigrate, TypeOK, Ids, Routed
  <2>2. Bookkeeping'
    BY <1>20, <1>t, <2>1 DEF LiveMigrate, Bookkeeping, TypeOK, Rows, Migrating
  <2>3. ASSUME "interrupted" \notin slips'
        PROVE  Placed'
    <3>1. Placed
      BY <1>20, <1>t, <2>3 DEF LiveMigrate
    <3>2. NewestActive'
      BY <1>20, <1>t, <3>1, <2>1
         DEF LiveMigrate, NewestActive, Active, AtSource, Bookkeeping, Routed, TypeOK, Rows
    <3>3. Whereabouts'
      BY <1>20, <1>t, <3>1, <2>1
         DEF LiveMigrate, NewestActive, Active, AtSource, Whereabouts, At, Bookkeeping,
             TypeOK, Rows
    <3>4. Spared'
      BY <1>20, <1>t, <3>1, <2>1
         DEF LiveMigrate, Spared, NewestActive, Active, AtSource, TypeOK, Rows
    <3>5. Undisturbed'
      BY <1>20, <1>t, <3>1, <2>1 DEF LiveMigrate, Undisturbed, Bookkeeping, TypeOK
    <3> QED
      BY <3>2, <3>3, <3>4, <3>5
  <2> QED
    BY <2>2, <2>3
<1>21. CASE UnknownHost
  <2>2. Bookkeeping'
    BY <1>21, <1>t DEF UnknownHost, Bookkeeping, TypeOK, Rows, Migrating
  <2>3. ASSUME "interrupted" \notin slips'
        PROVE  Placed'
    <3>1. Placed
      BY <1>21, <1>t, <2>3 DEF UnknownHost
    <3>2. NewestActive'
      BY <1>21, <1>t, <3>1
         DEF UnknownHost, NewestActive, Active, AtSource, Bookkeeping, Routed, TypeOK, Rows
    <3>3. Whereabouts'
      BY <1>21, <1>t, <3>1
         DEF UnknownHost, NewestActive, Active, AtSource, Whereabouts, At, Bookkeeping,
             TypeOK, Rows
    <3>4. Spared'
      BY <1>21, <1>t, <3>1 DEF UnknownHost, Spared, NewestActive, Active, AtSource, TypeOK, Rows
    <3>5. Undisturbed'
      BY <1>21, <1>t, <3>1
         DEF UnknownHost, Undisturbed, NewestActive, Active, AtSource, Whereabouts, At,
             TypeOK, Rows
    <3> QED
      BY <3>2, <3>3, <3>4, <3>5
  <2> QED
    BY <2>2, <2>3
<1>22. CASE Delete
  <2>2. Bookkeeping'
    BY <1>22, <1>t DEF Delete, Bookkeeping, TypeOK, Rows, Migrating
  <2>3. ASSUME "interrupted" \notin slips'
        PROVE  Placed'
    <3>1. Placed
      BY <1>22, <1>t, <2>3 DEF Delete
    <3>2. NewestActive'
      BY <1>22, <1>t, <3>1
         DEF Delete, NewestActive, Active, AtSource, Bookkeeping, Routed, TypeOK, Rows
    <3>3. Whereabouts'
      BY <1>22, <1>t, <3>1
         DEF Delete, NewestActive, Active, AtSource, Whereabouts, At, Bookkeeping, TypeOK, Rows
    <3>4. Spared'
      BY <1>22, <1>t, <3>1 DEF Delete, Spared, NewestActive, Active, AtSource, TypeOK, Rows
    <3>5. Undisturbed'
      <4>1. "overtaken" \notin slips' => row.task = NULL
        BY <1>22, <1>t DEF Delete, Bookkeeping, TypeOK, Rows
      <4>2. row.task = NULL => At(row.host) /\ \A m \in Ids : ~Active(m)
        BY <1>22, <1>t, <3>1 DEF Delete, NewestActive, Whereabouts
      <4> QED
        BY <1>22, <1>t, <4>1, <4>2 DEF Delete, Undisturbed, At, Active, TypeOK, Rows
    <3> QED
      BY <3>2, <3>3, <3>4, <3>5
  <2> QED
    BY <2>2, <2>3
<1>23. CASE Terminate
  <2>2. Bookkeeping'
    BY <1>23, <1>t DEF Terminate, Bookkeeping, TypeOK, Rows, Migrating
  <2>3. ASSUME "interrupted" \notin slips'
        PROVE  Placed'
    <3>1. Placed
      BY <1>23, <1>t, <2>3 DEF Terminate
    <3>2. NewestActive'
      BY <1>23, <1>t, <3>1
         DEF Terminate, NewestActive, Active, AtSource, Bookkeeping, Routed, TypeOK, Rows
    <3>3. Whereabouts'
      BY <1>23, <1>t, <3>1
         DEF Terminate, NewestActive, Active, AtSource, Whereabouts, At, Bookkeeping, TypeOK,
             Rows
    <3>4. Spared'
      BY <1>23, <1>t, <3>1 DEF Terminate, Spared, NewestActive, Active, AtSource, TypeOK, Rows
    <3>5. Undisturbed'
      BY <1>23, <1>t, <3>1
         DEF Terminate, Undisturbed, NewestActive, Active, AtSource, Whereabouts, At, TypeOK,
             Rows
    <3> QED
      BY <3>2, <3>3, <3>4, <3>5
  <2> QED
    BY <2>2, <2>3
<1>24. ASSUME NEW h \in Hosts, NEW moved \in BOOLEAN, NEW taken \in BOOLEAN,
             Restart(h, moved, taken)
      PROVE  Kept
  <2> DEFINE lost == {m \in Ids : mig[m].src = h /\ mig[m].pc \in Threads \cup {"queued"}}
             copy == {m \in lost : mig[m].pc = "copy" /\ CanMove(m)}
  <2>1. \A n \in Ids : mig'[n].pc = IF n \in lost THEN "ended" ELSE mig[n].pc
    BY <1>24, <1>t DEF Restart, TypeOK, Migrations
  <2>2. Bookkeeping'
    BY <1>24, <1>t, <2>1 DEF Restart, Bookkeeping, TypeOK, Rows
  <2>3. ASSUME "interrupted" \notin slips'
        PROVE  Placed'
    <3>1. Placed
      BY <1>24, <1>t, <2>3 DEF Restart
    <3>2. lost = {} /\ arrivals' = arrivals /\ row' = row /\ slips' = slips
      BY <1>24, <2>3 DEF Restart
    <3>3. dom' = dom
      BY <1>24, <3>2 DEF Restart
    <3>4. mig' = mig
      BY <1>24, <1>t, <3>2 DEF Restart, TypeOK
    <3>5. cleanups' \subseteq cleanups /\ UNCHANGED <<owner, nmig, dpc, dhost>>
      BY <1>24 DEF Restart
    <3> QED
      BY <3>1, <3>2, <3>3, <3>4, <3>5
         DEF NewestActive, Whereabouts, Spared, Undisturbed, Active, At
  <2> QED
    BY <2>2, <2>3
<1>25. CASE UNCHANGED vars
  BY <1>25, <1>t
     DEF vars, Bookkeeping, NewestActive, Whereabouts, Spared, Undisturbed, Active, At
<1> QED
  BY <1>1, <1>2, <1>3, <1>4, <1>5, <1>6, <1>7, <1>8, <1>9,
     <1>10, <1>11, <1>12, <1>13, <1>14, <1>15, <1>16, <1>17,
     <1>18, <1>19, <1>20, <1>21, <1>22, <1>23, <1>24, <1>25
     DEF Next, Conductor, Source, Destination

\* The invariant holds at first.
LEMMA InvInit == Init => MigrationInv
<1> SUFFICES ASSUME Init PROVE MigrationInv
  OBVIOUS
<1>1. TypeOK
  BY TypeInit
<1>2. \A m \in Ids : mig[m].pc = "none"
  BY DEF Init
<1>3. At(row.host)
  BY DEF Init, At
<1> QED
  BY <1>1, <1>2, <1>3
     DEF Init, MigrationInv, Bookkeeping, NewestActive, Whereabouts, Spared, Undisturbed,
         Active, AtSource

\* The invariant holds in every behaviour.
LEMMA MigrationInvariant == Spec => []MigrationInv
BY InvInit, InvStep, PTL DEF Spec

------------------------------------------------------------------------------
(* A VM whose row is active and idle runs on the host of the row and        *)
(* nowhere else: the saves that expect MIGRATING, on the destination and in *)
(* the rollback, keep the column and the domain together, for any number of *)
(* hosts and migrations.                                                    *)
THEOREM IdleRunsOnItsHost == Spec => []RunsOnItsHost
<1>1. MigrationInv => RunsOnItsHost
  BY DEF MigrationInv, Whereabouts, At, RunsOnItsHost, TypeOK, Rows
<1> QED
  BY <1>1, MigrationInvariant, PTL

(* A VM that was deleted while no migration was under way runs on no host.  *)
THEOREM DeletedIsGone == Spec => []DeletedRunsNowhere
<1>1. MigrationInv => DeletedRunsNowhere
  BY DEF MigrationInv, Bookkeeping, Undisturbed, DeletedRunsNowhere, TypeOK
<1> QED
  BY <1>1, MigrationInvariant, PTL

(* A migration never cleans up the VM that it brought to a host or left     *)
(* where it was: a late clean-up can only hit a later migration's.          *)
THEOREM CleanUpsSpareTheirOwn == Spec => []SparesItsOwnVM
<1>1. MigrationInv => SparesItsOwnVM
  BY DEF MigrationInv, Spared, SparesItsOwnVM, TypeOK
<1> QED
  BY <1>1, MigrationInvariant, PTL

==============================================================================
