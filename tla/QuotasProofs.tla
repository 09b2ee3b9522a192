---------------------------- MODULE QuotasProofs ----------------------------
(* For any users, instances, limits and number of faults: what is reserved  *)
(* is backed by reservations, also when deletes overlap; and, when they do  *)
(* not, usage and reservations cover the instances there are, neither a     *)
(* user nor the project has more of them than allowed, and what is counted  *)
(* when the requests of a user are over is there.                           *)
EXTENDS QuotaTotalProofs

USE QuotasAssumption

\* The part of the type invariant that the reservations need.
ReserveTypes ==
    /\ live \subseteq Requests /\ due \subseteq live
    /\ reserved \in [Users -> Int]
    /\ stale \subseteq Users /\ value \in [Users -> Int] /\ garbled \subseteq Users
    /\ cpc \in [Instances -> CreatePcs]
    /\ rpc \in [Instances -> {"idle", "reserved", "commit", "rollback"}]

Backed ==
    \A u \in Users : /\ IsFiniteSet(Backing(u))
                     /\ u \notin garbled => reserved[u] = Cardinality(Backing(u))

\* An expiry under way takes what it deletes off the usage that it overwrites, and
\* an update that it lost is a slip of the instances of that user.
Expiring ==
    /\ \A p \in due : Delta(p) > 0 => User(p) \in stale
    /\ \A u \in stale : \E i \in Instances : Owner[i] = u
    /\ garbled # {} => slips # {}

\* A step that is not the expiry's.
NotExpiring == UNCHANGED expiry /\ slips \subseteq slips'

\* A creation that has not begun and a restore that is over hold nothing, so
\* that what they reserve is new.
NothingHeld ==
    \A i \in Instances :
        /\ cpc[i] = "new" => Creating(i) \notin live
        /\ rpc[i] = "idle" => Restoring(i) \notin live

ReserveInv == ReserveTypes /\ Backed /\ NothingHeld /\ Expiring

\* Every request is about a user's usage of one instance.
LEMMA RequestsTyped ==
    /\ \A p \in Requests : User(p) \in Users /\ Delta(p) \in {-1, 1}
    /\ \A i \in Instances : /\ Creating(i) \in Requests /\ Delta(Creating(i)) = 1
                            /\ Restoring(i) \in Requests /\ Delta(Restoring(i)) = 1
    /\ \A i \in Instances, n \in Slots : Deleting(i, n) \in Requests /\ Delta(Deleting(i, n)) = -1
BY DEF Requests, User, Delta, Creating, Restoring, Deleting

\* Different requests have different reservations.
LEMMA DistinctRequests ==
    /\ \A i, j \in Instances : /\ Creating(i) # Restoring(j)
                               /\ Creating(i) = Creating(j) => i = j
                               /\ Restoring(i) = Restoring(j) => i = j
    /\ \A i, j \in Instances, n \in Slots :
           Deleting(i, n) # Creating(j) /\ Deleting(i, n) # Restoring(j)
BY DEF Creating, Restoring, Deleting

\* quota_reserve adds a reservation that was not there.
LEMMA ReserveBacks ==
    ASSUME ReserveTypes, Backed, NEW p \in Requests, Reserve(p), garbled' = garbled,
           Delta(p) > 0 => p \notin live
    PROVE  /\ Backed' /\ live' = live \cup {p} /\ due' = due \ {p}
           /\ reserved' \in [Users -> Int]
<1>1. User(p) \in Users /\ Delta(p) \in {-1, 1}
  BY RequestsTyped
<1>2. live' = live \cup {p} /\ due' = due \ {p}
      /\ reserved' = [reserved EXCEPT ![User(p)] = IF Delta(p) > 0 THEN @ + Delta(p) ELSE @]
  BY DEF Reserve
<1>3. reserved' \in [Users -> Int]
  BY <1>1, <1>2 DEF ReserveTypes
<1>4. ASSUME NEW u \in Users
      PROVE  /\ IsFiniteSet(Backing(u)')
             /\ u \notin garbled => reserved'[u] = Cardinality(Backing(u)')
  <2>1. CASE u = User(p) /\ Delta(p) > 0
    <3>1. Backing(u)' = Backing(u) \cup {p} /\ p \notin Backing(u)
      BY <1>2, <2>1 DEF Backing, Positive
    <3>2. IsFiniteSet(Backing(u)') /\ Cardinality(Backing(u)') = Cardinality(Backing(u)) + 1
      <4>1. IsFiniteSet(Backing(u))
        BY DEF Backed
      <4> QED
        BY <3>1, <4>1, FS_AddElement
    <3>3. reserved'[u] = reserved[u] + 1
      BY <1>1, <1>2, <2>1 DEF ReserveTypes
    <3> QED
      BY <3>2, <3>3 DEF Backed
  <2>2. CASE ~(u = User(p) /\ Delta(p) > 0)
    <3>1. Backing(u)' = Backing(u)
      BY <1>2, <2>2 DEF Backing, Positive
    <3>2. reserved'[u] = reserved[u]
      BY <1>1, <1>2, <2>2 DEF ReserveTypes
    <3> QED
      BY <3>1, <3>2 DEF Backed
  <2> QED
    BY <2>1, <2>2
<1> QED
  BY <1>2, <1>3, <1>4 DEF Backed

\* Commits and rollbacks take off what was reserved once.
LEMMA GiveBackBacks ==
    ASSUME ReserveTypes, Backed, NEW p \in Requests, Commit(p) \/ Rollback(p), garbled' = garbled
    PROVE  /\ Backed' /\ live' = live \ {p} /\ due' = due \ {p}
           /\ reserved' \in [Users -> Int]
<1>1. User(p) \in Users /\ Delta(p) \in {-1, 1}
  BY RequestsTyped
<1>2. live' = live \ {p} /\ due' = due \ {p}
      /\ reserved' = [reserved EXCEPT ![User(p)] =
                         IF p \in live /\ Delta(p) >= 0 THEN @ - Delta(p) ELSE @]
  BY DEF Commit, Rollback
<1>3. reserved' \in [Users -> Int]
  BY <1>1, <1>2 DEF ReserveTypes
<1>4. ASSUME NEW u \in Users
      PROVE  /\ IsFiniteSet(Backing(u)')
             /\ u \notin garbled => reserved'[u] = Cardinality(Backing(u)')
  <2>1. CASE u = User(p) /\ Delta(p) > 0 /\ p \in live
    <3>1. Backing(u)' = Backing(u) \ {p} /\ p \in Backing(u)
      BY <1>2, <2>1 DEF Backing, Positive
    <3>2. IsFiniteSet(Backing(u)') /\ Cardinality(Backing(u)') = Cardinality(Backing(u)) - 1
      BY <3>1, FS_RemoveElement DEF Backed
    <3>3. reserved'[u] = reserved[u] - 1
      BY <1>1, <1>2, <2>1 DEF ReserveTypes
    <3> QED
      BY <3>2, <3>3 DEF Backed
  <2>2. CASE ~(u = User(p) /\ Delta(p) > 0 /\ p \in live)
    <3>1. Backing(u)' = Backing(u)
      BY <1>2, <2>2 DEF Backing, Positive
    <3>2. reserved'[u] = reserved[u]
      BY <1>1, <1>2, <2>2 DEF ReserveTypes
    <3> QED
      BY <3>1, <3>2 DEF Backed
  <2> QED
    BY <2>1, <2>2
<1> QED
  BY <1>2, <1>3, <1>4 DEF Backed

\* A step that leaves the reservations alone.
LEMMA KeepsReservations ==
    ASSUME ReserveInv, UNCHANGED <<reserved, live, due>>, NotExpiring,
           cpc' \in [Instances -> CreatePcs],
           rpc' \in [Instances -> {"idle", "reserved", "commit", "rollback"}],
           \A i \in Instances : /\ cpc'[i] = "new" => cpc[i] = "new"
                                /\ rpc'[i] = "idle" => rpc[i] = "idle"
    PROVE  ReserveInv'
BY DEF ReserveInv, ReserveTypes, Backed, Backing, Positive, NothingHeld, Expiring, NotExpiring,
       expiry

\* A step that gives back the reservation of a request.
LEMMA GivesBack ==
    ASSUME ReserveInv, NEW p \in Requests, Commit(p) \/ Rollback(p), NotExpiring,
           cpc' \in [Instances -> CreatePcs],
           rpc' \in [Instances -> {"idle", "reserved", "commit", "rollback"}],
           \A i \in Instances : /\ cpc'[i] = "new" => cpc[i] = "new"
                                /\ rpc'[i] = "idle" => rpc[i] = "idle" \/ p = Restoring(i)
    PROVE  ReserveInv'
<1>1. UNCHANGED <<stale, value, garbled>> /\ slips \subseteq slips'
  BY DEF NotExpiring, expiry
<1>2. Backed' /\ live' = live \ {p} /\ due' = due \ {p} /\ reserved' \in [Users -> Int]
  BY <1>1, GiveBackBacks DEF ReserveInv
<1>3. Expiring'
  BY <1>1, <1>2 DEF ReserveInv, Expiring
<1> QED
  BY <1>1, <1>2, <1>3 DEF ReserveInv, ReserveTypes, NothingHeld

\* A step that reserves for a creation or a restore that held nothing, or for
\* a delete.
LEMMA Reserves ==
    ASSUME ReserveInv, NEW p \in Requests, Reserve(p), NotExpiring, Delta(p) > 0 => p \notin live,
           cpc' \in [Instances -> CreatePcs],
           rpc' \in [Instances -> {"idle", "reserved", "commit", "rollback"}],
           \A i \in Instances : /\ cpc'[i] = "new" => cpc[i] = "new" /\ p # Creating(i)
                                /\ rpc'[i] = "idle" => rpc[i] = "idle" /\ p # Restoring(i)
    PROVE  ReserveInv'
<1>1. UNCHANGED <<stale, value, garbled>> /\ slips \subseteq slips'
  BY DEF NotExpiring, expiry
<1>2. Backed' /\ live' = live \cup {p} /\ due' = due \ {p} /\ reserved' \in [Users -> Int]
  BY <1>1, ReserveBacks DEF ReserveInv
<1>3. Expiring'
  BY <1>1, <1>2 DEF ReserveInv, Expiring
<1> QED
  BY <1>1, <1>2, <1>3 DEF ReserveInv, ReserveTypes, NothingHeld

\* The first half of an expiry leaves everything as it is, and computes what to
\* write from the reservations that it read.
LEMMA ExpiryReads ==
    ASSUME ReserveInv, NEW E \in SUBSET live, ExpireRead(E)
    PROVE  ReserveInv'
<1>1. /\ UNCHANGED <<reserved, live, cpc, rpc, slips, garbled>> /\ due' = E
      /\ stale' = {u \in Users : Positive(E, u) # {}}
      /\ value' = [u \in Users |-> IF Positive(E, u) = {} THEN 0
                                    ELSE reserved[u] - Cardinality(Positive(E, u))]
  BY DEF ExpireRead
<1>2. value' \in [Users -> Int]
  <2>1. ASSUME NEW u \in Users
        PROVE  Cardinality(Positive(E, u)) \in Nat
    <3>1. IsFiniteSet(Backing(u)) /\ Positive(E, u) \subseteq Backing(u)
      BY DEF ReserveInv, Backed, Backing, Positive
    <3> QED
      BY <3>1, FS_Subset, FS_CardinalityType
  <2> QED
    BY <1>1, <2>1 DEF ReserveInv, ReserveTypes
<1>3. Expiring'
  <2>1. \A p \in E : User(p) \in Users
    BY RequestsTyped DEF ReserveInv, ReserveTypes
  <2>2. ASSUME NEW u \in stale'
        PROVE  \E i \in Instances : Owner[i] = u
    <3>1. PICK p \in E : User(p) = u
      BY <1>1, <2>2 DEF Positive
    <3>2. p[2] \in Instances /\ Owner[p[2]] = u
      BY <3>1 DEF ReserveInv, ReserveTypes, Requests, User
    <3> QED
      BY <3>2
  <2>3. \A p \in due' : Delta(p) > 0 => User(p) \in stale'
    BY <1>1, <2>1 DEF Positive
  <2>4. garbled' # {} => slips' # {}
    BY <1>1 DEF ReserveInv, Expiring
  <2> QED
    BY <2>2, <2>3, <2>4 DEF Expiring
<1> QED
  BY <1>1, <1>2, <1>3 DEF ReserveInv, ReserveTypes, Backed, Backing, Positive, NothingHeld

\* The second half takes off what it deletes, unless it loses an update.
LEMMA ExpiryWrites ==
    ASSUME ReserveInv, ExpireWrite
    PROVE  ReserveInv'
<1>1. /\ UNCHANGED <<cpc, rpc>> /\ live' = live \ due /\ due' = {} /\ stale' = {}
      /\ reserved' = [u \in Users |-> IF u \in stale THEN value[u] ELSE reserved[u]]
      /\ garbled' = garbled \cup
                       {u \in stale : value[u] # reserved[u] - Cardinality(Positive(due, u))}
      /\ value' = [u \in Users |-> 0]
  BY DEF ExpireWrite
<1>2. reserved' \in [Users -> Int] /\ value' \in [Users -> Int] /\ garbled' \subseteq Users
  BY <1>1 DEF ReserveInv, ReserveTypes
<1>3. ASSUME NEW u \in Users
      PROVE  /\ IsFiniteSet(Backing(u)')
             /\ u \notin garbled' => reserved'[u] = Cardinality(Backing(u)')
  <2>1. Backing(u)' = Backing(u) \ Positive(due, u) /\ Positive(due, u) \subseteq Backing(u)
    BY <1>1 DEF Backing, Positive, ReserveInv, ReserveTypes
  <2>2. /\ IsFiniteSet(Backing(u)) /\ IsFiniteSet(Positive(due, u))
        /\ IsFiniteSet(Backing(u) \ Positive(due, u))
    BY <2>1, FS_Subset DEF ReserveInv, Backed
  <2>3. Backing(u) \cap Positive(due, u) = Positive(due, u)
    BY <2>1
  <2>4. /\ Cardinality(Backing(u)) \in Nat /\ Cardinality(Positive(due, u)) \in Nat
        /\ Cardinality(Backing(u)') = Cardinality(Backing(u)) - Cardinality(Positive(due, u))
    BY <2>1, <2>2, <2>3, FS_Difference, FS_CardinalityType
  <2>5. CASE u \in stale
    BY <1>1, <2>1, <2>2, <2>4, <2>5 DEF ReserveInv, Backed, ReserveTypes
  <2>6. CASE u \notin stale
    <3>1. Positive(due, u) = {}
      BY <2>6 DEF Positive, ReserveInv, Expiring
    <3>2. Backing(u)' = Backing(u) /\ reserved'[u] = reserved[u] /\ (u \in garbled => u \in garbled')
      BY <1>1, <2>1, <2>6, <3>1
    <3> QED
      BY <3>2 DEF ReserveInv, Backed
  <2> QED
    BY <2>5, <2>6
<1>4. Expiring'
  <2>1. ASSUME garbled' # {}
        PROVE  slips' # {}
    <3>1. slips' = slips \cup {p[2] : p \in {q \in due : Delta(q) > 0}}
                         \cup {i \in Instances : Owner[i] \in garbled'}
      BY DEF ExpireWrite
    <3>2. CASE garbled # {}
      BY <3>1, <3>2 DEF ReserveInv, Expiring
    <3>3. CASE garbled = {}
      <4>1. PICK u \in stale : u \in garbled'
        BY <1>1, <2>1, <3>3
      <4>2. PICK i \in Instances : Owner[i] = u
        BY <4>1 DEF ReserveInv, Expiring
      <4> QED
        BY <3>1, <4>1, <4>2
    <3> QED
      BY <3>2, <3>3
  <2> QED
    BY <1>1, <2>1 DEF Expiring
<1> QED
  BY <1>1, <1>2, <1>3, <1>4 DEF ReserveInv, ReserveTypes, Backed, NothingHeld

\* One case per action.
LEMMA ReserveStep ==
    ASSUME ReserveInv, [Next]_vars
    PROVE  ReserveInv'
<1>t. /\ cpc \in [Instances -> CreatePcs]
      /\ rpc \in [Instances -> {"idle", "reserved", "commit", "rollback"}]
  BY DEF ReserveInv, ReserveTypes
<1>1. ASSUME NEW i \in Instances, Boot(i)
      PROVE  ReserveInv'
  BY <1>1, <1>t, KeepsReservations DEF NotExpiring, others, Boot, usage, requests
<1>2. ASSUME NEW i \in Instances, ClaimHost(i)
      PROVE  ReserveInv'
  BY <1>2, <1>t, KeepsReservations DEF NotExpiring, others, ClaimHost, usage, requests
<1>3. ASSUME NEW i \in Instances, Activate(i)
      PROVE  ReserveInv'
  BY <1>3, <1>t, KeepsReservations DEF NotExpiring, others, Activate, usage, requests
<1>4. ASSUME NEW i \in Instances, NEW ok \in BOOLEAN, RestoreInstance(i, ok)
      PROVE  ReserveInv'
  BY <1>4, <1>t, KeepsReservations DEF NotExpiring, others, RestoreInstance, usage, apart
<1>5. ASSUME NEW i \in Instances, ReadReclaim(i)
      PROVE  ReserveInv'
  BY <1>5, <1>t, KeepsReservations DEF NotExpiring, others, ReadReclaim, usage, requests
<1>6. ASSUME NEW i \in Instances, Reclaim(i)
      PROVE  ReserveInv'
  BY <1>6, <1>t, KeepsReservations DEF NotExpiring, others, Reclaim, usage, requests
<1>7. ASSUME NEW i \in Instances, HostDown(i)
      PROVE  ReserveInv'
  BY <1>7, <1>t, KeepsReservations DEF NotExpiring, others, HostDown, usage, requests
<1>8. ASSUME NEW i \in Instances, HostUp(i)
      PROVE  ReserveInv'
  BY <1>8, <1>t, KeepsReservations DEF NotExpiring, others, HostUp, usage, requests
<1>9. ASSUME NEW i \in Instances, CreateRow(i)
      PROVE  ReserveInv'
  BY <1>9, <1>t, KeepsReservations DEF NotExpiring, others, CreateRow, usage, requests, CreatePcs
<1>10. ASSUME NEW i \in Instances, CreateFails(i)
      PROVE  ReserveInv'
  BY <1>10, <1>t, KeepsReservations DEF NotExpiring, others, CreateFails, usage, requests, CreatePcs
<1>11. ASSUME NEW i \in Instances, CrashCreate(i)
      PROVE  ReserveInv'
  BY <1>11, <1>t, KeepsReservations DEF NotExpiring, others, CrashCreate, usage, requests, CreatePcs
<1>12. ASSUME NEW i \in Instances, MarkRestore(i)
      PROVE  ReserveInv'
  BY <1>12, <1>t, KeepsReservations DEF NotExpiring, others, MarkRestore, usage, apart, RestoreTo
<1>13. ASSUME NEW i \in Instances, NEW n \in Slots, NEW kind \in {"hard", "soft"}, Read(i, n, kind)
      PROVE  ReserveInv'
  BY <1>13, <1>t, KeepsReservations DEF NotExpiring, others, Read, usage, unread
<1>14. ASSUME NEW i \in Instances, NEW n \in Slots, DeleteRequest(i, n)
      PROVE  ReserveInv'
  BY <1>14, <1>t, KeepsReservations DEF NotExpiring, others, DeleteRequest, usage, unread
<1>15. ASSUME NEW i \in Instances, NEW n \in Slots, DestroyHalted(i, n)
      PROVE  ReserveInv'
  BY <1>15, <1>t, KeepsReservations DEF NotExpiring, others, DestroyHalted, usage, unread
<1>16. ASSUME NEW i \in Instances, NEW n \in Slots, Mark(i, n)
      PROVE  ReserveInv'
  BY <1>16, <1>t, KeepsReservations DEF NotExpiring, others, Mark, usage, unread
<1>17. ASSUME NEW i \in Instances, NEW n \in Slots, DestroyUnhosted(i, n)
      PROVE  ReserveInv'
  BY <1>17, <1>t, KeepsReservations DEF NotExpiring, others, DestroyUnhosted, usage, unread
<1>18. ASSUME NEW i \in Instances, NEW n \in Slots, LocalDelete(i, n)
      PROVE  ReserveInv'
  BY <1>18, <1>t, KeepsReservations DEF NotExpiring, others, LocalDelete, usage, unread
<1>19. ASSUME NEW i \in Instances, NEW n \in Slots, NEW ok \in BOOLEAN, Terminate(i, n, ok)
      PROVE  ReserveInv'
  BY <1>19, <1>t, KeepsReservations DEF NotExpiring, others, Terminate, usage, unread
<1>20. ASSUME NEW i \in Instances, NEW n \in Slots, Destroy(i, n)
      PROVE  ReserveInv'
  BY <1>20, <1>t, KeepsReservations DEF NotExpiring, others, Destroy, usage, unread
<1>21. ASSUME NEW i \in Instances, NEW n \in Slots, NEW ok \in BOOLEAN, SoftDelete(i, n, ok)
      PROVE  ReserveInv'
  BY <1>21, <1>t, KeepsReservations DEF NotExpiring, others, SoftDelete, usage, unread
<1>22. ASSUME NEW i \in Instances, NEW n \in Slots, CrashDelete(i, n)
      PROVE  ReserveInv'
  BY <1>22, <1>t, KeepsReservations DEF NotExpiring, others, CrashDelete, usage, unread
<1>23. ASSUME NEW i \in Instances, StartCreate(i)
      PROVE  ReserveInv'
  <2>1. CASE Reserve(Creating(i)) /\ cpc' = [cpc EXCEPT ![i] = "reserved"]
    <3>1. Creating(i) \in Requests /\ Creating(i) \notin live
      BY <1>23, RequestsTyped DEF StartCreate, ReserveInv, NothingHeld
    <3>2. rpc' = rpc /\ cpc' \in [Instances -> CreatePcs] /\ NotExpiring
      BY <1>23, <1>t, <2>1 DEF NotExpiring, others, StartCreate, requests, CreatePcs
    <3>3. \A j \in Instances : /\ cpc'[j] = "new" => cpc[j] = "new" /\ Creating(i) # Creating(j)
                               /\ Creating(i) # Restoring(j)
      BY <1>t, <2>1, DistinctRequests
    <3> QED
      BY <1>t, <2>1, <3>1, <3>2, <3>3, Reserves
  <2>2. CASE UNCHANGED <<reserved, live, due>> /\ cpc' = [cpc EXCEPT ![i] = "refused"]
    BY <1>23, <1>t, <2>2, KeepsReservations DEF NotExpiring, others, StartCreate, requests, CreatePcs
  <2> QED
    BY <1>23, <2>1, <2>2 DEF StartCreate
<1>24. ASSUME NEW i \in Instances, StartRestore(i)
      PROVE  ReserveInv'
  <2>1. CASE Reserve(Restoring(i)) /\ rpc' = [rpc EXCEPT ![i] = "reserved"]
    <3>1. Restoring(i) \in Requests /\ Restoring(i) \notin live
      BY <1>24, RequestsTyped DEF StartRestore, ReserveInv, NothingHeld
    <3>2. cpc' = cpc /\ rpc' \in [Instances -> {"idle", "reserved", "commit", "rollback"}] /\ NotExpiring
      BY <1>24, <1>t, <2>1 DEF NotExpiring, others, StartRestore, apart
    <3>3. \A j \in Instances : /\ rpc'[j] = "idle" => rpc[j] = "idle" /\ Restoring(i) # Restoring(j)
                               /\ Restoring(i) # Creating(j)
      BY <1>t, <2>1, DistinctRequests
    <3> QED
      BY <1>t, <2>1, <3>1, <3>2, <3>3, Reserves
  <2>2. CASE UNCHANGED <<reserved, live, due, rpc>>
    BY <1>24, <1>t, <2>2, KeepsReservations DEF NotExpiring, others, StartRestore, apart
  <2> QED
    BY <1>24, <2>1, <2>2 DEF StartRestore, RestoreTo
<1>25. ASSUME NEW i \in Instances, NEW n \in Slots, ReserveHalted(i, n)
      PROVE  ReserveInv'
  <2>1. Deleting(i, n) \in Requests /\ ~(Delta(Deleting(i, n)) > 0)
    BY RequestsTyped
  <2> QED
    BY <1>25, <1>t, <2>1, DistinctRequests, Reserves DEF NotExpiring, others, ReserveHalted, unread
<1>26. ASSUME NEW i \in Instances, NEW n \in Slots, ReserveDelete(i, n)
      PROVE  ReserveInv'
  <2>1. Deleting(i, n) \in Requests /\ ~(Delta(Deleting(i, n)) > 0)
    BY RequestsTyped
  <2> QED
    BY <1>26, <1>t, <2>1, DistinctRequests, Reserves DEF NotExpiring, others, ReserveDelete, unread
<1>27. ASSUME NEW i \in Instances, RollbackCreate(i)
      PROVE  ReserveInv'
  <2>1. Creating(i) \in Requests
    BY RequestsTyped
  <2> QED
    BY <1>27, <1>t, <2>1, GivesBack DEF NotExpiring, others, RollbackCreate, requests, CreatePcs
<1>28. ASSUME NEW i \in Instances, CommitCreate(i)
      PROVE  ReserveInv'
  <2>1. Creating(i) \in Requests
    BY RequestsTyped
  <2> QED
    BY <1>28, <1>t, <2>1, GivesBack DEF NotExpiring, others, CommitCreate, requests, CreatePcs
<1>29. ASSUME NEW i \in Instances, NEW n \in Slots, CommitHalted(i, n)
      PROVE  ReserveInv'
  <2>1. Deleting(i, n) \in Requests
    BY RequestsTyped
  <2> QED
    BY <1>29, <1>t, <2>1, GivesBack DEF NotExpiring, others, CommitHalted, unread
<1>30. ASSUME NEW i \in Instances, NEW n \in Slots, EndDelete(i, n)
      PROVE  ReserveInv'
  <2>1. Deleting(i, n) \in Requests
    BY RequestsTyped
  <2> QED
    BY <1>30, <1>t, <2>1, GivesBack DEF NotExpiring, others, EndDelete, unread
<1>31. ASSUME NEW i \in Instances, NEW n \in Slots, CastDelete(i, n)
      PROVE  ReserveInv'
  <2>1. Deleting(i, n) \in Requests
    BY RequestsTyped
  <2> QED
    BY <1>31, <1>t, <2>1, GivesBack, KeepsReservations DEF NotExpiring, others, CastDelete, unread, usage
<1>32. ASSUME NEW i \in Instances, EndRestore(i)
      PROVE  ReserveInv'
  <2>1. Restoring(i) \in Requests
    BY RequestsTyped
  <2> QED
    BY <1>32, <1>t, <2>1, GivesBack DEF NotExpiring, others, EndRestore, RestoreTo, apart
<1>33. ASSUME NEW E \in SUBSET live, ExpireRead(E)
      PROVE  ReserveInv'
  BY <1>33, ExpiryReads
<1>34. CASE ExpireWrite
  BY <1>34, ExpiryWrites
<1>35. CASE UNCHANGED vars
  BY <1>35, <1>t, KeepsReservations DEF NotExpiring, others, vars, usage
<1>36. ASSUME NEW i \in Instances, NEW n \in Slots, FailDelete(i, n)
      PROVE  ReserveInv'
  BY <1>36, <1>t, KeepsReservations DEF NotExpiring, others, FailDelete, usage, unread
<1> QED
  BY <1>1, <1>2, <1>3, <1>4, <1>5, <1>6, <1>7, <1>8, <1>9, <1>10, <1>11, <1>12, <1>13,
     <1>14, <1>15, <1>16, <1>17, <1>18, <1>19, <1>20, <1>21, <1>22, <1>23, <1>24, <1>25,
     <1>26, <1>27, <1>28, <1>29, <1>30, <1>31, <1>32, <1>33, <1>34, <1>35, <1>36
     DEF Next, Create, Delete, Restore

\* Nothing is reserved at first.
LEMMA ReserveInit == Init => ReserveInv
<1> SUFFICES ASSUME Init PROVE ReserveInv
  OBVIOUS
<1>1. \A u \in Users : Backing(u) = {}
  BY DEF Init, Backing, Positive
<1> QED
  BY <1>1, FS_EmptySet DEF Init, ReserveInv, ReserveTypes, Backed, NothingHeld, Expiring, CreatePcs

(* The reserved amount of every user is the number of outstanding           *)
(* reservations of creations and restores: expiry, late commits, failures   *)
(* and deletes that overlap never take one off twice or leave one behind,   *)
(* for every user of whom no expiry has overwritten a concurrent update.    *)
THEOREM ReservationsBacked == Spec => []ReservedIsBacked
<1>1. ReserveInv => ReservedIsBacked
  BY DEF ReserveInv, Backed, ReservedIsBacked
<1> QED
  BY <1>1, ReserveInit, ReserveStep, PTL DEF Spec

-----------------------------------------------------------------------------
(* Type correctness: what is left of it besides the reservations.           *)

Deletion == [pc : DeletePcs, kind : {"hard", "soft"}, obj : Rows]

RestTypes ==
    /\ inUse \in [Users -> Int]
    /\ row \in [Instances -> Rows]
    /\ request \subseteq Instances /\ booted \subseteq Instances
    /\ del \in [Deletes -> Deletion]
    /\ reclaiming \subseteq Instances /\ up \subseteq Instances
    /\ slips \subseteq Instances /\ late \subseteq Instances
    /\ faults \in 0 .. MaxFaults

\* The two parts make up the type invariant; what is backed is not negative.
LEMMA TypesSplit == ReserveInv /\ RestTypes => TypeOK
<1> SUFFICES ASSUME ReserveInv, RestTypes PROVE TypeOK
  OBVIOUS
<1>1. \A u \in Users \ garbled : reserved[u] >= 0
  BY FS_CardinalityType DEF ReserveInv, Backed
<1> QED
  BY <1>1 DEF TypeOK, ReserveInv, ReserveTypes, RestTypes, Deletion

\* Counting the rows of a user anew gives a number, and never a smaller one:
\* only a negative usage is counted.
LEMMA RefreshRaises ==
    ASSUME inUse \in [Users -> Int], NEW u \in Users
    PROVE  /\ Refreshed(u) \in Int /\ inUse[u] <= Refreshed(u)
           /\ inUse[u] >= 0 => Refreshed(u) = inUse[u]
           /\ Refresh(u) \in [Users -> Int] /\ Refresh(u)[u] = Refreshed(u)
           /\ \A v \in Users \ {u} : Refresh(u)[v] = inUse[v]
<1>1. Cardinality({i \in rows : Owner[i] = u}) \in Nat
  <2>1. {i \in rows : Owner[i] = u} \subseteq Instances
    BY DEF rows
  <2> QED
    BY <2>1, FiniteInstances, FS_Subset, FS_CardinalityType
<1>2. /\ Refreshed(u) \in Int /\ inUse[u] <= Refreshed(u)
      /\ inUse[u] >= 0 => Refreshed(u) = inUse[u]
  BY <1>1 DEF Refreshed
<1> QED
  BY <1>2 DEF Refresh

\* The transactions keep the usage a number.
LEMMA UsageTyped ==
    ASSUME inUse \in [Users -> Int], NEW p \in Requests, Reserve(p) \/ Rollback(p) \/ Commit(p)
    PROVE  inUse' \in [Users -> Int]
<1>1. User(p) \in Users /\ Delta(p) \in {-1, 1}
  BY RequestsTyped
<1>2. CASE Reserve(p)
  BY <1>1, <1>2, RefreshRaises DEF Reserve
<1>3. CASE Rollback(p)
  BY <1>3 DEF Rollback
<1>4. CASE Commit(p)
  BY <1>1, <1>4 DEF Commit
<1> QED
  BY <1>2, <1>3, <1>4

\* What a delete reads and where it goes next.
LEMMA DeleteGetsTyped ==
    ASSUME del \in [Deletes -> Deletion], NEW i \in Instances, NEW n \in Slots,
           NEW obj \in Rows, NEW label \in DeletePcs, DeleteGets(i, n, obj, label)
    PROVE  del' \in [Deletes -> Deletion]
<1>1. <<i, n>> \in Deletes /\ del[<<i, n>>] \in Deletion
  BY DEF Deletes
<1>2. Idle \in Deletion
  BY DEF Idle, Deletion, DeletePcs, Gone, Rows, Vms, Tasks
<1>3. [del[<<i, n>>] EXCEPT !.pc = label, !.obj = obj] \in Deletion
  BY <1>1 DEF Deletion
<1> QED
  BY <1>1, <1>2, <1>3 DEF DeleteGets

\* A delete that goes on with what it has read.
LEMMA DeleteToTyped ==
    ASSUME del \in [Deletes -> Deletion], NEW i \in Instances, NEW n \in Slots,
           NEW label \in DeletePcs, DeleteTo(i, n, label)
    PROVE  del' \in [Deletes -> Deletion]
<1>1. del[<<i, n>>].obj \in Rows
  BY DEF Deletes, Deletion
<1> QED
  BY <1>1, DeleteGetsTyped DEF DeleteTo

\* The values that rows are given.
LEMMA RowsTyped ==
    /\ NewRow \in Rows /\ Gone \in Rows
    /\ \A r \in Rows, v \in Vms, t \in Tasks, h \in BOOLEAN :
           /\ [r EXCEPT !.vm = v] \in Rows /\ [r EXCEPT !.task = t] \in Rows
           /\ [r EXCEPT !.hosted = h] \in Rows /\ [r EXCEPT !.vm = v, !.task = t] \in Rows
           /\ [r EXCEPT !.task = t, !.vm = v] \in Rows
    /\ \A r \in Rows : r.vm \in Vms /\ r.task \in Tasks /\ r.hosted \in BOOLEAN
<1>1. NewRow \in Rows /\ Gone \in Rows
  BY DEF NewRow, Gone, Rows, Vms, Tasks
<1>2. \A r \in Rows : r.vm \in Vms /\ r.task \in Tasks /\ r.hosted \in BOOLEAN
  BY DEF Rows
<1>3. ASSUME NEW r \in Rows, NEW v \in Vms, NEW t \in Tasks, NEW h \in BOOLEAN
      PROVE  /\ [r EXCEPT !.vm = v] \in Rows /\ [r EXCEPT !.task = t] \in Rows
             /\ [r EXCEPT !.hosted = h] \in Rows /\ [r EXCEPT !.vm = v, !.task = t] \in Rows
             /\ [r EXCEPT !.task = t, !.vm = v] \in Rows
  BY DEF Rows
<1> QED
  BY <1>1, <1>2, <1>3

\* Every step keeps rows, requests, usage and bounds in their sets.
LEMMA RestStep ==
    ASSUME RestTypes, ReserveTypes, [Next]_vars
    PROVE  RestTypes'
<1>t. /\ inUse \in [Users -> Int]
      /\ row \in [Instances -> Rows]
      /\ request \subseteq Instances /\ booted \subseteq Instances
      /\ del \in [Deletes -> Deletion]
      /\ reclaiming \subseteq Instances /\ up \subseteq Instances
      /\ slips \subseteq Instances /\ late \subseteq Instances
      /\ faults \in 0 .. MaxFaults
      /\ due \subseteq Requests
  BY DEF RestTypes, ReserveTypes
<1>1. ASSUME NEW i \in Instances, Boot(i)
      PROVE  RestTypes'
  BY <1>1, <1>t DEF RestTypes, Boot, usage, requests, others
<1>2. ASSUME NEW i \in Instances, ClaimHost(i)
      PROVE  RestTypes'
  BY <1>2, <1>t, RowsTyped DEF RestTypes, ClaimHost, Vms, Tasks, usage, requests, others
<1>3. ASSUME NEW i \in Instances, Activate(i)
      PROVE  RestTypes'
  BY <1>3, <1>t, RowsTyped DEF RestTypes, Activate, Vms, Tasks, usage, requests, others
<1>4. ASSUME NEW i \in Instances, NEW ok \in BOOLEAN, RestoreInstance(i, ok)
      PROVE  RestTypes'
  BY <1>4, <1>t, RowsTyped DEF RestTypes, RestoreInstance, Vms, Tasks, usage, apart, others
<1>5. ASSUME NEW i \in Instances, ReadReclaim(i)
      PROVE  RestTypes'
  BY <1>5, <1>t DEF RestTypes, ReadReclaim, usage, table
<1>6. ASSUME NEW i \in Instances, Reclaim(i)
      PROVE  RestTypes'
  BY <1>6, <1>t, RowsTyped DEF RestTypes, Reclaim, usage
<1>7. ASSUME NEW i \in Instances, HostDown(i)
      PROVE  RestTypes'
  BY <1>7, <1>t DEF RestTypes, HostDown, usage, table
<1>8. ASSUME NEW i \in Instances, HostUp(i)
      PROVE  RestTypes'
  BY <1>8, <1>t DEF RestTypes, HostUp, usage, table
<1>9. ASSUME NEW i \in Instances, CreateRow(i)
      PROVE  RestTypes'
  BY <1>9, <1>t, RowsTyped DEF RestTypes, CreateRow, usage, requests, others
<1>10. ASSUME NEW i \in Instances, CreateFails(i)
      PROVE  RestTypes'
  BY <1>10, <1>t, RowsTyped DEF RestTypes, CreateFails, usage, requests, others
<1>11. ASSUME NEW i \in Instances, CrashCreate(i)
      PROVE  RestTypes'
  BY <1>11, <1>t DEF RestTypes, CrashCreate, usage, table, requests
<1>12. ASSUME NEW i \in Instances, MarkRestore(i)
      PROVE  RestTypes'
  <2>1. row[i] \in Rows /\ [row[i] EXCEPT !.task = "restoring"] \in Rows
    BY <1>t DEF Rows, Tasks
  <2>2. row' \in [Instances -> Rows]
    BY <1>12, <1>t, <2>1 DEF MarkRestore
  <2> QED
    BY <1>12, <1>t, <2>2 DEF RestTypes, MarkRestore, usage, apart, others
<1>13. ASSUME NEW i \in Instances, NEW n \in Slots, NEW kind \in {"hard", "soft"}, Read(i, n, kind)
      PROVE  RestTypes'
  <2>1. <<i, n>> \in Deletes /\ row[i] \in Rows
    BY <1>t DEF Deletes
  <2>2. [kind |-> kind, obj |-> row[i], pc |-> IF row[i].hosted THEN "mark" ELSE "booting"] \in Deletion
    BY <2>1 DEF Deletion, DeletePcs
  <2> QED
    BY <1>13, <1>t, <2>1, <2>2 DEF RestTypes, Read, usage, table, unread, others
<1>14. ASSUME NEW i \in Instances, NEW n \in Slots, DeleteRequest(i, n)
      PROVE  RestTypes'
  <2>1. del' \in [Deletes -> Deletion]
    BY <1>14, <1>t, RowsTyped, DeleteToTyped, DeleteGetsTyped DEF DeleteRequest, DeletePcs
  <2>2. row' \in [Instances -> Rows]
    BY <1>14, <1>t, RowsTyped DEF DeleteRequest, Vms, Tasks, table
  <2> QED
    BY <1>14, <1>t, <2>1, <2>2 DEF RestTypes, DeleteRequest, usage, table, unread, others
<1>15. ASSUME NEW i \in Instances, NEW n \in Slots, DestroyHalted(i, n)
      PROVE  RestTypes'
  <2>1. del' \in [Deletes -> Deletion]
    BY <1>15, <1>t, RowsTyped, DeleteToTyped, DeleteGetsTyped DEF DestroyHalted, DeletePcs
  <2>2. row' \in [Instances -> Rows]
    BY <1>15, <1>t, RowsTyped DEF DestroyHalted, Vms, Tasks, table
  <2> QED
    BY <1>15, <1>t, <2>1, <2>2 DEF RestTypes, DestroyHalted, usage, table, unread, others
<1>16. ASSUME NEW i \in Instances, NEW n \in Slots, Mark(i, n)
      PROVE  RestTypes'
  <2>o. del[<<i, n>>].obj.task \in Tasks
    BY <1>t DEF Deletes, Deletion, Rows
  <2>r. row[i] \in Rows /\ [row[i] EXCEPT !.task = del[<<i, n>>].obj.task] \in Rows
    BY <1>t, <2>o DEF Rows
  <2>1. del' \in [Deletes -> Deletion]
    BY <1>16, <1>t, <2>r, DeleteToTyped, DeleteGetsTyped DEF Mark, DeletePcs
  <2>s. [row[i] EXCEPT !.task = "softdeleting"] \in Rows /\ [row[i] EXCEPT !.task = "deleting"] \in Rows
    BY <1>t DEF Rows, Tasks
  <2>2. row' \in [Instances -> Rows]
    BY <1>16, <1>t, <2>r, <2>s DEF Mark
  <2> QED
    BY <1>16, <1>t, <2>1, <2>2 DEF RestTypes, Mark, usage, table, unread, others
<1>17. ASSUME NEW i \in Instances, NEW n \in Slots, DestroyUnhosted(i, n)
      PROVE  RestTypes'
  <2>o. del[<<i, n>>].obj.task \in Tasks
    BY <1>t DEF Deletes, Deletion, Rows
  <2>r. row[i] \in Rows /\ [row[i] EXCEPT !.task = del[<<i, n>>].obj.task] \in Rows
    BY <1>t, <2>o DEF Rows
  <2>1. del' \in [Deletes -> Deletion]
    BY <1>17, <1>t, <2>r, DeleteToTyped, DeleteGetsTyped DEF DestroyUnhosted, DeletePcs
  <2>2. row' \in [Instances -> Rows]
    BY <1>17, <1>t, RowsTyped DEF DestroyUnhosted, Vms, Tasks, table
  <2> QED
    BY <1>17, <1>t, <2>1, <2>2 DEF RestTypes, DestroyUnhosted, usage, table, unread, others
<1>18. ASSUME NEW i \in Instances, NEW n \in Slots, LocalDelete(i, n)
      PROVE  RestTypes'
  <2>1. del' \in [Deletes -> Deletion]
    BY <1>18, <1>t, RowsTyped, DeleteToTyped, DeleteGetsTyped DEF LocalDelete, DeletePcs
  <2>2. row' \in [Instances -> Rows]
    BY <1>18, <1>t, RowsTyped DEF LocalDelete, Vms, Tasks, table
  <2> QED
    BY <1>18, <1>t, <2>1, <2>2 DEF RestTypes, LocalDelete, usage, table, unread, others
<1>19. ASSUME NEW i \in Instances, NEW n \in Slots, NEW ok \in BOOLEAN, Terminate(i, n, ok)
      PROVE  RestTypes'
  <2>1. del' \in [Deletes -> Deletion]
    BY <1>19, <1>t, RowsTyped, DeleteToTyped, DeleteGetsTyped DEF Terminate, DeletePcs
  <2>2. row' \in [Instances -> Rows]
    BY <1>19, <1>t, RowsTyped DEF Terminate, Vms, Tasks, table
  <2> QED
    BY <1>19, <1>t, <2>1, <2>2 DEF RestTypes, Terminate, usage, table, unread, others
<1>20. ASSUME NEW i \in Instances, NEW n \in Slots, Destroy(i, n)
      PROVE  RestTypes'
  <2>1. del' \in [Deletes -> Deletion]
    BY <1>20, <1>t, RowsTyped, DeleteToTyped, DeleteGetsTyped DEF Destroy, DeletePcs
  <2>2. row' \in [Instances -> Rows]
    BY <1>20, <1>t, RowsTyped DEF Destroy, Vms, Tasks, table
  <2> QED
    BY <1>20, <1>t, <2>1, <2>2 DEF RestTypes, Destroy, usage, table, unread, others
<1>21. ASSUME NEW i \in Instances, NEW n \in Slots, NEW ok \in BOOLEAN, SoftDelete(i, n, ok)
      PROVE  RestTypes'
  <2>1. del' \in [Deletes -> Deletion]
    BY <1>21, <1>t, RowsTyped, DeleteToTyped, DeleteGetsTyped DEF SoftDelete, DeletePcs
  <2>r. /\ row[i] \in Rows /\ [row[i] EXCEPT !.task = "none"] \in Rows
        /\ [row[i] EXCEPT !.vm = "soft", !.task = "none"] \in Rows
    BY <1>t DEF Rows, Tasks, Vms
  <2>2. row' \in [Instances -> Rows]
    BY <1>21, <1>t, <2>r DEF SoftDelete
  <2> QED
    BY <1>21, <1>t, <2>1, <2>2 DEF RestTypes, SoftDelete, usage, table, unread, others
<1>22. ASSUME NEW i \in Instances, NEW n \in Slots, CrashDelete(i, n)
      PROVE  RestTypes'
  <2>1. del' \in [Deletes -> Deletion]
    BY <1>22, <1>t, RowsTyped, DeleteToTyped, DeleteGetsTyped DEF CrashDelete, DeletePcs
  <2>2. row' \in [Instances -> Rows]
    BY <1>22, <1>t, RowsTyped DEF CrashDelete, Vms, Tasks, table
  <2> QED
    BY <1>22, <1>t, <2>1, <2>2 DEF RestTypes, CrashDelete, usage, table, unread, others
<1>23. ASSUME NEW i \in Instances, NEW n \in Slots, ReserveHalted(i, n)
      PROVE  RestTypes'
  <2>1. del' \in [Deletes -> Deletion]
    BY <1>23, <1>t, DeleteToTyped DEF ReserveHalted, DeletePcs
  <2>2. inUse' \in [Users -> Int]
    BY <1>23, <1>t, RequestsTyped, UsageTyped DEF ReserveHalted, usage
  <2> QED
    BY <1>23, <1>t, <2>1, <2>2 DEF RestTypes, ReserveHalted, table, unread, others
<1>24. ASSUME NEW i \in Instances, NEW n \in Slots, ReserveDelete(i, n)
      PROVE  RestTypes'
  <2>1. del' \in [Deletes -> Deletion]
    BY <1>24, <1>t, DeleteToTyped DEF ReserveDelete, DeletePcs
  <2>2. inUse' \in [Users -> Int]
    BY <1>24, <1>t, RequestsTyped, UsageTyped DEF ReserveDelete, usage
  <2> QED
    BY <1>24, <1>t, <2>1, <2>2 DEF RestTypes, ReserveDelete, table, unread, others
<1>25. ASSUME NEW i \in Instances, NEW n \in Slots, CommitHalted(i, n)
      PROVE  RestTypes'
  <2>1. del' \in [Deletes -> Deletion]
    BY <1>25, <1>t, DeleteToTyped DEF CommitHalted, DeletePcs
  <2>2. inUse' \in [Users -> Int]
    BY <1>25, <1>t, RequestsTyped, UsageTyped DEF CommitHalted, usage
  <2> QED
    BY <1>25, <1>t, <2>1, <2>2 DEF RestTypes, CommitHalted, table, unread, others
<1>26. ASSUME NEW i \in Instances, NEW n \in Slots, EndDelete(i, n)
      PROVE  RestTypes'
  <2>1. del' \in [Deletes -> Deletion]
    BY <1>26, <1>t, DeleteToTyped DEF EndDelete, DeletePcs
  <2>2. inUse' \in [Users -> Int]
    BY <1>26, <1>t, RequestsTyped, UsageTyped DEF EndDelete, usage
  <2> QED
    BY <1>26, <1>t, <2>1, <2>2 DEF RestTypes, EndDelete, table, unread, others
<1>27. ASSUME NEW i \in Instances, NEW n \in Slots, CastDelete(i, n)
      PROVE  RestTypes'
  <2>1. del' \in [Deletes -> Deletion]
    BY <1>27, <1>t, DeleteToTyped DEF CastDelete, DeletePcs
  <2>2. inUse' \in [Users -> Int]
    BY <1>27, <1>t, RequestsTyped, UsageTyped DEF CastDelete, usage
  <2> QED
    BY <1>27, <1>t, <2>1, <2>2 DEF RestTypes, CastDelete, table, unread, others
<1>28. ASSUME NEW i \in Instances, StartCreate(i)
      PROVE  RestTypes'
  <2>1. inUse' \in [Users -> Int]
    BY <1>28, <1>t, RequestsTyped, UsageTyped, RefreshRaises DEF StartCreate
  <2> QED
    BY <1>28, <1>t, <2>1 DEF RestTypes, StartCreate, table, requests, apart, others
<1>29. ASSUME NEW i \in Instances, RollbackCreate(i)
      PROVE  RestTypes'
  <2>1. inUse' \in [Users -> Int]
    BY <1>29, <1>t, RequestsTyped, UsageTyped, RefreshRaises DEF RollbackCreate
  <2> QED
    BY <1>29, <1>t, <2>1 DEF RestTypes, RollbackCreate, table, requests, apart, others
<1>30. ASSUME NEW i \in Instances, CommitCreate(i)
      PROVE  RestTypes'
  <2>1. inUse' \in [Users -> Int]
    BY <1>30, <1>t, RequestsTyped, UsageTyped, RefreshRaises DEF CommitCreate
  <2> QED
    BY <1>30, <1>t, <2>1 DEF RestTypes, CommitCreate, table, requests, apart, others
<1>31. ASSUME NEW i \in Instances, StartRestore(i)
      PROVE  RestTypes'
  <2>1. inUse' \in [Users -> Int]
    BY <1>31, <1>t, RequestsTyped, UsageTyped, RefreshRaises DEF StartRestore
  <2> QED
    BY <1>31, <1>t, <2>1 DEF RestTypes, StartRestore, table, requests, apart, others
<1>32. ASSUME NEW i \in Instances, EndRestore(i)
      PROVE  RestTypes'
  <2>1. inUse' \in [Users -> Int]
    BY <1>32, <1>t, RequestsTyped, UsageTyped, RefreshRaises DEF EndRestore
  <2> QED
    BY <1>32, <1>t, <2>1 DEF RestTypes, EndRestore, table, requests, apart, others
<1>33. ASSUME NEW E \in SUBSET live, ExpireRead(E)
      PROVE  RestTypes'
  BY <1>33, <1>t DEF RestTypes, ExpireRead, table
<1>34. CASE ExpireWrite
  <2>1. \A p \in due : p[2] \in Instances
    BY <1>t DEF Requests
  <2>2. slips' \subseteq Instances /\ late' \subseteq Instances
    BY <1>34, <1>t, <2>1 DEF ExpireWrite
  <2> QED
    BY <1>34, <1>t, <2>2 DEF RestTypes, ExpireWrite, table
<1>35. CASE UNCHANGED vars
  BY <1>35, <1>t DEF RestTypes, vars, usage, table, others
<1>36. ASSUME NEW i \in Instances, NEW n \in Slots, FailDelete(i, n)
      PROVE  RestTypes'
  <2>1. del' \in [Deletes -> Deletion]
    BY <1>36, <1>t, DeleteToTyped DEF FailDelete, DeletePcs
  <2> QED
    BY <1>36, <1>t, <2>1 DEF RestTypes, FailDelete, usage, table
<1> QED
  BY <1>1, <1>2, <1>3, <1>4, <1>5, <1>6, <1>7, <1>8, <1>9, <1>10, <1>11, <1>12, <1>13,
     <1>14, <1>15, <1>16, <1>17, <1>18, <1>19, <1>20, <1>21, <1>22, <1>23, <1>24, <1>25,
     <1>26, <1>27, <1>28, <1>29, <1>30, <1>31, <1>32, <1>33, <1>34, <1>35, <1>36
     DEF Next, Create, Delete, Restore

\* The initial states.
LEMMA RestInit == Init => RestTypes
<1> SUFFICES ASSUME Init PROVE RestTypes
  OBVIOUS
<1>1. Idle \in Deletion /\ Gone \in Rows
  BY DEF Idle, Deletion, DeletePcs, Gone, Rows, Vms, Tasks
<1> QED
  BY <1>1 DEF Init, RestTypes

(* The usage of every user is a number, and so is what is reserved, never    *)
(* negative unless an expiry has overwritten a concurrent update of it; an   *)
(* expiry only ever deletes reservations that are there; and every request,  *)
(* row and object that a delete holds is in a state that the code gives it,  *)
(* whatever expires, crashes or overlaps.                                    *)
THEOREM QuotasTypeCorrect == Spec => []TypeOK
<1>1. ReserveInv /\ RestTypes => TypeOK
  BY TypesSplit
<1> QED
  <2>1. ReserveInv /\ RestTypes /\ [Next]_vars => RestTypes'
    BY RestStep DEF ReserveInv
  <2> QED
    BY <1>1, <2>1, RestInit, ReserveInit, ReserveStep, PTL DEF Spec

-----------------------------------------------------------------------------
(* The usage covers the instances, as long as the deletes of an instance do *)
(* not overlap and no soft-deleted instance is deleted while its host is    *)
(* down: the code counts those twice.                                       *)

OneDelete == Slots = {1} /\ Soft \cap Stranded = {}

\* The delete of instance i, and whether its reservation is still there.
Pc(i)     == del[<<i, 1>>].pc
Seen(i)   == del[<<i, 1>>].obj
Holding(i) == Deleting(i, 1) \in live

\* What in_use has to count for instance i: it is in the table and not given
\* back, or its delete is about to give it back or has died on the way.  A restore that has saved its
\* task state is about to count it.
Billed(i) ==
    /\ cpc[i] = "exists" /\ i \in rows /\ Pc(i) # "discard"
    /\ \/ row[i].vm \in {"building", "active", "error"}
       \/ row[i].task = "restoring"
       \/ Pc(i) = "destroy" /\ Holding(i)
       \/ Pc(i) # "destroy" /\ row[i].vm = "deleted"
Returning(i) == Pc(i) = "commit" /\ Holding(i)
Regained(i)  == rpc[i] = "commit" /\ Restoring(i) \in live

\* What is only reserved for instance i.
Awaited(i) == Creating(i) \in live \/ (rpc[i] = "reserved" /\ Restoring(i) \in live)

\* The instances of user u of a kind.
BilledOf(u)    == {i \in Instances : Owner[i] = u /\ Billed(i)}
ReturningOf(u) == {i \in Instances : Owner[i] = u /\ Returning(i)}
RegainedOf(u)  == {i \in Instances : Owner[i] = u /\ Regained(i)}
EntitledOf(u)  == {i \in Instances : Owner[i] = u /\ (Billed(i) \/ Awaited(i))}
Entitled       == {i \in Instances : Billed(i) \/ Awaited(i)}

\* What in_use should be, that it is no less, and for users none of whose
\* instances is ever soft-deleted no more either.
Owed(u)   == Cardinality(BilledOf(u)) + Cardinality(ReturningOf(u)) - Cardinality(RegainedOf(u))
Covered   == \A u \in Users : Owed(u) <= inUse[u]
NoSoft(u) == \A i \in Soft : Owner[i] # u
Exact     == \A u \in Users : NoSoft(u) => Owed(u) = inUse[u]

WithinLimit ==
    /\ UserLimit >= 0 => \A u \in Users : Cardinality(EntitledOf(u)) <= UserLimit
    /\ ProjectLimit >= 0 => Cardinality(Entitled) <= ProjectLimit

\* Nothing else is done to an instance whose creation was not answered.
Unborn(i) ==
    cpc[i] # "exists" =>
        /\ Pc(i) = "idle" /\ rpc[i] = "idle" /\ i \notin booted
        /\ i \in rows => cpc[i] \in {"created", "dead"}

\* Only an instance that the conductor took gets a host, and only one with a
\* host leaves the state in which it was created.
Placed(i) ==
    /\ i \in rows /\ ~row[i].hosted => row[i].vm = "building"
    /\ row[i].hosted \/ i \in reclaiming => i \in booted
    /\ i \in rows /\ (rpc[i] # "idle" \/ row[i].task = "restoring") => row[i].hosted
    /\ i \in request => i \in rows /\ i \notin booted /\ Pc(i) \in {"idle", "booting"}
    /\ i \notin Stranded => i \in up
    /\ row[i].vm = "soft" => i \in Soft
    /\ row[i].vm = "deleted" => Pc(i) = "destroy" \/ i \in Stranded
    /\ Pc(i) = "local" => i \in Stranded

\* A delete that has won the BuildRequest has the instance for itself.
Halted(i) ==
    Pc(i) \in {"halted", "settle", "discard"} => i \in rows /\ i \notin request \cup booted

\* What a delete has read of the vm state is what its usage depends on.
AsRead(i) ==
    /\ Pc(i) # "idle" /\ del[<<i, 1>>].kind = "soft" => i \in Soft
    /\ Pc(i) \in {"reserve", "unhosted", "hosted", "cast"} /\ Seen(i).vm # "soft"
          => row[i].vm # "soft"
    /\ Pc(i) = "cast" /\ Seen(i).vm = "soft" => ~Holding(i)
    /\ Pc(i) \in {"hosted", "cast"} \/ (Pc(i) = "reserve" /\ Seen(i).hosted)
          => (i \in rows => row[i].hosted)

\* Without an expiry under way a creation and a restore hold what they reserved.
Kept(i) ==
    slips = {} =>
        /\ cpc[i] \in {"reserved", "created", "undone", "dead"} => Creating(i) \in live
        /\ rpc[i] \in {"reserved", "commit"} => Restoring(i) \in live

Standing(i) == Unborn(i) /\ Placed(i) /\ Halted(i) /\ AsRead(i) /\ Kept(i)

\* An instance that is never soft-deleted is neither restored nor reclaimed, and
\* its delete has its reservation until it ends, unless that has expired.
Hard(i) ==
    /\ cpc[i] = "created" => i \in rows
    /\ i \notin Soft =>
          /\ rpc[i] = "idle" /\ row[i].task # "restoring" /\ i \notin reclaiming
          /\ Pc(i) # "idle" => Seen(i).vm # "soft"
          /\ late = {} /\ Pc(i) \in {"settle", "unhosted", "hosted", "cast", "local", "destroy", "commit"}
                => Holding(i)

CoverInv ==
    /\ slips = {} => Covered /\ WithinLimit /\ (late = {} => Exact)
    /\ \A i \in Instances : Standing(i) /\ Hard(i)

\* A step that is about instance i, and what it does to the others.
SameAt(j) ==
    /\ row'[j] = row[j] /\ cpc'[j] = cpc[j] /\ rpc'[j] = rpc[j]
    /\ del'[<<j, 1>>] = del[<<j, 1>>]
    /\ j \in request' <=> j \in request
    /\ j \in booted' <=> j \in booted
    /\ j \in reclaiming' <=> j \in reclaiming
    /\ j \in up' <=> j \in up
SameLive(j) ==
    /\ Creating(j) \in live' <=> Creating(j) \in live
    /\ Restoring(j) \in live' <=> Restoring(j) \in live
    /\ Deleting(j, 1) \in live' <=> Deleting(j, 1) \in live
About(i) ==
    /\ slips \subseteq slips' /\ late \subseteq late'
    /\ \A j \in Instances \ {i} : SameAt(j) /\ SameLive(j)
    /\ \A u \in Users \ {Owner[i]} : inUse'[u] = inUse[u]

One(b) == IF b THEN 1 ELSE 0
Due(i) == One(Billed(i)) + One(Returning(i)) - One(Regained(i))

\* The usage changes by what has to be counted, and nothing more is allowed
\* for than what the quota has room for.
Counts(i) ==
    slips' = {} =>
        /\ Due(i)' - Due(i) <= inUse'[Owner[i]] - inUse[Owner[i]]
        /\ (Billed(i) \/ Awaited(i))' => Billed(i) \/ Awaited(i) \/ ~Over(Owner[i])

Exactly(i) ==
    slips' = {} /\ late' = {} /\ NoSoft(Owner[i])
        => Due(i)' - Due(i) = inUse'[Owner[i]] - inUse[Owner[i]]

\* One element more or less.
LEMMA OneElement ==
    ASSUME NEW S, NEW T, NEW x, IsFiniteSet(S), IsFiniteSet(T), S \ {x} = T \ {x}
    PROVE  /\ Cardinality(S) \in Nat /\ Cardinality(T) \in Nat
           /\ Cardinality(T) = Cardinality(S) + One(x \in T) - One(x \in S)
<1>1. Cardinality(S) \in Nat /\ Cardinality(T) \in Nat
  BY FS_CardinalityType
<1>2. CASE x \in S /\ x \in T
  <2>1. S = T
    BY <1>2
  <2> QED
    BY <1>1, <1>2, <2>1 DEF One
<1>3. CASE x \notin S /\ x \notin T
  <2>1. S = T
    BY <1>3
  <2> QED
    BY <1>1, <1>3, <2>1 DEF One
<1>4. CASE x \in S /\ x \notin T
  <2>1. S = T \cup {x}
    BY <1>4
  <2> QED
    BY <1>1, <1>4, <2>1, FS_AddElement DEF One
<1>5. CASE x \notin S /\ x \in T
  <2>1. T = S \cup {x}
    BY <1>5
  <2> QED
    BY <1>1, <1>5, <2>1, FS_AddElement DEF One
<1> QED
  BY <1>2, <1>3, <1>4, <1>5

\* The sets of instances that are counted are finite.
LEMMA FiniteCounts ==
    ASSUME NEW u
    PROVE  /\ IsFiniteSet(BilledOf(u)) /\ IsFiniteSet(ReturningOf(u))
           /\ IsFiniteSet(RegainedOf(u)) /\ IsFiniteSet(EntitledOf(u))
           /\ IsFiniteSet(BilledOf(u)') /\ IsFiniteSet(ReturningOf(u)')
           /\ IsFiniteSet(RegainedOf(u)') /\ IsFiniteSet(EntitledOf(u)')
<1>1. /\ BilledOf(u) \subseteq Instances /\ ReturningOf(u) \subseteq Instances
      /\ RegainedOf(u) \subseteq Instances /\ EntitledOf(u) \subseteq Instances
      /\ BilledOf(u)' \subseteq Instances /\ ReturningOf(u)' \subseteq Instances
      /\ RegainedOf(u)' \subseteq Instances /\ EntitledOf(u)' \subseteq Instances
  BY DEF BilledOf, ReturningOf, RegainedOf, EntitledOf
<1> QED
  BY <1>1, FiniteInstances, FS_Subset

\* The other instances are as they were.
LEMMA OthersStay ==
    ASSUME NEW i \in Instances, About(i), NEW j \in Instances \ {i}
    PROVE  /\ Billed(j)' <=> Billed(j)
           /\ Returning(j)' <=> Returning(j)
           /\ Regained(j)' <=> Regained(j)
           /\ Awaited(j)' <=> Awaited(j)
           /\ Standing(j) => Standing(j)'
           /\ Hard(j) => Hard(j)'
<1>1. SameAt(j) /\ SameLive(j) /\ (slips' = {} => slips = {}) /\ (late' = {} => late = {})
  BY DEF About
<1>2. (j \in rows)' <=> j \in rows
  BY <1>1 DEF SameAt, rows
<1>3. /\ Billed(j)' <=> Billed(j)
      /\ Returning(j)' <=> Returning(j)
      /\ Regained(j)' <=> Regained(j)
      /\ Awaited(j)' <=> Awaited(j)
  BY <1>1, <1>2 DEF SameAt, SameLive, Billed, Returning, Regained, Awaited, Pc, Holding
<1>4. Standing(j) => Standing(j)'
  BY <1>1, <1>2 DEF SameAt, SameLive, Standing, Unborn, Placed, Halted, AsRead, Kept, Pc,
                    Seen, Holding
<1>5. Hard(j) => Hard(j)'
  BY <1>1, <1>2 DEF SameAt, SameLive, Hard, Pc, Seen, Holding
<1> QED
  BY <1>3, <1>4, <1>5

\* What has to be counted moves with the instance the step is about.
LEMMA OwedMoves ==
    ASSUME NEW i \in Instances, About(i), NEW u \in Users
    PROVE  /\ Owed(u) \in Int /\ Owed(u)' \in Int /\ Due(i) \in Int /\ Due(i)' \in Int
           /\ u = Owner[i] => Owed(u)' - Owed(u) = Due(i)' - Due(i)
           /\ u # Owner[i] => Owed(u)' = Owed(u)
<1>2. \A j \in Instances \ {i} : /\ j \in BilledOf(u)' <=> j \in BilledOf(u)
                                 /\ j \in ReturningOf(u)' <=> j \in ReturningOf(u)
                                 /\ j \in RegainedOf(u)' <=> j \in RegainedOf(u)
  BY OthersStay DEF BilledOf, ReturningOf, RegainedOf
<1>3. /\ BilledOf(u) \ {i} = BilledOf(u)' \ {i}
      /\ ReturningOf(u) \ {i} = ReturningOf(u)' \ {i}
      /\ RegainedOf(u) \ {i} = RegainedOf(u)' \ {i}
  BY <1>2 DEF BilledOf, ReturningOf, RegainedOf
<1>a. /\ Cardinality(BilledOf(u)) \in Nat /\ Cardinality(BilledOf(u)') \in Nat
      /\ Cardinality(ReturningOf(u)) \in Nat /\ Cardinality(ReturningOf(u)') \in Nat
      /\ Cardinality(RegainedOf(u)) \in Nat /\ Cardinality(RegainedOf(u)') \in Nat
  BY FiniteCounts, FS_CardinalityType
<1>b. /\ Owed(u) = Cardinality(BilledOf(u)) + Cardinality(ReturningOf(u)) - Cardinality(RegainedOf(u))
      /\ Owed(u)' = Cardinality(BilledOf(u)') + Cardinality(ReturningOf(u)')
                        - Cardinality(RegainedOf(u)')
  BY DEF Owed
<1>c. /\ Due(i) = One(Billed(i)) + One(Returning(i)) - One(Regained(i))
      /\ Due(i)' = One(Billed(i)') + One(Returning(i)') - One(Regained(i)')
  BY DEF Due, One
<1>d. /\ One(Billed(i)) \in Int /\ One(Billed(i)') \in Int
      /\ One(Returning(i)) \in Int /\ One(Returning(i)') \in Int
      /\ One(Regained(i)) \in Int /\ One(Regained(i)') \in Int
  BY DEF One
<1>4. CASE u = Owner[i]
  <2>1. /\ (i \in BilledOf(u)) <=> Billed(i)
        /\ (i \in ReturningOf(u)) <=> Returning(i)
        /\ (i \in RegainedOf(u)) <=> Regained(i)
        /\ (i \in BilledOf(u)') <=> Billed(i)'
        /\ (i \in ReturningOf(u)') <=> Returning(i)'
        /\ (i \in RegainedOf(u)') <=> Regained(i)'
    BY <1>4 DEF BilledOf, ReturningOf, RegainedOf
  <2>2. Cardinality(BilledOf(u)') = Cardinality(BilledOf(u)) + One(Billed(i)') - One(Billed(i))
    BY <1>3, <2>1, FiniteCounts, OneElement DEF One
  <2>3. Cardinality(ReturningOf(u)')
             = Cardinality(ReturningOf(u)) + One(Returning(i)') - One(Returning(i))
    BY <1>3, <2>1, FiniteCounts, OneElement DEF One
  <2>4. Cardinality(RegainedOf(u)')
             = Cardinality(RegainedOf(u)) + One(Regained(i)') - One(Regained(i))
    BY <1>3, <2>1, FiniteCounts, OneElement DEF One
  <2> QED
    BY <1>4, <1>a, <1>b, <1>c, <1>d, <2>2, <2>3, <2>4
<1>5. CASE u # Owner[i]
  <2>1. i \notin BilledOf(u) /\ i \notin ReturningOf(u) /\ i \notin RegainedOf(u)
        /\ i \notin BilledOf(u)' /\ i \notin ReturningOf(u)' /\ i \notin RegainedOf(u)'
    BY <1>5 DEF BilledOf, ReturningOf, RegainedOf
  <2>2. BilledOf(u) = BilledOf(u)' /\ ReturningOf(u) = ReturningOf(u)' /\ RegainedOf(u) = RegainedOf(u)'
    BY <1>3, <2>1
  <2> QED
    BY <1>5, <1>a, <1>b, <1>c, <1>d, <2>2
<1> QED
  BY <1>4, <1>5

\* The usage follows what has to be counted.
LEMMA CoverKept ==
    ASSUME inUse \in [Users -> Int], inUse' \in [Users -> Int],
           NEW i \in Instances, About(i)
    PROVE  /\ Covered /\ Due(i)' - Due(i) <= inUse'[Owner[i]] - inUse[Owner[i]] => Covered'
           /\ Exact /\ (NoSoft(Owner[i]) => Due(i)' - Due(i) = inUse'[Owner[i]] - inUse[Owner[i]])
                  => Exact'
<1>1. \A u \in Users : inUse[u] \in Int /\ inUse'[u] \in Int
  OBVIOUS
<1>2. \A u \in Users \ {Owner[i]} : inUse'[u] = inUse[u] /\ Owed(u)' = Owed(u)
  BY OwedMoves DEF About
<1>3. /\ Owner[i] \in Users
      /\ Owed(Owner[i]) \in Int /\ Owed(Owner[i])' \in Int /\ Due(i) \in Int /\ Due(i)' \in Int
      /\ Owed(Owner[i])' - Owed(Owner[i]) = Due(i)' - Due(i)
  BY OwedMoves
<1>4. Covered /\ Due(i)' - Due(i) <= inUse'[Owner[i]] - inUse[Owner[i]] => Covered'
  BY <1>1, <1>2, <1>3 DEF Covered
<1>5. Exact /\ (NoSoft(Owner[i]) => Due(i)' - Due(i) = inUse'[Owner[i]] - inUse[Owner[i]])
          => Exact'
  BY <1>1, <1>2, <1>3 DEF Exact, NoSoft
<1> QED
  BY <1>4, <1>5

\* The usage of a user without soft-deleted instances is not counted anew.
LEMMA NotNegative ==
    ASSUME inUse \in [Users -> Int], Covered, \A i \in Instances : Hard(i),
           NEW u \in Users, NoSoft(u)
    PROVE  inUse[u] >= 0
<1>1. RegainedOf(u) = {}
  BY DEF RegainedOf, Regained, NoSoft, Hard
<1>2. Cardinality(RegainedOf(u)) = 0
  BY <1>1, FS_EmptySet
<1>3. Cardinality(BilledOf(u)) \in Nat /\ Cardinality(ReturningOf(u)) \in Nat
  BY FiniteCounts, FS_CardinalityType
<1>4. inUse[u] \in Int /\ Owed(u) <= inUse[u]
  BY DEF Covered
<1> QED
  BY <1>2, <1>3, <1>4 DEF Owed

\* The size of a union.
LEMMA Unions ==
    ASSUME NEW S, NEW T, IsFiniteSet(S), IsFiniteSet(T)
    PROVE  /\ IsFiniteSet(S \cup T)
           /\ Cardinality(S \cup T) <= Cardinality(S) + Cardinality(T)
           /\ S \cap T = {} => Cardinality(S \cup T) = Cardinality(S) + Cardinality(T)
<1>1. IsFiniteSet(S \cap T)
  BY FS_Intersection
<1>2. Cardinality(S) \in Nat /\ Cardinality(T) \in Nat /\ Cardinality(S \cap T) \in Nat
  BY <1>1, FS_CardinalityType
<1> QED
  BY <1>2, FS_Union, FS_EmptySet

\* Usage and reservations together cover what instances are entitled to.
LEMMA Covers ==
    ASSUME inUse \in [Users -> Int], ReserveInv, garbled = {}, Covered, NEW u \in Users
    PROVE  Cardinality(EntitledOf(u)) <= inUse[u] + reserved[u]
<1> DEFINE C == {i \in Instances : Owner[i] = u /\ Creating(i) \in live}
           W == {i \in Instances : Owner[i] = u /\ rpc[i] = "reserved" /\ Restoring(i) \in live}
           G == RegainedOf(u)
           BC == {Creating(i) : i \in C}
           BW == {Restoring(i) : i \in W}
           BG == {Restoring(i) : i \in G}
<1>1. /\ IsFiniteSet(C) /\ IsFiniteSet(W) /\ IsFiniteSet(G)
      /\ Cardinality(C) \in Nat /\ Cardinality(W) \in Nat /\ Cardinality(G) \in Nat
  <2>1. C \subseteq Instances /\ W \subseteq Instances
    OBVIOUS
  <2>2. IsFiniteSet(C) /\ IsFiniteSet(W) /\ IsFiniteSet(G)
    BY <2>1, FiniteInstances, FS_Subset, FiniteCounts
  <2> QED
    BY <2>2, FS_CardinalityType
<1>2. Cardinality(BC) = Cardinality(C) /\ IsFiniteSet(BC)
  <2>1. [i \in C |-> Creating(i)] \in Bijection(C, BC)
    BY DistinctRequests DEF Bijection, Injection, Surjection, IsInjective
  <2> QED
    BY <1>1, <2>1, FS_Bijection DEF ExistsBijection
<1>3. Cardinality(BW) = Cardinality(W) /\ IsFiniteSet(BW)
  <2>1. [i \in W |-> Restoring(i)] \in Bijection(W, BW)
    BY DistinctRequests DEF Bijection, Injection, Surjection, IsInjective
  <2> QED
    BY <1>1, <2>1, FS_Bijection DEF ExistsBijection
<1>4. Cardinality(BG) = Cardinality(G) /\ IsFiniteSet(BG)
  <2>1. [i \in G |-> Restoring(i)] \in Bijection(G, BG)
    BY DistinctRequests DEF Bijection, Injection, Surjection, IsInjective, RegainedOf
  <2> QED
    BY <1>1, <2>1, FS_Bijection DEF ExistsBijection
<1>5. Cardinality(BC \cup BW \cup BG) = Cardinality(C) + Cardinality(W) + Cardinality(G)
      /\ IsFiniteSet(BC \cup BW \cup BG)
  <2>1. BC \cap BW = {} /\ (BC \cup BW) \cap BG = {}
    BY DistinctRequests DEF RegainedOf, Regained
  <2> HIDE DEF BC, BW, BG, C, W, G
  <2>2. IsFiniteSet(BC \cup BW) /\ Cardinality(BC \cup BW) = Cardinality(C) + Cardinality(W)
    BY <1>1, <1>2, <1>3, <2>1, Unions
  <2> QED
    BY <1>1, <1>4, <2>1, <2>2, Unions
<1>6. Cardinality(C) + Cardinality(W) + Cardinality(G) <= reserved[u]
  <2>a. \A i \in Instances : /\ User(Creating(i)) = Owner[i] /\ User(Restoring(i)) = Owner[i]
                             /\ Delta(Creating(i)) > 0 /\ Delta(Restoring(i)) > 0
    BY DEF User, Delta, Creating, Restoring
  <2>b. BC \subseteq Backing(u)
    BY <2>a DEF Backing, Positive
  <2>c. BW \subseteq Backing(u)
    BY <2>a DEF Backing, Positive
  <2>d. BG \subseteq Backing(u)
    BY <2>a DEF Backing, Positive, RegainedOf, Regained
  <2>1. BC \cup BW \cup BG \subseteq Backing(u)
    BY <2>b, <2>c, <2>d
  <2>2. IsFiniteSet(Backing(u)) /\ reserved[u] = Cardinality(Backing(u))
    BY DEF ReserveInv, Backed
  <2>3. Cardinality(BC \cup BW \cup BG) <= Cardinality(Backing(u))
    BY <2>1, <2>2, FS_Subset
  <2> QED
    BY <1>5, <2>2, <2>3
<1>7. Cardinality(EntitledOf(u)) <= Cardinality(BilledOf(u)) + Cardinality(C) + Cardinality(W)
  <2>1. EntitledOf(u) = (BilledOf(u) \cup C) \cup W
    BY DEF EntitledOf, BilledOf, Awaited
  <2>2. IsFiniteSet(BilledOf(u))
    BY FiniteCounts
  <2>3. /\ Cardinality(BilledOf(u)) \in Nat /\ Cardinality(BilledOf(u) \cup C) \in Nat
        /\ IsFiniteSet(BilledOf(u) \cup C)
        /\ Cardinality(BilledOf(u) \cup C) <= Cardinality(BilledOf(u)) + Cardinality(C)
    BY <1>1, <2>2, Unions, FS_CardinalityType
  <2>4. /\ Cardinality((BilledOf(u) \cup C) \cup W) \in Nat
        /\ Cardinality((BilledOf(u) \cup C) \cup W) <= Cardinality(BilledOf(u) \cup C) + Cardinality(W)
    BY <1>1, <2>3, Unions, FS_CardinalityType
  <2> HIDE DEF C, W
  <2> QED
    BY <1>1, <2>1, <2>3, <2>4
<1>8. /\ Cardinality(BilledOf(u)) \in Nat /\ Cardinality(ReturningOf(u)) \in Nat
      /\ Cardinality(EntitledOf(u)) \in Nat
      /\ inUse[u] \in Int /\ reserved[u] \in Int
      /\ Cardinality(BilledOf(u)) + Cardinality(ReturningOf(u)) - Cardinality(G) <= inUse[u]
  BY FiniteCounts, FS_CardinalityType DEF Covered, Owed, ReserveInv, ReserveTypes
<1> HIDE DEF C, W, G
<1> QED
  BY <1>1, <1>6, <1>7, <1>8

\* A user has no more than the limit, and stays so.
LEMMA UserLimitKept ==
    ASSUME inUse \in [Users -> Int], ReserveInv, garbled = {}, Covered, WithinLimit,
           NEW i \in Instances, About(i),
           (Billed(i) \/ Awaited(i))' => Billed(i) \/ Awaited(i) \/ ~Over(Owner[i]),
           UserLimit >= 0, NEW u \in Users
    PROVE  Cardinality(EntitledOf(u)') <= UserLimit
<1>1. Cardinality(EntitledOf(u)) <= UserLimit
  BY DEF WithinLimit
<1>2. \A j \in Instances \ {i} : j \in EntitledOf(u)' <=> j \in EntitledOf(u)
  BY OthersStay DEF EntitledOf
<1>3. IsFiniteSet(EntitledOf(u)) /\ IsFiniteSet(EntitledOf(u)')
  BY FiniteCounts
<1>4. CASE EntitledOf(u)' \subseteq EntitledOf(u)
  BY <1>1, <1>3, <1>4, FS_Subset, FS_CardinalityType
<1>5. CASE ~(EntitledOf(u)' \subseteq EntitledOf(u))
  <2>1. i \in EntitledOf(u)' /\ i \notin EntitledOf(u)
    BY <1>2, <1>5 DEF EntitledOf
  <2>2. u = Owner[i] /\ ~Over(u)
    BY <2>1 DEF EntitledOf
  <2>3. EntitledOf(u)' = EntitledOf(u) \cup {i}
    BY <1>2, <2>1 DEF EntitledOf
  <2>4. /\ Cardinality(EntitledOf(u)') = Cardinality(EntitledOf(u)) + 1
        /\ Cardinality(EntitledOf(u)) \in Nat
    BY <1>3, <2>1, <2>3, FS_AddElement, FS_CardinalityType
  <2>5. Refreshed(u) \in Int /\ inUse[u] <= Refreshed(u)
    BY RefreshRaises
  <2>6. 1 + Refreshed(u) + reserved[u] <= UserLimit
    BY <2>2, <2>5 DEF Over, ReserveInv, ReserveTypes
  <2>7. Cardinality(EntitledOf(u)) <= inUse[u] + reserved[u]
    BY Covers
  <2> QED
    BY <2>4, <2>5, <2>6, <2>7 DEF ReserveInv, ReserveTypes
<1> QED
  BY <1>4, <1>5

\* The total of the project covers what all its instances are entitled to.
LEMMA ProjectCovers ==
    ASSUME inUse \in [Users -> Int], ReserveInv, garbled = {}, Covered
    PROVE  Total \in Int /\ Cardinality(Entitled) <= Total
<1> DEFINE E == [u \in Users |-> EntitledOf(u)]
<1>1. E \in [Users -> SUBSET Instances]
  BY DEF EntitledOf
<1>2. \A u \in Users : Cardinality(E[u]) <= inUse[u] + reserved[u]
  BY Covers
<1>3. Entitled = UNION {E[u] : u \in Users}
  BY DEF Entitled, EntitledOf
<1>4. reserved \in [Users -> Int]
  BY DEF ReserveInv, ReserveTypes
<1> HIDE DEF E
<1> QED
  BY <1>1, <1>2, <1>3, <1>4, TotalCovers

\* The project has no more than its limit, and stays so.
LEMMA ProjectLimitKept ==
    ASSUME inUse \in [Users -> Int], ReserveInv, garbled = {}, Covered, WithinLimit,
           NEW i \in Instances, About(i),
           (Billed(i) \/ Awaited(i))' => Billed(i) \/ Awaited(i) \/ ~Over(Owner[i]),
           ProjectLimit >= 0
    PROVE  Cardinality(Entitled') <= ProjectLimit
<1>1. Cardinality(Entitled) <= ProjectLimit
  BY DEF WithinLimit
<1>2. \A j \in Instances \ {i} : j \in Entitled' <=> j \in Entitled
  BY OthersStay DEF Entitled
<1>3. IsFiniteSet(Entitled) /\ IsFiniteSet(Entitled')
  <2>1. Entitled \subseteq Instances /\ Entitled' \subseteq Instances
    BY DEF Entitled
  <2> QED
    BY <2>1, FiniteInstances, FS_Subset
<1>4. CASE Entitled' \subseteq Entitled
  BY <1>1, <1>3, <1>4, FS_Subset, FS_CardinalityType
<1>5. CASE ~(Entitled' \subseteq Entitled)
  <2>1. i \in Entitled' /\ i \notin Entitled
    BY <1>2, <1>5 DEF Entitled
  <2>2. ~Over(Owner[i])
    BY <2>1 DEF Entitled
  <2>3. Entitled' = Entitled \cup {i}
    BY <1>2, <2>1 DEF Entitled
  <2>4. Cardinality(Entitled') = Cardinality(Entitled) + 1 /\ Cardinality(Entitled) \in Nat
    BY <1>3, <2>1, <2>3, FS_AddElement, FS_CardinalityType
  <2>5. Total \in Int /\ Cardinality(Entitled) <= Total
    BY ProjectCovers
  <2>6. 1 + Total <= ProjectLimit
    BY <2>2, <2>5 DEF Over
  <2> QED
    BY <2>4, <2>5, <2>6
<1> QED
  BY <1>4, <1>5

\* A step about one instance that counts what it does keeps the invariant.
LEMMA AboutOne ==
    ASSUME inUse \in [Users -> Int], inUse' \in [Users -> Int], ReserveInv, CoverInv,
           NEW i \in Instances, About(i), Standing(i)', Counts(i), Hard(i)', Exactly(i)
    PROVE  CoverInv'
<1>1. \A j \in Instances : Standing(j)' /\ Hard(j)'
  BY OthersStay DEF CoverInv
<1>2. ASSUME slips' = {}
      PROVE  Covered' /\ WithinLimit' /\ (late' = {} => Exact')
  <2>1. slips = {} /\ garbled = {} /\ (late' = {} => late = {})
    BY <1>2 DEF About, ReserveInv, Expiring
  <2>2. Covered /\ WithinLimit /\ (late = {} => Exact)
    BY <2>1 DEF CoverInv
  <2>3. Covered' /\ (late' = {} => Exact')
    BY <1>2, <2>1, <2>2, CoverKept DEF Counts, Exactly
  <2>4. WithinLimit'
    BY <1>2, <2>1, <2>2, UserLimitKept, ProjectLimitKept DEF Counts, WithinLimit
  <2> QED
    BY <2>3, <2>4
<1> QED
  BY <1>1, <1>2 DEF CoverInv

\* Where a delete goes, and that the other deletes stay where they are.
LEMMA DeleteMoves ==
    ASSUME OneDelete, del \in [Deletes -> Deletion], NEW i \in Instances, NEW obj, NEW label,
           DeleteGets(i, 1, obj, label)
    PROVE  /\ \A j \in Instances \ {i} : del'[<<j, 1>>] = del[<<j, 1>>]
           /\ label = "idle" => Pc(i)' = "idle"
           /\ label # "idle" => /\ Pc(i)' = label /\ Seen(i)' = obj
                                /\ del'[<<i, 1>>].kind = del[<<i, 1>>].kind
<1>1. \A j \in Instances : <<j, 1>> \in Deletes /\ (<<j, 1>> = <<i, 1>> => j = i)
  BY DEF Deletes, OneDelete
<1>2. del[<<i, 1>>] \in [pc : DeletePcs, kind : {"hard", "soft"}, obj : Rows]
  BY <1>1 DEF Deletion
<1>3. \A j \in Instances \ {i} : del'[<<j, 1>>] = del[<<j, 1>>]
  BY <1>1 DEF DeleteGets
<1>4. del'[<<i, 1>>] = IF label = "idle" THEN Idle
                       ELSE [del[<<i, 1>>] EXCEPT !.pc = label, !.obj = obj]
  BY <1>1 DEF DeleteGets
<1> QED
  BY <1>2, <1>3, <1>4 DEF Pc, Seen, Idle

\* A transaction for a request of instance i is not about other instances.
LEMMA OthersHold ==
    ASSUME NEW i \in Instances, NEW p \in {Creating(i), Restoring(i), Deleting(i, 1)},
           live' = live \cup {p} \/ live' = live \ {p}, NEW j \in Instances \ {i}
    PROVE  SameLive(j)
BY DEF SameLive, Creating, Restoring, Deleting

\* The requests of one instance differ.
LEMMA OwnRequests ==
    ASSUME NEW i \in Instances
    PROVE  /\ Creating(i) # Restoring(i) /\ Creating(i) # Deleting(i, 1)
           /\ Restoring(i) # Deleting(i, 1)
           /\ User(Creating(i)) = Owner[i] /\ User(Restoring(i)) = Owner[i]
           /\ User(Deleting(i, 1)) = Owner[i]
           /\ Delta(Creating(i)) = 1 /\ Delta(Restoring(i)) = 1 /\ Delta(Deleting(i, 1)) = -1
BY DEF Creating, Restoring, Deleting, User, Delta

\* What the transactions for a request of instance i do to the usage.
LEMMA UsageMoves ==
    ASSUME inUse \in [Users -> Int], NEW i \in Instances,
           NEW p \in {Creating(i), Restoring(i), Deleting(i, 1)}
    PROVE  /\ \A u \in Users \ {Owner[i]} :
                  (Reserve(p) \/ Commit(p) \/ Rollback(p)) => inUse'[u] = inUse[u]
           /\ Reserve(p) => /\ inUse[Owner[i]] <= inUse'[Owner[i]] /\ live' = live \cup {p}
                            /\ inUse[Owner[i]] >= 0 => inUse'[Owner[i]] = inUse[Owner[i]]
           /\ Rollback(p) => inUse' = inUse /\ live' = live \ {p}
           /\ Commit(p) => /\ live' = live \ {p}
                           /\ p \in live => inUse'[Owner[i]] = inUse[Owner[i]] + Delta(p)
                           /\ p \notin live => inUse'[Owner[i]] = inUse[Owner[i]]
<1>1. User(p) = Owner[i] /\ Owner[i] \in Users
  BY OwnRequests
<1>2. Refreshed(Owner[i]) \in Int /\ inUse[Owner[i]] <= Refreshed(Owner[i])
  BY <1>1, RefreshRaises
<1>3. Reserve(p) => /\ \A u \in Users \ {Owner[i]} : inUse'[u] = inUse[u]
                    /\ inUse[Owner[i]] <= inUse'[Owner[i]] /\ live' = live \cup {p}
                    /\ inUse[Owner[i]] >= 0 => inUse'[Owner[i]] = inUse[Owner[i]]
  <2>1. inUse[Owner[i]] \in Int /\ (inUse[Owner[i]] >= 0 => Refreshed(Owner[i]) = inUse[Owner[i]])
    BY <1>1 DEF Refreshed
  <2> QED
    BY <1>1, <1>2, <2>1, RefreshRaises DEF Reserve
<1>4. Rollback(p) => inUse' = inUse /\ live' = live \ {p}
  BY DEF Rollback
<1>5. Commit(p) => /\ \A u \in Users \ {Owner[i]} : inUse'[u] = inUse[u]
                   /\ live' = live \ {p}
                   /\ p \in live => inUse'[Owner[i]] = inUse[Owner[i]] + Delta(p)
                   /\ p \notin live => inUse'[Owner[i]] = inUse[Owner[i]]
  BY <1>1 DEF Commit
<1> QED
  BY <1>3, <1>4, <1>5

\* A step that changes nothing the invariant speaks of.
LEMMA Stays ==
    ASSUME CoverInv,
           UNCHANGED <<cpc, rpc, slips, late, del, reclaiming, up, request, booted, inUse, live, row>>
    PROVE  CoverInv'
BY DEF CoverInv, Covered, Exact, Owed, Hard, WithinLimit, BilledOf, ReturningOf, RegainedOf,
       EntitledOf, Entitled, Billed, Returning, Regained, Awaited, Standing, Unborn, Placed,
       Halted, AsRead, Kept, Pc, Seen, Holding, rows

\* The second half of an expiry, which may be about several instances.  Unless it
\* is a slip it only deletes reservations of deletes, and unless a delete loses
\* its reservation by it only those that requests of the past have left.
LEMMA Expires ==
    ASSUME OneDelete, inUse \in [Users -> Int], ReserveInv, CoverInv, ExpireWrite
    PROVE  CoverInv'
<1>1. /\ UNCHANGED <<cpc, rpc, del, reclaiming, up, request, booted, inUse, row>>
      /\ live' = live \ due
      /\ slips \subseteq slips' /\ late \subseteq late'
      /\ \A p \in due : Delta(p) > 0 => slips' # {}
      /\ \A p \in due : Delta(p) < 0 /\ ~Dead(p) => late' # {}
  <2>1. /\ slips' = slips \cup {p[2] : p \in {q \in due : Delta(q) > 0}}
                         \cup {i \in Instances : Owner[i] \in garbled'}
        /\ late' = late \cup {p[2] : p \in {q \in due : Delta(q) < 0 /\ ~Dead(q)}}
    BY DEF ExpireWrite
  <2>2. \A p \in due : Delta(p) > 0 => p[2] \in slips'
    BY <2>1
  <2>3. \A p \in due : Delta(p) < 0 /\ ~Dead(p) => p[2] \in late'
    BY <2>1
  <2>4. slips \subseteq slips' /\ late \subseteq late'
    BY <2>1
  <2> QED
    BY <2>2, <2>3, <2>4 DEF ExpireWrite, table
<1>2. slips' = {} => \A i \in Instances : /\ Creating(i) \in live' <=> Creating(i) \in live
                                          /\ Restoring(i) \in live' <=> Restoring(i) \in live
  BY <1>1, OwnRequests
<1>3. ASSUME NEW i \in Instances, late' = {},
             Pc(i) \notin {"idle", "booting", "halted", "mark", "reserve"}
      PROVE  Holding(i)' <=> Holding(i)
  <2>1. Delta(Deleting(i, 1)) < 0 /\ ~Dead(Deleting(i, 1))
    BY <1>3, OwnRequests DEF Dead, Deleting, Pc
  <2> QED
    BY <1>1, <1>3, <2>1 DEF Holding
<1>4. \A i \in Instances : Standing(i)' /\ Hard(i)'
  <2> TAKE i \in Instances
  <2>1. Standing(i) /\ Hard(i)
    BY DEF CoverInv
  <2>2. Standing(i)'
    BY <1>1, <1>2, <2>1 DEF Standing, Unborn, Placed, Halted, AsRead, Kept, Pc, Seen, Holding, rows
  <2>3. Hard(i)'
    BY <1>1, <1>3, <2>1 DEF Hard, Pc, Seen, rows
  <2> QED
    BY <2>2, <2>3
<1>5. ASSUME slips' = {}
      PROVE  Covered' /\ WithinLimit' /\ (late' = {} => Exact')
  <2>1. Covered /\ WithinLimit /\ (late = {} => Exact)
    BY <1>1, <1>5 DEF CoverInv
  <2>2. \A i \in Instances : /\ Billed(i)' => Billed(i)
                             /\ Returning(i)' => Returning(i)
                             /\ Regained(i)' <=> Regained(i)
                             /\ Awaited(i)' <=> Awaited(i)
    BY <1>1, <1>2, <1>5 DEF Billed, Returning, Regained, Awaited, Pc, Holding, rows
  <2>3. ASSUME NEW u \in Users
        PROVE  /\ Owed(u)' <= Owed(u) /\ Owed(u) \in Int /\ Owed(u)' \in Int
               /\ Cardinality(EntitledOf(u)') <= Cardinality(EntitledOf(u))
               /\ Cardinality(EntitledOf(u)') \in Nat /\ Cardinality(EntitledOf(u)) \in Nat
    <3>1. /\ BilledOf(u)' \subseteq BilledOf(u) /\ ReturningOf(u)' \subseteq ReturningOf(u)
          /\ RegainedOf(u)' = RegainedOf(u) /\ EntitledOf(u)' \subseteq EntitledOf(u)
      BY <2>2 DEF BilledOf, ReturningOf, RegainedOf, EntitledOf
    <3>2. /\ Cardinality(BilledOf(u)') <= Cardinality(BilledOf(u))
          /\ Cardinality(ReturningOf(u)') <= Cardinality(ReturningOf(u))
          /\ Cardinality(EntitledOf(u)') <= Cardinality(EntitledOf(u))
      BY <3>1, FiniteCounts, FS_Subset
    <3>3. /\ Cardinality(BilledOf(u)) \in Nat /\ Cardinality(BilledOf(u)') \in Nat
          /\ Cardinality(ReturningOf(u)) \in Nat /\ Cardinality(ReturningOf(u)') \in Nat
          /\ Cardinality(RegainedOf(u)) \in Nat
          /\ Cardinality(EntitledOf(u)) \in Nat /\ Cardinality(EntitledOf(u)') \in Nat
      BY FiniteCounts, FS_CardinalityType
    <3> QED
      BY <3>1, <3>2, <3>3 DEF Owed
  <2>4. Covered'
    BY <1>1, <2>1, <2>3 DEF Covered
  <2>5. WithinLimit'
    <3>1. Entitled' \subseteq Entitled /\ IsFiniteSet(Entitled)
      BY <2>2, FiniteInstances, FS_Subset DEF Entitled
    <3>2. /\ Cardinality(Entitled') <= Cardinality(Entitled)
          /\ Cardinality(Entitled') \in Nat /\ Cardinality(Entitled) \in Nat
      BY <3>1, FS_Subset, FS_CardinalityType
    <3> QED
      BY <2>1, <2>3, <3>2 DEF WithinLimit
  <2>6. ASSUME late' = {}
        PROVE  Exact'
    <3>1. Exact
      BY <1>1, <2>1, <2>6
    <3>2. \A i \in Instances : /\ Billed(i)' <=> Billed(i)
                               /\ Returning(i)' <=> Returning(i)
      BY <1>1, <1>3, <2>6 DEF Billed, Returning, Pc, rows
    <3>3. \A u \in Users : Owed(u)' = Owed(u)
      BY <2>2, <3>2 DEF Owed, BilledOf, ReturningOf, RegainedOf
    <3> QED
      BY <1>1, <3>1, <3>3 DEF Exact, NoSoft
  <2> QED
    BY <2>4, <2>5, <2>6
<1> QED
  BY <1>4, <1>5 DEF CoverInv

\* One case per action.
LEMMA CoverStep ==
    ASSUME OneDelete, TypeOK, inUse' \in [Users -> Int], ReserveInv, CoverInv, [Next]_vars
    PROVE  CoverInv'
<1>t. /\ inUse \in [Users -> Int] /\ inUse' \in [Users -> Int] /\ ReserveInv /\ CoverInv /\ OneDelete
      /\ row \in [Instances -> Rows] /\ del \in [Deletes -> Deletion]
      /\ cpc \in [Instances -> CreatePcs]
      /\ rpc \in [Instances -> {"idle", "reserved", "commit", "rollback"}]
  BY DEF TypeOK, Deletion
<1>v. \A i \in Instances : row[i].vm \in {"building", "active", "error", "soft", "deleted", "gone"}
  BY <1>t DEF Rows, Vms
<1>s. \A i \in Instances : Standing(i)
  BY DEF CoverInv
<1>h. \A i \in Instances : Hard(i)
  BY DEF CoverInv
<1>p. \A i \in Instances :
          slips = {} /\ NoSoft(Owner[i]) => i \notin Soft /\ inUse[Owner[i]] >= 0
  BY <1>t, <1>h, NotNegative DEF CoverInv, NoSoft
<1>1. ASSUME NEW i \in Instances, Boot(i)
      PROVE  CoverInv'
  <2>1. About(i)
    BY <1>1, <1>t DEF About, SameAt, SameLive, Boot, usage, requests, others, apart
  <2>2. Standing(i)'
    BY <1>1, <1>t, <1>s DEF Standing, Unborn, Placed, Halted, AsRead, Kept, Pc, Seen,
       Holding, rows, Boot, usage, requests, others, apart
  <2>3. Counts(i)
    BY <1>1, <1>t, <1>s DEF Counts, Due, One, Billed, Returning, Regained, Awaited, Pc,
       Holding, rows, Boot, usage, requests, others, apart
  <2>4. Hard(i)'
    BY <1>1, <1>t, <1>h, <1>s DEF Hard, Standing, Unborn, Placed, AsRead, Pc, Seen, Holding,
       rows, Boot, usage, requests, others, apart
  <2>5. Exactly(i)
    BY <1>1, <1>t, <1>h, <1>p, <1>s DEF Exactly, Hard, Standing, Unborn, Placed, Halted,
       AsRead, Due, One, Billed, Returning, Regained, Pc, Seen, Holding, rows, Boot, usage,
       requests, others, apart
  <2> QED
    BY <1>t, <2>1, <2>2, <2>3, <2>4, <2>5, AboutOne
<1>2. ASSUME NEW i \in Instances, ClaimHost(i)
      PROVE  CoverInv'
  <2>1. About(i)
    BY <1>2, <1>t DEF About, SameAt, SameLive, ClaimHost, usage, requests, others, apart
  <2>2. Standing(i)'
    BY <1>2, <1>t, <1>s DEF Standing, Unborn, Placed, Halted, AsRead, Kept, Pc, Seen,
       Holding, rows, ClaimHost, usage, requests, others, apart
  <2>3. Counts(i)
    BY <1>2, <1>t, <1>s DEF Counts, Due, One, Billed, Returning, Regained, Awaited, Pc,
       Holding, rows, ClaimHost, usage, requests, others, apart
  <2>4. Hard(i)'
    BY <1>2, <1>t, <1>h, <1>s DEF Hard, Standing, Unborn, Placed, AsRead, Pc, Seen, Holding,
       rows, ClaimHost, usage, requests, others, apart
  <2>5. Exactly(i)
    BY <1>2, <1>t, <1>h, <1>p, <1>s DEF Exactly, Hard, Standing, Unborn, Placed, Halted,
       AsRead, Due, One, Billed, Returning, Regained, Pc, Seen, Holding, rows, ClaimHost,
       usage, requests, others, apart
  <2> QED
    BY <1>t, <2>1, <2>2, <2>3, <2>4, <2>5, AboutOne
<1>3. ASSUME NEW i \in Instances, Activate(i)
      PROVE  CoverInv'
  <2>1. About(i)
    BY <1>3, <1>t DEF About, SameAt, SameLive, Activate, usage, requests, others, apart
  <2>2. Standing(i)'
    BY <1>3, <1>t, <1>s DEF Standing, Unborn, Placed, Halted, AsRead, Kept, Pc, Seen,
       Holding, rows, Activate, usage, requests, others, apart
  <2>3. Counts(i)
    BY <1>3, <1>t, <1>s DEF Counts, Due, One, Billed, Returning, Regained, Awaited, Pc,
       Holding, rows, Activate, usage, requests, others, apart
  <2>4. Hard(i)'
    BY <1>3, <1>t, <1>h, <1>s DEF Hard, Standing, Unborn, Placed, AsRead, Pc, Seen, Holding,
       rows, Activate, usage, requests, others, apart
  <2>5. Exactly(i)
    BY <1>3, <1>t, <1>h, <1>p, <1>s DEF Exactly, Hard, Standing, Unborn, Placed, Halted,
       AsRead, Due, One, Billed, Returning, Regained, Pc, Seen, Holding, rows, Activate,
       usage, requests, others, apart
  <2> QED
    BY <1>t, <2>1, <2>2, <2>3, <2>4, <2>5, AboutOne
<1>4. ASSUME NEW i \in Instances, NEW ok \in BOOLEAN, RestoreInstance(i, ok)
      PROVE  CoverInv'
  <2>r. /\ row'[i].task = "none" /\ row'[i].hosted = row[i].hosted
        /\ row'[i].vm = IF ok THEN "active" ELSE row[i].vm
    BY <1>4, <1>t DEF Rows, rows, Gone, Vms, Tasks, RestoreTo, RestoreInstance, usage
  <2>1. About(i)
    BY <1>4, <1>t DEF About, SameAt, SameLive, RestoreInstance, usage, requests, others,
       apart
  <2>2. Standing(i)'
    BY <1>4, <1>t, <2>r, <1>s DEF Standing, Unborn, Placed, Halted, AsRead, Kept, Pc, Seen,
       Holding, rows, RestoreInstance, usage, requests, others, apart
  <2>3. Counts(i)
    BY <1>4, <1>t, <2>r, <1>s DEF Counts, Due, One, Billed, Returning, Regained, Awaited,
       Pc, Holding, rows, RestoreInstance, usage, requests, others, apart
  <2>4. Hard(i)'
    BY <1>4, <1>t, <2>r, <1>h, <1>s DEF Hard, Standing, Unborn, Placed, AsRead, Pc, Seen,
       Holding, rows, RestoreInstance, usage, requests, others, apart
  <2>5. Exactly(i)
    BY <1>4, <1>t, <2>r, <1>h, <1>p, <1>s DEF Exactly, Hard, Standing, Unborn, Placed,
       Halted, AsRead, Due, One, Billed, Returning, Regained, Pc, Seen, Holding, rows,
       RestoreInstance, usage, requests, others, apart
  <2> QED
    BY <1>t, <2>1, <2>2, <2>3, <2>4, <2>5, AboutOne
<1>5. ASSUME NEW i \in Instances, ReadReclaim(i)
      PROVE  CoverInv'
  <2>1. About(i)
    BY <1>5, <1>t DEF About, SameAt, SameLive, ReadReclaim, usage, requests, others, apart,
       table
  <2>2. Standing(i)'
    BY <1>5, <1>t, <1>s DEF Standing, Unborn, Placed, Halted, AsRead, Kept, Pc, Seen,
       Holding, rows, ReadReclaim, usage, requests, others, apart, table
  <2>3. Counts(i)
    BY <1>5, <1>t, <1>s DEF Counts, Due, One, Billed, Returning, Regained, Awaited, Pc,
       Holding, rows, ReadReclaim, usage, requests, others, apart, table
  <2>4. Hard(i)'
    BY <1>5, <1>t, <1>h, <1>s DEF Hard, Standing, Unborn, Placed, AsRead, Pc, Seen, Holding,
       rows, ReadReclaim, usage, requests, others, apart, table
  <2>5. Exactly(i)
    BY <1>5, <1>t, <1>h, <1>p, <1>s DEF Exactly, Hard, Standing, Unborn, Placed, Halted,
       AsRead, Due, One, Billed, Returning, Regained, Pc, Seen, Holding, rows, ReadReclaim,
       usage, requests, others, apart, table
  <2> QED
    BY <1>t, <2>1, <2>2, <2>3, <2>4, <2>5, AboutOne
<1>6. ASSUME NEW i \in Instances, Reclaim(i)
      PROVE  CoverInv'
  <2>r. row'[i].vm = "gone" /\ row'[i].task = "none" /\ row'[i].hosted = FALSE
    BY <1>6, <1>t DEF Rows, rows, Gone, Vms, Tasks, RestoreTo, Reclaim, usage
  <2>1. About(i)
    BY <1>6, <1>t DEF About, SameAt, SameLive, Reclaim, usage, requests, others, apart
  <2>2. Standing(i)'
    BY <1>6, <1>t, <2>r, <1>s DEF Standing, Unborn, Placed, Halted, AsRead, Kept, Pc, Seen,
       Holding, rows, Reclaim, usage, requests, others, apart
  <2>3. Counts(i)
    BY <1>6, <1>t, <2>r, <1>s DEF Counts, Due, One, Billed, Returning, Regained, Awaited,
       Pc, Holding, rows, Reclaim, usage, requests, others, apart
  <2>4. Hard(i)'
    BY <1>6, <1>t, <2>r, <1>h, <1>s DEF Hard, Standing, Unborn, Placed, AsRead, Pc, Seen,
       Holding, rows, Reclaim, usage, requests, others, apart
  <2>5. Exactly(i)
    BY <1>6, <1>t, <2>r, <1>h, <1>p, <1>s DEF Exactly, Hard, Standing, Unborn, Placed,
       Halted, AsRead, Due, One, Billed, Returning, Regained, Pc, Seen, Holding, rows,
       Reclaim, usage, requests, others, apart
  <2> QED
    BY <1>t, <2>1, <2>2, <2>3, <2>4, <2>5, AboutOne
<1>7. ASSUME NEW i \in Instances, HostDown(i)
      PROVE  CoverInv'
  <2>1. About(i)
    BY <1>7, <1>t DEF About, SameAt, SameLive, HostDown, usage, requests, others, apart,
       table
  <2>2. Standing(i)'
    BY <1>7, <1>t, <1>s DEF Standing, Unborn, Placed, Halted, AsRead, Kept, Pc, Seen,
       Holding, rows, HostDown, usage, requests, others, apart, table
  <2>3. Counts(i)
    BY <1>7, <1>t, <1>s DEF Counts, Due, One, Billed, Returning, Regained, Awaited, Pc,
       Holding, rows, HostDown, usage, requests, others, apart, table
  <2>4. Hard(i)'
    BY <1>7, <1>t, <1>h, <1>s DEF Hard, Standing, Unborn, Placed, AsRead, Pc, Seen, Holding,
       rows, HostDown, usage, requests, others, apart, table
  <2>5. Exactly(i)
    BY <1>7, <1>t, <1>h, <1>p, <1>s DEF Exactly, Hard, Standing, Unborn, Placed, Halted,
       AsRead, Due, One, Billed, Returning, Regained, Pc, Seen, Holding, rows, HostDown,
       usage, requests, others, apart, table
  <2> QED
    BY <1>t, <2>1, <2>2, <2>3, <2>4, <2>5, AboutOne
<1>8. ASSUME NEW i \in Instances, HostUp(i)
      PROVE  CoverInv'
  <2>1. About(i)
    BY <1>8, <1>t DEF About, SameAt, SameLive, HostUp, usage, requests, others, apart, table
  <2>2. Standing(i)'
    BY <1>8, <1>t, <1>s DEF Standing, Unborn, Placed, Halted, AsRead, Kept, Pc, Seen,
       Holding, rows, HostUp, usage, requests, others, apart, table
  <2>3. Counts(i)
    BY <1>8, <1>t, <1>s DEF Counts, Due, One, Billed, Returning, Regained, Awaited, Pc,
       Holding, rows, HostUp, usage, requests, others, apart, table
  <2>4. Hard(i)'
    BY <1>8, <1>t, <1>h, <1>s DEF Hard, Standing, Unborn, Placed, AsRead, Pc, Seen, Holding,
       rows, HostUp, usage, requests, others, apart, table
  <2>5. Exactly(i)
    BY <1>8, <1>t, <1>h, <1>p, <1>s DEF Exactly, Hard, Standing, Unborn, Placed, Halted,
       AsRead, Due, One, Billed, Returning, Regained, Pc, Seen, Holding, rows, HostUp,
       usage, requests, others, apart, table
  <2> QED
    BY <1>t, <2>1, <2>2, <2>3, <2>4, <2>5, AboutOne
<1>9. ASSUME NEW i \in Instances, CreateRow(i)
      PROVE  CoverInv'
  <2>1. About(i)
    BY <1>9, <1>t DEF About, SameAt, SameLive, CreateRow, usage, requests, others, apart,
       NewRow
  <2>2. Standing(i)'
    BY <1>9, <1>t, <1>s DEF Standing, Unborn, Placed, Halted, AsRead, Kept, Pc, Seen,
       Holding, rows, CreateRow, usage, requests, others, apart, NewRow
  <2>3. Counts(i)
    BY <1>9, <1>t, <1>s DEF Counts, Due, One, Billed, Returning, Regained, Awaited, Pc,
       Holding, rows, CreateRow, usage, requests, others, apart, NewRow
  <2>4. Hard(i)'
    BY <1>9, <1>t, <1>h, <1>s DEF Hard, Standing, Unborn, Placed, AsRead, Pc, Seen, Holding,
       rows, CreateRow, usage, requests, others, apart, NewRow
  <2>5. Exactly(i)
    BY <1>9, <1>t, <1>h, <1>p, <1>s DEF Exactly, Hard, Standing, Unborn, Placed, Halted,
       AsRead, Due, One, Billed, Returning, Regained, Pc, Seen, Holding, rows, CreateRow,
       usage, requests, others, apart, NewRow
  <2> QED
    BY <1>t, <2>1, <2>2, <2>3, <2>4, <2>5, AboutOne
<1>10. ASSUME NEW i \in Instances, CreateFails(i)
      PROVE  CoverInv'
  <2>1. About(i)
    BY <1>10, <1>t DEF About, SameAt, SameLive, CreateFails, usage, requests, others, apart,
       Gone
  <2>2. Standing(i)'
    BY <1>10, <1>t, <1>s DEF Standing, Unborn, Placed, Halted, AsRead, Kept, Pc, Seen,
       Holding, rows, CreateFails, usage, requests, others, apart, Gone
  <2>3. Counts(i)
    BY <1>10, <1>t, <1>s DEF Counts, Due, One, Billed, Returning, Regained, Awaited, Pc,
       Holding, rows, CreateFails, usage, requests, others, apart, Gone
  <2>4. Hard(i)'
    BY <1>10, <1>t, <1>h, <1>s DEF Hard, Standing, Unborn, Placed, AsRead, Pc, Seen,
       Holding, rows, CreateFails, usage, requests, others, apart, Gone
  <2>5. Exactly(i)
    BY <1>10, <1>t, <1>h, <1>p, <1>s DEF Exactly, Hard, Standing, Unborn, Placed, Halted,
       AsRead, Due, One, Billed, Returning, Regained, Pc, Seen, Holding, rows, CreateFails,
       usage, requests, others, apart, Gone
  <2> QED
    BY <1>t, <2>1, <2>2, <2>3, <2>4, <2>5, AboutOne
<1>11. ASSUME NEW i \in Instances, CrashCreate(i)
      PROVE  CoverInv'
  <2>1. About(i)
    BY <1>11, <1>t DEF About, SameAt, SameLive, CrashCreate, usage, requests, others, apart,
       table
  <2>2. Standing(i)'
    BY <1>11, <1>t, <1>s DEF Standing, Unborn, Placed, Halted, AsRead, Kept, Pc, Seen,
       Holding, rows, CrashCreate, usage, requests, others, apart, table
  <2>3. Counts(i)
    BY <1>11, <1>t, <1>s DEF Counts, Due, One, Billed, Returning, Regained, Awaited, Pc,
       Holding, rows, CrashCreate, usage, requests, others, apart, table
  <2>4. Hard(i)'
    BY <1>11, <1>t, <1>h, <1>s DEF Hard, Standing, Unborn, Placed, AsRead, Pc, Seen,
       Holding, rows, CrashCreate, usage, requests, others, apart, table
  <2>5. Exactly(i)
    BY <1>11, <1>t, <1>h, <1>p, <1>s DEF Exactly, Hard, Standing, Unborn, Placed, Halted,
       AsRead, Due, One, Billed, Returning, Regained, Pc, Seen, Holding, rows, CrashCreate,
       usage, requests, others, apart, table
  <2> QED
    BY <1>t, <2>1, <2>2, <2>3, <2>4, <2>5, AboutOne
<1>12. ASSUME NEW i \in Instances, MarkRestore(i)
      PROVE  CoverInv'
  <2>r. /\ row'[i].vm = row[i].vm /\ row'[i].hosted = row[i].hosted
        /\ \/ i \in rows /\ row'[i].task = "restoring" /\ rpc'[i] = "commit"
           \/ row'[i] = row[i] /\ rpc'[i] = "rollback"
    BY <1>12, <1>t DEF Rows, rows, Gone, Vms, Tasks, RestoreTo, MarkRestore, usage
  <2>1. About(i)
    BY <1>12, <1>t DEF About, SameAt, SameLive, MarkRestore, usage, requests, others, apart,
       RestoreTo
  <2>2. Standing(i)'
    BY <1>12, <1>t, <2>r, <1>s DEF Standing, Unborn, Placed, Halted, AsRead, Kept, Pc, Seen,
       Holding, rows, MarkRestore, usage, requests, others, apart, RestoreTo
  <2>3. Counts(i)
    <3>1. /\ rpc[i] = "reserved" /\ ~Regained(i) /\ (Returning(i)' <=> Returning(i))
          /\ inUse' = inUse /\ live' = live /\ slips' = slips
      BY <1>12 DEF MarkRestore, usage, apart, Regained, Returning, Pc, Holding
    <3>2. inUse[Owner[i]] \in Int
      BY <1>t
    <3>3. CASE i \in rows /\ row'[i].task = "restoring" /\ rpc'[i] = "commit"
      <4>1. slips' = {} => Regained(i)' /\ Awaited(i)
        BY <1>s, <3>1, <3>3 DEF Standing, Kept, Regained, Awaited
      <4> QED
        BY <3>1, <3>2, <4>1 DEF Counts, Due, One
    <3>4. CASE row'[i] = row[i] /\ rpc'[i] = "rollback"
      <4>1. ~Regained(i)'
        BY <3>4 DEF Regained
      <4>2. (Billed(i)' <=> Billed(i)) /\ (Awaited(i)' => Awaited(i))
        BY <1>12, <3>1, <3>4 DEF MarkRestore, usage, apart, Billed, Awaited, Pc, Holding, rows
      <4> QED
        BY <3>1, <3>2, <4>1, <4>2 DEF Counts, Due, One
    <3> QED
      BY <2>r, <3>3, <3>4
  <2>4. Hard(i)'
    BY <1>12, <1>t, <2>r, <1>h, <1>s DEF Hard, Standing, Unborn, Placed, AsRead, Pc, Seen,
       Holding, rows, MarkRestore, usage, requests, others, apart, RestoreTo
  <2>5. Exactly(i)
    <3>1. rpc[i] = "reserved" /\ slips' = slips
      BY <1>12 DEF MarkRestore, apart
    <3> QED
      BY <1>h, <1>p, <3>1 DEF Exactly, Hard
  <2> QED
    BY <1>t, <2>1, <2>2, <2>3, <2>4, <2>5, AboutOne
<1>13. ASSUME NEW i \in Instances, StartCreate(i)
      PROVE  CoverInv'
  <2>u. /\ \A j \in Instances \ {i} : SameLive(j)
        /\ \A u \in Users \ {Owner[i]} : inUse'[u] = inUse[u]
        /\ inUse[Owner[i]] \in Int /\ inUse'[Owner[i]] \in Int
    BY <1>13, <1>t, UsageMoves, OthersHold, RefreshRaises DEF StartCreate, SameLive, usage
  <2>v. /\ inUse[Owner[i]] <= inUse'[Owner[i]]
        /\ inUse[Owner[i]] >= 0 => inUse'[Owner[i]] = inUse[Owner[i]]
        /\ \/ ~Over(Owner[i]) /\ cpc'[i] = "reserved" /\ live' = live \cup {Creating(i)}
           \/ cpc'[i] = "refused" /\ live' = live
    BY <1>13, <1>t, UsageMoves, OwnRequests, RefreshRaises DEF StartCreate, RestoreTo, usage
  <2>1. About(i)
    BY <1>13, <1>t, <2>u DEF About, SameAt, RestoreTo, StartCreate, usage, table, requests,
       others, apart
  <2>2. Standing(i)'
    BY <1>13, <1>t, <2>v, <1>s, OwnRequests DEF Standing, Unborn, Placed, Halted, AsRead,
       Kept, Pc, Seen, Holding, rows, RestoreTo, StartCreate, usage, table, requests,
       others, apart
  <2>3. Counts(i)
    BY <1>13, <1>t, <2>v, <1>s, OwnRequests, <2>u DEF Counts, Due, One, Billed, Returning,
       Regained, Awaited, Pc, Holding, rows, RestoreTo, StartCreate, usage, table, requests,
       others, apart
  <2>4. Hard(i)'
    BY <1>13, <1>t, <2>v, OwnRequests, <1>h, <1>s DEF Hard, Standing, Unborn, Placed,
       AsRead, Pc, Seen, Holding, rows, RestoreTo, StartCreate, usage, table, requests,
       others, apart
  <2>5. Exactly(i)
    BY <1>13, <1>t, <2>v, OwnRequests, <2>u, <1>h, <1>p, <1>s DEF Exactly, Hard, Standing,
       Unborn, Placed, Halted, AsRead, Due, One, Billed, Returning, Regained, Pc, Seen,
       Holding, rows, RestoreTo, StartCreate, usage, table, requests, others, apart
  <2> QED
    BY <1>t, <2>1, <2>2, <2>3, <2>4, <2>5, AboutOne
<1>14. ASSUME NEW i \in Instances, RollbackCreate(i)
      PROVE  CoverInv'
  <2>u. /\ \A j \in Instances \ {i} : SameLive(j)
        /\ \A u \in Users \ {Owner[i]} : inUse'[u] = inUse[u]
        /\ inUse[Owner[i]] \in Int /\ inUse'[Owner[i]] \in Int
    BY <1>14, <1>t, UsageMoves, OthersHold, RefreshRaises DEF RollbackCreate, SameLive,
       usage
  <2>v. inUse' = inUse /\ live' = live \ {Creating(i)}
    BY <1>14, <1>t, UsageMoves, OwnRequests, RefreshRaises DEF RollbackCreate, RestoreTo,
       usage
  <2>1. About(i)
    BY <1>14, <1>t, <2>u DEF About, SameAt, RestoreTo, RollbackCreate, usage, table,
       requests, others, apart
  <2>2. Standing(i)'
    BY <1>14, <1>t, <2>v, <1>s, OwnRequests DEF Standing, Unborn, Placed, Halted, AsRead,
       Kept, Pc, Seen, Holding, rows, RestoreTo, RollbackCreate, usage, table, requests,
       others, apart
  <2>3. Counts(i)
    BY <1>14, <1>t, <2>v, <1>s, OwnRequests, <2>u DEF Counts, Due, One, Billed, Returning,
       Regained, Awaited, Pc, Holding, rows, RestoreTo, RollbackCreate, usage, table,
       requests, others, apart
  <2>4. Hard(i)'
    BY <1>14, <1>t, <2>v, OwnRequests, <1>h, <1>s DEF Hard, Standing, Unborn, Placed,
       AsRead, Pc, Seen, Holding, rows, RestoreTo, RollbackCreate, usage, table, requests,
       others, apart
  <2>5. Exactly(i)
    BY <1>14, <1>t, <2>v, OwnRequests, <2>u, <1>h, <1>p, <1>s DEF Exactly, Hard, Standing,
       Unborn, Placed, Halted, AsRead, Due, One, Billed, Returning, Regained, Pc, Seen,
       Holding, rows, RestoreTo, RollbackCreate, usage, table, requests, others, apart
  <2> QED
    BY <1>t, <2>1, <2>2, <2>3, <2>4, <2>5, AboutOne
<1>15. ASSUME NEW i \in Instances, CommitCreate(i)
      PROVE  CoverInv'
  <2>u. /\ \A j \in Instances \ {i} : SameLive(j)
        /\ \A u \in Users \ {Owner[i]} : inUse'[u] = inUse[u]
        /\ inUse[Owner[i]] \in Int /\ inUse'[Owner[i]] \in Int
    BY <1>15, <1>t, UsageMoves, OthersHold, RefreshRaises DEF CommitCreate, SameLive, usage
  <2>v. /\ live' = live \ {Creating(i)}
        /\ Creating(i) \in live => inUse'[Owner[i]] = inUse[Owner[i]] + 1
    BY <1>15, <1>t, UsageMoves, OwnRequests, RefreshRaises DEF CommitCreate, RestoreTo,
       usage
  <2>1. About(i)
    BY <1>15, <1>t, <2>u DEF About, SameAt, RestoreTo, CommitCreate, usage, table, requests,
       others, apart
  <2>2. Standing(i)'
    BY <1>15, <1>t, <2>v, <1>s, OwnRequests DEF Standing, Unborn, Placed, Halted, AsRead,
       Kept, Pc, Seen, Holding, rows, RestoreTo, CommitCreate, usage, table, requests,
       others, apart
  <2>3. Counts(i)
    <3>1. cpc[i] = "created" /\ rpc' = rpc /\ del' = del /\ slips' = slips
      BY <1>15 DEF CommitCreate, requests
    <3>2. ~Billed(i) /\ ~Returning(i) /\ ~Regained(i) /\ ~Returning(i)' /\ ~Regained(i)'
      BY <1>s, <3>1 DEF Standing, Unborn, Billed, Returning, Regained, Pc
    <3>3. slips' = {} => Creating(i) \in live /\ Awaited(i)
      BY <1>s, <3>1 DEF Standing, Kept, Awaited
    <3> QED
      BY <2>u, <2>v, <3>2, <3>3 DEF Counts, Due, One
  <2>4. Hard(i)'
    BY <1>15, <1>t, <2>v, OwnRequests, <1>h, <1>s DEF Hard, Standing, Unborn, Placed,
       AsRead, Pc, Seen, Holding, rows, RestoreTo, CommitCreate, usage, table, requests,
       others, apart
  <2>5. Exactly(i)
    <3>1. cpc[i] = "created" /\ rpc' = rpc /\ del' = del /\ slips' = slips /\ row' = row
      BY <1>15 DEF CommitCreate, requests, table
    <3>2. ~Billed(i) /\ ~Returning(i) /\ ~Regained(i) /\ ~Returning(i)' /\ ~Regained(i)'
      BY <1>s, <3>1 DEF Standing, Unborn, Billed, Returning, Regained, Pc
    <3>3. slips' = {} => Creating(i) \in live
      BY <1>s, <3>1 DEF Standing, Kept
    <3>4. i \in rows /\ i \notin booted /\ ~row[i].hosted /\ row[i].vm = "building" /\ Pc(i) = "idle"
      BY <1>h, <1>s, <3>1 DEF Hard, Standing, Unborn, Placed
    <3>5. Billed(i)'
      BY <1>15, <1>t, <3>1, <3>4 DEF CommitCreate, Billed, Pc, rows
    <3> QED
      BY <2>u, <2>v, <3>2, <3>3, <3>5 DEF Exactly, Due, One
  <2> QED
    BY <1>t, <2>1, <2>2, <2>3, <2>4, <2>5, AboutOne
<1>16. ASSUME NEW i \in Instances, StartRestore(i)
      PROVE  CoverInv'
  <2>u. /\ \A j \in Instances \ {i} : SameLive(j)
        /\ \A u \in Users \ {Owner[i]} : inUse'[u] = inUse[u]
        /\ inUse[Owner[i]] \in Int /\ inUse'[Owner[i]] \in Int
    BY <1>16, <1>t, UsageMoves, OthersHold, RefreshRaises DEF StartRestore, SameLive, usage
  <2>v. /\ inUse[Owner[i]] <= inUse'[Owner[i]]
        /\ inUse[Owner[i]] >= 0 => inUse'[Owner[i]] = inUse[Owner[i]]
        /\ \/ ~Over(Owner[i]) /\ rpc'[i] = "reserved" /\ live' = live \cup {Restoring(i)}
           \/ rpc' = rpc /\ live' = live
    BY <1>16, <1>t, UsageMoves, OwnRequests, RefreshRaises DEF StartRestore, RestoreTo,
       usage
  <2>1. About(i)
    BY <1>16, <1>t, <2>u DEF About, SameAt, RestoreTo, StartRestore, usage, table, requests,
       others, apart
  <2>2. Standing(i)'
    BY <1>16, <1>t, <2>v, <1>s, OwnRequests DEF Standing, Unborn, Placed, Halted, AsRead,
       Kept, Pc, Seen, Holding, rows, RestoreTo, StartRestore, usage, table, requests,
       others, apart
  <2>3. Counts(i)
    BY <1>16, <1>t, <2>v, <1>s, OwnRequests, <2>u DEF Counts, Due, One, Billed, Returning,
       Regained, Awaited, Pc, Holding, rows, RestoreTo, StartRestore, usage, table,
       requests, others, apart
  <2>4. Hard(i)'
    BY <1>16, <1>t, <2>v, OwnRequests, <1>h, <1>s DEF Hard, Standing, Unborn, Placed,
       AsRead, Pc, Seen, Holding, rows, RestoreTo, StartRestore, usage, table, requests,
       others, apart
  <2>5. Exactly(i)
    BY <1>16, <1>t, <2>v, OwnRequests, <2>u, <1>h, <1>p, <1>s DEF Exactly, Hard, Standing,
       Unborn, Placed, Halted, AsRead, Due, One, Billed, Returning, Regained, Pc, Seen,
       Holding, rows, RestoreTo, StartRestore, usage, table, requests, others, apart
  <2> QED
    BY <1>t, <2>1, <2>2, <2>3, <2>4, <2>5, AboutOne
<1>17. ASSUME NEW i \in Instances, EndRestore(i)
      PROVE  CoverInv'
  <2>u. /\ \A j \in Instances \ {i} : SameLive(j)
        /\ \A u \in Users \ {Owner[i]} : inUse'[u] = inUse[u]
        /\ inUse[Owner[i]] \in Int /\ inUse'[Owner[i]] \in Int
    BY <1>17, <1>t, UsageMoves, OthersHold, RefreshRaises DEF EndRestore, SameLive, usage
  <2>v. /\ live' = live \ {Restoring(i)} /\ rpc'[i] = "idle"
        /\ \/ rpc[i] = "rollback" /\ inUse' = inUse
           \/ /\ rpc[i] = "commit"
              /\ Restoring(i) \in live => inUse'[Owner[i]] = inUse[Owner[i]] + 1
              /\ Restoring(i) \notin live => inUse'[Owner[i]] = inUse[Owner[i]]
    BY <1>17, <1>t, UsageMoves, OwnRequests, RefreshRaises DEF EndRestore, RestoreTo, usage
  <2>1. About(i)
    BY <1>17, <1>t, <2>u DEF About, SameAt, RestoreTo, EndRestore, usage, table, requests,
       others, apart
  <2>2. Standing(i)'
    BY <1>17, <1>t, <2>v, <1>s, OwnRequests DEF Standing, Unborn, Placed, Halted, AsRead,
       Kept, Pc, Seen, Holding, rows, RestoreTo, EndRestore, usage, table, requests, others,
       apart
  <2>3. Counts(i)
    BY <1>17, <1>t, <2>v, <1>s, OwnRequests, <2>u DEF Counts, Due, One, Billed, Returning,
       Regained, Awaited, Pc, Holding, rows, RestoreTo, EndRestore, usage, table, requests,
       others, apart
  <2>4. Hard(i)'
    BY <1>17, <1>t, <2>v, OwnRequests, <1>h, <1>s DEF Hard, Standing, Unborn, Placed,
       AsRead, Pc, Seen, Holding, rows, RestoreTo, EndRestore, usage, table, requests,
       others, apart
  <2>5. Exactly(i)
    BY <1>17, <1>t, <2>v, OwnRequests, <2>u, <1>h, <1>p, <1>s DEF Exactly, Hard, Standing,
       Unborn, Placed, Halted, AsRead, Due, One, Billed, Returning, Regained, Pc, Seen,
       Holding, rows, RestoreTo, EndRestore, usage, table, requests, others, apart
  <2> QED
    BY <1>t, <2>1, <2>2, <2>3, <2>4, <2>5, AboutOne
<1>18. ASSUME NEW i \in Instances, NEW n \in Slots, DeleteRequest(i, n)
      PROVE  CoverInv'
  <2>n. n = 1
    BY DEF OneDelete
  <2>o. \A j \in Instances \ {i} : del'[<<j, 1>>] = del[<<j, 1>>]
    BY <1>18, <1>t, <2>n, DeleteMoves DEF DeleteRequest, DeleteTo
  <2>d. \/ i \in request /\ Pc(i)' = "halted" /\ del'[<<i, 1>>].kind = del[<<i, 1>>].kind
        \/ i \in rows /\ Pc(i)' = "mark" /\ del'[<<i, 1>>].kind = del[<<i, 1>>].kind
        \/ Pc(i)' = "idle"
    BY <1>18, <1>t, <2>n, DeleteMoves DEF DeleteRequest, DeleteTo, Pc, Seen, Rows
  <2>w. Pc(i)' # "idle" => Seen(i)'.vm \in {Seen(i).vm, row[i].vm}
    BY <1>18, <1>t, <2>n, DeleteMoves DEF DeleteRequest, DeleteTo, Pc, Seen, Rows
  <2>1. About(i)
    BY <1>18, <1>t, <2>n, <2>o DEF About, SameAt, SameLive, DeleteRequest, usage, table,
       unread, others
  <2>2. Standing(i)'
    BY <1>18, <1>t, <2>n, <1>s, <2>d DEF Standing, Unborn, Placed, Halted, AsRead, Kept, Pc,
       Seen, Holding, rows, DeleteRequest, usage, table, unread, others
  <2>3. Counts(i)
    BY <1>18, <1>t, <2>n, <1>s, <2>d DEF Counts, Due, One, Billed, Returning, Regained,
       Awaited, Pc, Holding, rows, DeleteRequest, usage, table, unread, others
  <2>4. Hard(i)'
    BY <1>18, <1>t, <2>n, <2>d, <2>w, <1>h, <1>s DEF Hard, Standing, Unborn, Placed, AsRead, Pc,
       Seen, Holding, rows, DeleteRequest, usage, table, unread, others
  <2>5. Exactly(i)
    BY <1>18, <1>t, <2>n, <2>d, <1>h, <1>p, <1>s DEF Exactly, Hard, Standing, Unborn,
       Placed, Halted, AsRead, Due, One, Billed, Returning, Regained, Pc, Seen, Holding,
       rows, DeleteRequest, usage, table, unread, others
  <2> QED
    BY <1>t, <2>1, <2>2, <2>3, <2>4, <2>5, AboutOne
<1>19. ASSUME NEW i \in Instances, NEW n \in Slots, DestroyHalted(i, n)
      PROVE  CoverInv'
  <2>n. n = 1
    BY DEF OneDelete
  <2>o. \A j \in Instances \ {i} : del'[<<j, 1>>] = del[<<j, 1>>]
    BY <1>19, <1>t, <2>n, DeleteMoves DEF DestroyHalted, DeleteTo
  <2>d. Pc(i)' = "idle"
    BY <1>19, <1>t, <2>n, DeleteMoves DEF DestroyHalted, DeleteTo, Pc, Seen, Rows
  <2>r. row'[i].vm = "gone" /\ row'[i].task = "none" /\ row'[i].hosted = FALSE
    BY <1>19, <1>t, <2>n DEF Rows, rows, Gone, Vms, Tasks, DestroyHalted
  <2>1. About(i)
    BY <1>19, <1>t, <2>n, <2>o DEF About, SameAt, SameLive, DestroyHalted, usage, table,
       unread, others
  <2>2. Standing(i)'
    BY <1>19, <1>t, <2>n, <1>s, <2>d, <2>r DEF Standing, Unborn, Placed, Halted, AsRead,
       Kept, Pc, Seen, Holding, rows, DestroyHalted, usage, table, unread, others
  <2>3. Counts(i)
    BY <1>19, <1>t, <2>n, <1>s, <2>d, <2>r DEF Counts, Due, One, Billed, Returning,
       Regained, Awaited, Pc, Holding, rows, DestroyHalted, usage, table, unread, others
  <2>4. Hard(i)'
    BY <1>19, <1>t, <2>n, <2>d, <2>r, <1>h, <1>s DEF Hard, Standing, Unborn, Placed, AsRead,
       Pc, Seen, Holding, rows, DestroyHalted, usage, table, unread, others
  <2>5. Exactly(i)
    BY <1>19, <1>t, <2>n, <2>d, <2>r, <1>h, <1>p, <1>s DEF Exactly, Hard, Standing, Unborn,
       Placed, Halted, AsRead, Due, One, Billed, Returning, Regained, Pc, Seen, Holding,
       rows, DestroyHalted, usage, table, unread, others
  <2> QED
    BY <1>t, <2>1, <2>2, <2>3, <2>4, <2>5, AboutOne
<1>20. ASSUME NEW i \in Instances, NEW n \in Slots, Mark(i, n)
      PROVE  CoverInv'
  <2>n. n = 1
    BY DEF OneDelete
  <2>o. \A j \in Instances \ {i} : del'[<<j, 1>>] = del[<<j, 1>>]
    BY <1>20, <1>t, <2>n, DeleteMoves DEF Mark, DeleteTo
  <2>d. \/ Pc(i)' = "idle" /\ row' = row
        \/ /\ Pc(i)' = "reserve" /\ Seen(i)'.vm = row[i].vm /\ Seen(i)'.hosted = row[i].hosted
           /\ del'[<<i, 1>>].kind = del[<<i, 1>>].kind
    BY <1>20, <1>t, <2>n, DeleteMoves DEF Mark, DeleteTo, Pc, Seen, Rows
  <2>r. /\ row'[i].vm = row[i].vm /\ row'[i].hosted = row[i].hosted
        /\ row'[i] = row[i] \/ row'[i].task \in {"softdeleting", "deleting"}
    BY <1>20, <1>t, <2>n DEF Rows, rows, Gone, Vms, Tasks, Mark
  <2>1. About(i)
    BY <1>20, <1>t, <2>n, <2>o DEF About, SameAt, SameLive, Mark, usage, table, unread,
       others
  <2>2. Standing(i)'
    <3>1. CASE Pc(i)' = "idle" /\ row' = row
      BY <1>20, <1>t, <2>n, <1>s, <2>r, <3>1 DEF Standing, Unborn, Placed, Halted, AsRead,
         Kept, Pc, Seen, Holding, rows, Mark, usage, table, unread, others
    <3>2. CASE /\ Pc(i)' = "reserve" /\ Seen(i)'.vm = row[i].vm /\ Seen(i)'.hosted = row[i].hosted
                /\ del'[<<i, 1>>].kind = del[<<i, 1>>].kind
      BY <1>20, <1>t, <2>n, <1>s, <2>r, <3>2 DEF Standing, Unborn, Placed, Halted, AsRead,
         Kept, Pc, Seen, Holding, rows, Mark, usage, table, unread, others
    <3> QED
      BY <2>d, <3>1, <3>2
  <2>3. Counts(i)
    <3>1. CASE Pc(i)' = "idle" /\ row' = row
      BY <1>20, <1>t, <2>n, <1>s, <2>r, <3>1 DEF Counts, Due, One, Billed, Returning,
         Regained, Awaited, Pc, Holding, rows, Mark, usage, table, unread, others
    <3>2. CASE /\ Pc(i)' = "reserve" /\ Seen(i)'.vm = row[i].vm /\ Seen(i)'.hosted = row[i].hosted
                /\ del'[<<i, 1>>].kind = del[<<i, 1>>].kind
      BY <1>20, <1>t, <2>n, <1>s, <2>r, <3>2 DEF Counts, Due, One, Billed, Returning,
         Regained, Awaited, Pc, Holding, rows, Mark, usage, table, unread, others
    <3> QED
      BY <2>d, <3>1, <3>2
  <2>4. Hard(i)'
    <3>1. CASE Pc(i)' = "idle" /\ row' = row
      BY <1>20, <1>t, <2>n, <2>r, <3>1, <1>h, <1>s DEF Hard, Standing, Unborn, Placed,
         AsRead, Pc, Seen, Holding, rows, Mark, usage, table, unread, others
    <3>2. CASE /\ Pc(i)' = "reserve" /\ Seen(i)'.vm = row[i].vm /\ Seen(i)'.hosted = row[i].hosted
                /\ del'[<<i, 1>>].kind = del[<<i, 1>>].kind
      BY <1>20, <1>t, <2>n, <2>r, <3>2, <1>h, <1>s DEF Hard, Standing, Unborn, Placed,
         AsRead, Pc, Seen, Holding, rows, Mark, usage, table, unread, others
    <3> QED
      BY <2>d, <3>1, <3>2
  <2>5. Exactly(i)
    <3>1. CASE Pc(i)' = "idle" /\ row' = row
      BY <1>20, <1>t, <2>n, <2>r, <3>1, <1>h, <1>p, <1>s DEF Exactly, Hard, Standing,
         Unborn, Placed, Halted, AsRead, Due, One, Billed, Returning, Regained, Pc, Seen,
         Holding, rows, Mark, usage, table, unread, others
    <3>2. CASE /\ Pc(i)' = "reserve" /\ Seen(i)'.vm = row[i].vm /\ Seen(i)'.hosted = row[i].hosted
                /\ del'[<<i, 1>>].kind = del[<<i, 1>>].kind
      BY <1>20, <1>t, <2>n, <2>r, <3>2, <1>h, <1>p, <1>s DEF Exactly, Hard, Standing,
         Unborn, Placed, Halted, AsRead, Due, One, Billed, Returning, Regained, Pc, Seen,
         Holding, rows, Mark, usage, table, unread, others
    <3> QED
      BY <2>d, <3>1, <3>2
  <2> QED
    BY <1>t, <2>1, <2>2, <2>3, <2>4, <2>5, AboutOne
<1>21. ASSUME NEW i \in Instances, NEW n \in Slots, DestroyUnhosted(i, n)
      PROVE  CoverInv'
  <2>n. n = 1
    BY DEF OneDelete
  <2>o. \A j \in Instances \ {i} : del'[<<j, 1>>] = del[<<j, 1>>]
    BY <1>21, <1>t, <2>n, DeleteMoves DEF DestroyUnhosted, DeleteTo
  <2>d. \/ Pc(i)' = "rollback" /\ row' = row /\ del'[<<i, 1>>].kind = del[<<i, 1>>].kind
        \/ i \in rows /\ ~row[i].hosted /\ Pc(i)' = "commit" /\ row'[i] = Gone
           /\ del'[<<i, 1>>].kind = del[<<i, 1>>].kind
        \/ Pc(i)' = "hosted" /\ Seen(i)'.vm = row[i].vm /\ row[i].hosted /\ row' = row
           /\ del'[<<i, 1>>].kind = del[<<i, 1>>].kind
    BY <1>21, <1>t, <2>n, DeleteMoves DEF DestroyUnhosted, DeleteTo, Pc, Seen, Rows
  <2>p. Pc(i) = "unhosted" /\ cpc[i] = "exists"
    BY <1>21, <1>t, <2>n, <1>s DEF DestroyUnhosted, Standing, Unborn, Pc, Seen
  <2>f. UNCHANGED <<cpc, rpc, slips, late, reclaiming, up, request, booted, inUse, live>>
    BY <1>21 DEF DestroyUnhosted, usage, table, unread, others
  <2>r. Gone.vm = "gone" /\ Gone.task = "none" /\ ~Gone.hosted
    BY <1>21, <1>t, <2>n DEF Rows, rows, Gone, Vms, Tasks, DestroyUnhosted
  <2>w. Pc(i)' # "idle" => Seen(i)'.vm \in {Seen(i).vm, row[i].vm}
    BY <1>21, <1>t, <2>n, DeleteMoves DEF DestroyUnhosted, DeleteTo, Pc, Seen, Rows
  <2>1. About(i)
    BY <1>21, <1>t, <2>n, <2>o DEF About, SameAt, SameLive, DestroyUnhosted, usage, table,
       unread, others
  <2>2. Standing(i)'
    <3>1. CASE Pc(i)' = "rollback" /\ row' = row /\ del'[<<i, 1>>].kind = del[<<i, 1>>].kind
      BY <1>t, <1>s, <1>v, <2>p, <2>f, <2>r, <3>1 DEF Standing, Unborn, Placed, Halted,
         AsRead, Kept, Pc, Seen, Holding, rows, OneDelete
    <3>2. CASE i \in rows /\ ~row[i].hosted /\ Pc(i)' = "commit" /\ row'[i] = Gone
               /\ del'[<<i, 1>>].kind = del[<<i, 1>>].kind
      BY <1>t, <1>s, <1>v, <2>p, <2>f, <2>r, <3>2 DEF Standing, Unborn, Placed, Halted,
         AsRead, Kept, Pc, Seen, Holding, rows, OneDelete
    <3>3. CASE Pc(i)' = "hosted" /\ Seen(i)'.vm = row[i].vm /\ row[i].hosted /\ row' = row
               /\ del'[<<i, 1>>].kind = del[<<i, 1>>].kind
      BY <1>t, <1>s, <1>v, <2>p, <2>f, <2>r, <3>3 DEF Standing, Unborn, Placed, Halted,
         AsRead, Kept, Pc, Seen, Holding, rows, OneDelete
    <3> QED
      BY <2>d, <3>1, <3>2, <3>3
  <2>3. Counts(i)
    <3>1. CASE Pc(i)' = "rollback" /\ row' = row /\ del'[<<i, 1>>].kind = del[<<i, 1>>].kind
      BY <1>t, <1>s, <1>v, <2>p, <2>f, <2>r, <3>1 DEF Counts, Due, One, Billed, Returning,
         Regained, Awaited, Pc, Holding, rows, OneDelete, Standing, Placed, Halted, AsRead,
         Seen
    <3>2. CASE i \in rows /\ ~row[i].hosted /\ Pc(i)' = "commit" /\ row'[i] = Gone
               /\ del'[<<i, 1>>].kind = del[<<i, 1>>].kind
      BY <1>t, <1>s, <1>v, <2>p, <2>f, <2>r, <3>2 DEF Counts, Due, One, Billed, Returning,
         Regained, Awaited, Pc, Holding, rows, OneDelete, Standing, Placed, Halted, AsRead,
         Seen
    <3>3. CASE Pc(i)' = "hosted" /\ Seen(i)'.vm = row[i].vm /\ row[i].hosted /\ row' = row
               /\ del'[<<i, 1>>].kind = del[<<i, 1>>].kind
      BY <1>t, <1>s, <1>v, <2>p, <2>f, <2>r, <3>3 DEF Counts, Due, One, Billed, Returning,
         Regained, Awaited, Pc, Holding, rows, OneDelete, Standing, Placed, Halted, AsRead,
         Seen
    <3> QED
      BY <2>d, <3>1, <3>2, <3>3
  <2>4. Hard(i)'
    <3>1. CASE Pc(i)' = "rollback" /\ row' = row /\ del'[<<i, 1>>].kind = del[<<i, 1>>].kind
      BY <1>t, <1>v, <2>p, <2>f, <2>r, <3>1, <2>w, <1>h, <1>s DEF Hard, Standing, Unborn, Placed,
         AsRead, Pc, Seen, Holding, rows, OneDelete
    <3>2. CASE i \in rows /\ ~row[i].hosted /\ Pc(i)' = "commit" /\ row'[i] = Gone
               /\ del'[<<i, 1>>].kind = del[<<i, 1>>].kind
      BY <1>t, <1>v, <2>p, <2>f, <2>r, <3>2, <2>w, <1>h, <1>s DEF Hard, Standing, Unborn, Placed,
         AsRead, Pc, Seen, Holding, rows, OneDelete
    <3>3. CASE Pc(i)' = "hosted" /\ Seen(i)'.vm = row[i].vm /\ row[i].hosted /\ row' = row
               /\ del'[<<i, 1>>].kind = del[<<i, 1>>].kind
      BY <1>t, <1>v, <2>p, <2>f, <2>r, <3>3, <2>w, <1>h, <1>s DEF Hard, Standing, Unborn, Placed,
         AsRead, Pc, Seen, Holding, rows, OneDelete
    <3> QED
      BY <2>d, <3>1, <3>2, <3>3
  <2>5. Exactly(i)
    <3>1. CASE Pc(i)' = "rollback" /\ row' = row /\ del'[<<i, 1>>].kind = del[<<i, 1>>].kind
      BY <1>t, <1>v, <2>p, <2>f, <2>r, <3>1, <1>h, <1>p, <1>s DEF Exactly, Hard, Standing,
         Unborn, Placed, Halted, AsRead, Due, One, Billed, Returning, Regained, Pc, Seen,
         Holding, rows, OneDelete
    <3>2. CASE i \in rows /\ ~row[i].hosted /\ Pc(i)' = "commit" /\ row'[i] = Gone
               /\ del'[<<i, 1>>].kind = del[<<i, 1>>].kind
      BY <1>t, <1>v, <2>p, <2>f, <2>r, <3>2, <1>h, <1>p, <1>s DEF Exactly, Hard, Standing,
         Unborn, Placed, Halted, AsRead, Due, One, Billed, Returning, Regained, Pc, Seen,
         Holding, rows, OneDelete
    <3>3. CASE Pc(i)' = "hosted" /\ Seen(i)'.vm = row[i].vm /\ row[i].hosted /\ row' = row
               /\ del'[<<i, 1>>].kind = del[<<i, 1>>].kind
      BY <1>t, <1>v, <2>p, <2>f, <2>r, <3>3, <1>h, <1>p, <1>s DEF Exactly, Hard, Standing,
         Unborn, Placed, Halted, AsRead, Due, One, Billed, Returning, Regained, Pc, Seen,
         Holding, rows, OneDelete
    <3> QED
      BY <2>d, <3>1, <3>2, <3>3
  <2> QED
    BY <1>t, <2>1, <2>2, <2>3, <2>4, <2>5, AboutOne
<1>22. ASSUME NEW i \in Instances, NEW n \in Slots, LocalDelete(i, n)
      PROVE  CoverInv'
  <2>n. n = 1
    BY DEF OneDelete
  <2>o. \A j \in Instances \ {i} : del'[<<j, 1>>] = del[<<j, 1>>]
    BY <1>22, <1>t, <2>n, DeleteMoves DEF LocalDelete, DeleteTo
  <2>d. \/ Pc(i)' = "local" /\ i \in rows /\ del'[<<i, 1>>].kind = del[<<i, 1>>].kind
        \/ Pc(i)' = "rollback" /\ i \notin rows /\ del'[<<i, 1>>].kind = del[<<i, 1>>].kind
    BY <1>22, <1>t, <2>n, DeleteMoves DEF LocalDelete, DeleteTo, Pc, Seen, Rows
  <2>p. Pc(i) = "hosted" /\ i \notin up /\ cpc[i] = "exists"
    BY <1>22, <1>t, <2>n, <1>s DEF LocalDelete, Standing, Unborn, Pc, Seen
  <2>f. UNCHANGED <<cpc, rpc, slips, late, reclaiming, up, request, booted, inUse, live>>
    BY <1>22 DEF LocalDelete, usage, table, unread, others
  <2>r. /\ row'[i].hosted = row[i].hosted
        /\ i \notin rows => row'[i] = row[i]
        /\ i \in rows => /\ row'[i].task = "none"
                         /\ row'[i].vm = IF del[<<i, 1>>].kind = "soft" THEN "soft" ELSE "deleted"
    BY <1>22, <1>t, <2>n DEF Rows, rows, Gone, Vms, Tasks, LocalDelete
  <2>w. Pc(i)' # "idle" => Seen(i)'.vm \in {Seen(i).vm, row[i].vm}
    BY <1>22, <1>t, <2>n, DeleteMoves DEF LocalDelete, DeleteTo, Pc, Seen, Rows
  <2>1. About(i)
    BY <1>22, <1>t, <2>n, <2>o DEF About, SameAt, SameLive, LocalDelete, usage, table,
       unread, others
  <2>2. Standing(i)'
    <3>1. CASE Pc(i)' = "local" /\ i \in rows /\ del'[<<i, 1>>].kind = del[<<i, 1>>].kind
      BY <1>t, <1>s, <1>v, <2>p, <2>f, <2>r, <3>1 DEF Standing, Unborn, Placed, Halted,
         AsRead, Kept, Pc, Seen, Holding, rows, OneDelete
    <3>2. CASE Pc(i)' = "rollback" /\ i \notin rows /\ del'[<<i, 1>>].kind = del[<<i, 1>>].kind
      BY <1>t, <1>s, <1>v, <2>p, <2>f, <2>r, <3>2 DEF Standing, Unborn, Placed, Halted,
         AsRead, Kept, Pc, Seen, Holding, rows, OneDelete
    <3> QED
      BY <2>d, <3>1, <3>2
  <2>3. Counts(i)
    <3>1. CASE Pc(i)' = "local" /\ i \in rows /\ del'[<<i, 1>>].kind = del[<<i, 1>>].kind
      BY <1>t, <1>s, <1>v, <2>p, <2>f, <2>r, <3>1 DEF Counts, Due, One, Billed, Returning,
         Regained, Awaited, Pc, Holding, rows, OneDelete, Standing, Placed, Halted, AsRead,
         Seen
    <3>2. CASE Pc(i)' = "rollback" /\ i \notin rows /\ del'[<<i, 1>>].kind = del[<<i, 1>>].kind
      BY <1>t, <1>s, <1>v, <2>p, <2>f, <2>r, <3>2 DEF Counts, Due, One, Billed, Returning,
         Regained, Awaited, Pc, Holding, rows, OneDelete, Standing, Placed, Halted, AsRead,
         Seen
    <3> QED
      BY <2>d, <3>1, <3>2
  <2>4. Hard(i)'
    <3>1. CASE Pc(i)' = "local" /\ i \in rows /\ del'[<<i, 1>>].kind = del[<<i, 1>>].kind
      BY <1>t, <1>v, <2>p, <2>f, <2>r, <3>1, <2>w, <1>h, <1>s DEF Hard, Standing, Unborn, Placed,
         AsRead, Pc, Seen, Holding, rows, OneDelete
    <3>2. CASE Pc(i)' = "rollback" /\ i \notin rows /\ del'[<<i, 1>>].kind = del[<<i, 1>>].kind
      BY <1>t, <1>v, <2>p, <2>f, <2>r, <3>2, <2>w, <1>h, <1>s DEF Hard, Standing, Unborn, Placed,
         AsRead, Pc, Seen, Holding, rows, OneDelete
    <3> QED
      BY <2>d, <3>1, <3>2
  <2>5. Exactly(i)
    <3>1. CASE Pc(i)' = "local" /\ i \in rows /\ del'[<<i, 1>>].kind = del[<<i, 1>>].kind
      BY <1>t, <1>v, <2>p, <2>f, <2>r, <3>1, <1>h, <1>p, <1>s DEF Exactly, Hard, Standing,
         Unborn, Placed, Halted, AsRead, Due, One, Billed, Returning, Regained, Pc, Seen,
         Holding, rows, OneDelete
    <3>2. CASE Pc(i)' = "rollback" /\ i \notin rows /\ del'[<<i, 1>>].kind = del[<<i, 1>>].kind
      BY <1>t, <1>v, <2>p, <2>f, <2>r, <3>2, <1>h, <1>p, <1>s DEF Exactly, Hard, Standing,
         Unborn, Placed, Halted, AsRead, Due, One, Billed, Returning, Regained, Pc, Seen,
         Holding, rows, OneDelete
    <3> QED
      BY <2>d, <3>1, <3>2
  <2> QED
    BY <1>t, <2>1, <2>2, <2>3, <2>4, <2>5, AboutOne
<1>23. ASSUME NEW i \in Instances, NEW n \in Slots, NEW ok \in BOOLEAN, Terminate(i, n, ok)
      PROVE  CoverInv'
  <2>n. n = 1
    BY DEF OneDelete
  <2>o. \A j \in Instances \ {i} : del'[<<j, 1>>] = del[<<j, 1>>]
    BY <1>23, <1>t, <2>n, DeleteMoves DEF Terminate, DeleteTo
  <2>d. \/ Pc(i)' = "destroy" /\ i \in rows /\ ok /\ del'[<<i, 1>>].kind = del[<<i, 1>>].kind
        \/ Pc(i)' = "rollback" /\ i \notin rows /\ del'[<<i, 1>>].kind = del[<<i, 1>>].kind
        \/ Pc(i)' = "rollback" /\ i \in rows /\ ~ok /\ del'[<<i, 1>>].kind = del[<<i, 1>>].kind
    BY <1>23, <1>t, <2>n, DeleteMoves DEF Terminate, DeleteTo, Pc, Seen, Rows
  <2>p. Pc(i) = "cast" /\ i \in up /\ cpc[i] = "exists"
    BY <1>23, <1>t, <2>n, <1>s DEF Terminate, Standing, Unborn, Pc, Seen
  <2>f. UNCHANGED <<cpc, rpc, late, reclaiming, up, request, booted, inUse, live>>
    BY <1>23 DEF Terminate, usage, table, unread, others
  <2>q. slips \subseteq slips' /\ (~ok /\ Seen(i).vm = "soft" => slips' # {})
    BY <1>23, <2>n DEF Terminate, Seen
  <2>r. /\ row'[i].hosted = row[i].hosted
        /\ i \notin rows => row'[i] = row[i]
        /\ i \in rows => row'[i].task = "none" /\ row'[i].vm = IF ok THEN "deleted" ELSE "error"
    BY <1>23, <1>t, <2>n DEF Rows, rows, Gone, Vms, Tasks, Terminate
  <2>w. Pc(i)' # "idle" => Seen(i)'.vm \in {Seen(i).vm, row[i].vm}
    BY <1>23, <1>t, <2>n, DeleteMoves DEF Terminate, DeleteTo, Pc, Seen, Rows
  <2>1. About(i)
    BY <1>23, <1>t, <2>n, <2>o DEF About, SameAt, SameLive, Terminate, usage, table, unread,
       others
  <2>2. Standing(i)'
    <3>1. CASE Pc(i)' = "destroy" /\ i \in rows /\ ok
               /\ del'[<<i, 1>>].kind = del[<<i, 1>>].kind
      BY <1>t, <1>s, <1>v, <2>p, <2>f, <2>q, <2>r, <3>1 DEF Standing, Unborn, Placed,
         Halted, AsRead, Kept, Pc, Seen, Holding, rows, OneDelete
    <3>2. CASE Pc(i)' = "rollback" /\ i \notin rows /\ del'[<<i, 1>>].kind = del[<<i, 1>>].kind
      BY <1>t, <1>s, <1>v, <2>p, <2>f, <2>q, <2>r, <3>2 DEF Standing, Unborn, Placed,
         Halted, AsRead, Kept, Pc, Seen, Holding, rows, OneDelete
    <3>3. CASE Pc(i)' = "rollback" /\ i \in rows /\ ~ok
               /\ del'[<<i, 1>>].kind = del[<<i, 1>>].kind
      BY <1>t, <1>s, <1>v, <2>p, <2>f, <2>q, <2>r, <3>3 DEF Standing, Unborn, Placed,
         Halted, AsRead, Kept, Pc, Seen, Holding, rows, OneDelete
    <3> QED
      BY <2>d, <3>1, <3>2, <3>3
  <2>3. Counts(i)
    <3>1. CASE Pc(i)' = "destroy" /\ i \in rows /\ ok
               /\ del'[<<i, 1>>].kind = del[<<i, 1>>].kind
      BY <1>t, <1>s, <1>v, <2>p, <2>f, <2>q, <2>r, <3>1 DEF Counts, Due, One, Billed,
         Returning, Regained, Awaited, Pc, Holding, rows, OneDelete, Standing, Placed,
         Halted, AsRead, Seen
    <3>2. CASE Pc(i)' = "rollback" /\ i \notin rows /\ del'[<<i, 1>>].kind = del[<<i, 1>>].kind
      BY <1>t, <1>s, <1>v, <2>p, <2>f, <2>q, <2>r, <3>2 DEF Counts, Due, One, Billed,
         Returning, Regained, Awaited, Pc, Holding, rows, OneDelete, Standing, Placed,
         Halted, AsRead, Seen
    <3>3. CASE Pc(i)' = "rollback" /\ i \in rows /\ ~ok
               /\ del'[<<i, 1>>].kind = del[<<i, 1>>].kind
      BY <1>t, <1>s, <1>v, <2>p, <2>f, <2>q, <2>r, <3>3 DEF Counts, Due, One, Billed,
         Returning, Regained, Awaited, Pc, Holding, rows, OneDelete, Standing, Placed,
         Halted, AsRead, Seen
    <3> QED
      BY <2>d, <3>1, <3>2, <3>3
  <2>4. Hard(i)'
    <3>1. CASE Pc(i)' = "destroy" /\ i \in rows /\ ok
               /\ del'[<<i, 1>>].kind = del[<<i, 1>>].kind
      BY <1>t, <1>v, <2>p, <2>f, <2>q, <2>r, <3>1, <2>w, <1>h, <1>s DEF Hard, Standing, Unborn,
         Placed, AsRead, Pc, Seen, Holding, rows, OneDelete
    <3>2. CASE Pc(i)' = "rollback" /\ i \notin rows /\ del'[<<i, 1>>].kind = del[<<i, 1>>].kind
      BY <1>t, <1>v, <2>p, <2>f, <2>q, <2>r, <3>2, <2>w, <1>h, <1>s DEF Hard, Standing, Unborn,
         Placed, AsRead, Pc, Seen, Holding, rows, OneDelete
    <3>3. CASE Pc(i)' = "rollback" /\ i \in rows /\ ~ok
               /\ del'[<<i, 1>>].kind = del[<<i, 1>>].kind
      BY <1>t, <1>v, <2>p, <2>f, <2>q, <2>r, <3>3, <2>w, <1>h, <1>s DEF Hard, Standing, Unborn,
         Placed, AsRead, Pc, Seen, Holding, rows, OneDelete
    <3> QED
      BY <2>d, <3>1, <3>2, <3>3
  <2>5. Exactly(i)
    <3>1. CASE Pc(i)' = "destroy" /\ i \in rows /\ ok
               /\ del'[<<i, 1>>].kind = del[<<i, 1>>].kind
      BY <1>t, <1>v, <2>p, <2>f, <2>q, <2>r, <3>1, <1>h, <1>p, <1>s DEF Exactly, Hard,
         Standing, Unborn, Placed, Halted, AsRead, Due, One, Billed, Returning, Regained,
         Pc, Seen, Holding, rows, OneDelete
    <3>2. CASE Pc(i)' = "rollback" /\ i \notin rows /\ del'[<<i, 1>>].kind = del[<<i, 1>>].kind
      BY <1>t, <1>v, <2>p, <2>f, <2>q, <2>r, <3>2, <1>h, <1>p, <1>s DEF Exactly, Hard,
         Standing, Unborn, Placed, Halted, AsRead, Due, One, Billed, Returning, Regained,
         Pc, Seen, Holding, rows, OneDelete
    <3>3. CASE Pc(i)' = "rollback" /\ i \in rows /\ ~ok
               /\ del'[<<i, 1>>].kind = del[<<i, 1>>].kind
      BY <1>t, <1>v, <2>p, <2>f, <2>q, <2>r, <3>3, <1>h, <1>p, <1>s DEF Exactly, Hard,
         Standing, Unborn, Placed, Halted, AsRead, Due, One, Billed, Returning, Regained,
         Pc, Seen, Holding, rows, OneDelete
    <3> QED
      BY <2>d, <3>1, <3>2, <3>3
  <2> QED
    BY <1>t, <2>1, <2>2, <2>3, <2>4, <2>5, AboutOne
<1>24. ASSUME NEW i \in Instances, NEW n \in Slots, Destroy(i, n)
      PROVE  CoverInv'
  <2>n. n = 1
    BY DEF OneDelete
  <2>o. \A j \in Instances \ {i} : del'[<<j, 1>>] = del[<<j, 1>>]
    BY <1>24, <1>t, <2>n, DeleteMoves DEF Destroy, DeleteTo
  <2>d. \/ Pc(i)' = "commit" /\ i \in rows /\ del'[<<i, 1>>].kind = del[<<i, 1>>].kind
        \/ Pc(i)' = "rollback" /\ i \notin rows /\ del'[<<i, 1>>].kind = del[<<i, 1>>].kind
    BY <1>24, <1>t, <2>n, DeleteMoves DEF Destroy, DeleteTo, Pc, Seen, Rows
  <2>p. Pc(i) \in {"local", "destroy"} /\ cpc[i] = "exists"
    BY <1>24, <1>t, <2>n, <1>s DEF Destroy, Standing, Unborn, Pc, Seen
  <2>f. UNCHANGED <<cpc, rpc, slips, late, reclaiming, up, request, booted, inUse, live>>
    BY <1>24 DEF Destroy, usage, table, unread, others
  <2>r. row'[i].vm = "gone" /\ row'[i].task = "none" /\ row'[i].hosted = FALSE
    BY <1>24, <1>t, <2>n DEF Rows, rows, Gone, Vms, Tasks, Destroy
  <2>w. Pc(i)' # "idle" => Seen(i)'.vm \in {Seen(i).vm, row[i].vm}
    BY <1>24, <1>t, <2>n, DeleteMoves DEF Destroy, DeleteTo, Pc, Seen, Rows
  <2>1. About(i)
    BY <1>24, <1>t, <2>n, <2>o DEF About, SameAt, SameLive, Destroy, usage, table, unread,
       others
  <2>2. Standing(i)'
    <3>1. CASE Pc(i)' = "commit" /\ i \in rows /\ del'[<<i, 1>>].kind = del[<<i, 1>>].kind
      BY <1>t, <1>s, <1>v, <2>p, <2>f, <2>r, <3>1 DEF Standing, Unborn, Placed, Halted,
         AsRead, Kept, Pc, Seen, Holding, rows, OneDelete
    <3>2. CASE Pc(i)' = "rollback" /\ i \notin rows /\ del'[<<i, 1>>].kind = del[<<i, 1>>].kind
      BY <1>t, <1>s, <1>v, <2>p, <2>f, <2>r, <3>2 DEF Standing, Unborn, Placed, Halted,
         AsRead, Kept, Pc, Seen, Holding, rows, OneDelete
    <3> QED
      BY <2>d, <3>1, <3>2
  <2>3. Counts(i)
    <3>1. CASE Pc(i)' = "commit" /\ i \in rows /\ del'[<<i, 1>>].kind = del[<<i, 1>>].kind
      BY <1>t, <1>s, <1>v, <2>p, <2>f, <2>r, <3>1 DEF Counts, Due, One, Billed, Returning,
         Regained, Awaited, Pc, Holding, rows, OneDelete, Standing, Placed, Halted, AsRead,
         Seen
    <3>2. CASE Pc(i)' = "rollback" /\ i \notin rows /\ del'[<<i, 1>>].kind = del[<<i, 1>>].kind
      BY <1>t, <1>s, <1>v, <2>p, <2>f, <2>r, <3>2 DEF Counts, Due, One, Billed, Returning,
         Regained, Awaited, Pc, Holding, rows, OneDelete, Standing, Placed, Halted, AsRead,
         Seen
    <3> QED
      BY <2>d, <3>1, <3>2
  <2>4. Hard(i)'
    <3>1. CASE Pc(i)' = "commit" /\ i \in rows /\ del'[<<i, 1>>].kind = del[<<i, 1>>].kind
      BY <1>t, <1>v, <2>p, <2>f, <2>r, <3>1, <2>w, <1>h, <1>s DEF Hard, Standing, Unborn, Placed,
         AsRead, Pc, Seen, Holding, rows, OneDelete
    <3>2. CASE Pc(i)' = "rollback" /\ i \notin rows /\ del'[<<i, 1>>].kind = del[<<i, 1>>].kind
      BY <1>t, <1>v, <2>p, <2>f, <2>r, <3>2, <2>w, <1>h, <1>s DEF Hard, Standing, Unborn, Placed,
         AsRead, Pc, Seen, Holding, rows, OneDelete
    <3> QED
      BY <2>d, <3>1, <3>2
  <2>5. Exactly(i)
    <3>1. CASE Pc(i)' = "commit" /\ i \in rows /\ del'[<<i, 1>>].kind = del[<<i, 1>>].kind
      BY <1>t, <1>v, <2>p, <2>f, <2>r, <3>1, <1>h, <1>p, <1>s DEF Exactly, Hard, Standing,
         Unborn, Placed, Halted, AsRead, Due, One, Billed, Returning, Regained, Pc, Seen,
         Holding, rows, OneDelete
    <3>2. CASE Pc(i)' = "rollback" /\ i \notin rows /\ del'[<<i, 1>>].kind = del[<<i, 1>>].kind
      BY <1>t, <1>v, <2>p, <2>f, <2>r, <3>2, <1>h, <1>p, <1>s DEF Exactly, Hard, Standing,
         Unborn, Placed, Halted, AsRead, Due, One, Billed, Returning, Regained, Pc, Seen,
         Holding, rows, OneDelete
    <3> QED
      BY <2>d, <3>1, <3>2
  <2> QED
    BY <1>t, <2>1, <2>2, <2>3, <2>4, <2>5, AboutOne
<1>25. ASSUME NEW i \in Instances, NEW n \in Slots, NEW ok \in BOOLEAN, SoftDelete(i, n, ok)
      PROVE  CoverInv'
  <2>n. n = 1
    BY DEF OneDelete
  <2>o. \A j \in Instances \ {i} : del'[<<j, 1>>] = del[<<j, 1>>]
    BY <1>25, <1>t, <2>n, DeleteMoves DEF SoftDelete, DeleteTo
  <2>d. \/ /\ Pc(i)' = "commit" /\ i \in rows /\ del'[<<i, 1>>].kind = del[<<i, 1>>].kind
           /\ row'[i].vm = "soft" /\ row'[i].task = "none"
        \/ Pc(i)' = "rollback" /\ row'[i] = row[i] /\ del'[<<i, 1>>].kind = del[<<i, 1>>].kind
        \/ /\ Pc(i)' = "rollback" /\ row'[i].vm = row[i].vm
           /\ del'[<<i, 1>>].kind = del[<<i, 1>>].kind
           /\ row'[i].task = "none"
    BY <1>25, <1>t, <2>n, DeleteMoves DEF SoftDelete, DeleteTo, Pc, Seen, Rows
  <2>p. Pc(i) = "cast" /\ del[<<i, 1>>].kind = "soft" /\ cpc[i] = "exists"
    BY <1>25, <1>t, <2>n, <1>s DEF SoftDelete, Standing, Unborn, Pc, Seen
  <2>f. UNCHANGED <<cpc, rpc, slips, late, reclaiming, up, request, booted, inUse, live>>
    BY <1>25 DEF SoftDelete, usage, table, unread, others
  <2>r. row'[i].hosted = row[i].hosted
    BY <1>25, <1>t, <2>n DEF Rows, rows, Gone, Vms, Tasks, SoftDelete
  <2>1. About(i)
    BY <1>25, <1>t, <2>n, <2>o DEF About, SameAt, SameLive, SoftDelete, usage, table,
       unread, others
  <2>2. Standing(i)'
    <3>1. CASE /\ Pc(i)' = "commit" /\ i \in rows /\ del'[<<i, 1>>].kind = del[<<i, 1>>].kind
                /\ row'[i].vm = "soft" /\ row'[i].task = "none"
      BY <1>t, <1>s, <1>v, <2>p, <2>f, <2>r, <3>1 DEF Standing, Unborn, Placed, Halted,
         AsRead, Kept, Pc, Seen, Holding, rows, OneDelete
    <3>2. CASE Pc(i)' = "rollback" /\ row'[i] = row[i]
               /\ del'[<<i, 1>>].kind = del[<<i, 1>>].kind
      BY <1>t, <1>s, <1>v, <2>p, <2>f, <2>r, <3>2 DEF Standing, Unborn, Placed, Halted,
         AsRead, Kept, Pc, Seen, Holding, rows, OneDelete
    <3>3. CASE /\ Pc(i)' = "rollback" /\ row'[i].vm = row[i].vm
               /\ del'[<<i, 1>>].kind = del[<<i, 1>>].kind
                /\ row'[i].task = "none"
      BY <1>t, <1>s, <1>v, <2>p, <2>f, <2>r, <3>3 DEF Standing, Unborn, Placed, Halted,
         AsRead, Kept, Pc, Seen, Holding, rows, OneDelete
    <3> QED
      BY <2>d, <3>1, <3>2, <3>3
  <2>3. Counts(i)
    <3>1. CASE /\ Pc(i)' = "commit" /\ i \in rows /\ del'[<<i, 1>>].kind = del[<<i, 1>>].kind
                /\ row'[i].vm = "soft" /\ row'[i].task = "none"
      BY <1>t, <1>s, <1>v, <2>p, <2>f, <2>r, <3>1 DEF Counts, Due, One, Billed, Returning,
         Regained, Awaited, Pc, Holding, rows, OneDelete, Standing, Placed, Halted, AsRead,
         Seen
    <3>2. CASE Pc(i)' = "rollback" /\ row'[i] = row[i]
               /\ del'[<<i, 1>>].kind = del[<<i, 1>>].kind
      BY <1>t, <1>s, <1>v, <2>p, <2>f, <2>r, <3>2 DEF Counts, Due, One, Billed, Returning,
         Regained, Awaited, Pc, Holding, rows, OneDelete, Standing, Placed, Halted, AsRead,
         Seen
    <3>3. CASE /\ Pc(i)' = "rollback" /\ row'[i].vm = row[i].vm
               /\ del'[<<i, 1>>].kind = del[<<i, 1>>].kind
                /\ row'[i].task = "none"
      BY <1>t, <1>s, <1>v, <2>p, <2>f, <2>r, <3>3 DEF Counts, Due, One, Billed, Returning,
         Regained, Awaited, Pc, Holding, rows, OneDelete, Standing, Placed, Halted, AsRead,
         Seen
    <3> QED
      BY <2>d, <3>1, <3>2, <3>3
  <2>4. Hard(i)'
    <3>1. CASE /\ Pc(i)' = "commit" /\ i \in rows /\ del'[<<i, 1>>].kind = del[<<i, 1>>].kind
                /\ row'[i].vm = "soft" /\ row'[i].task = "none"
      BY <1>t, <1>v, <2>p, <2>f, <2>r, <3>1, <1>h, <1>s DEF Hard, Standing, Unborn, Placed,
         AsRead, Pc, Seen, Holding, rows, OneDelete
    <3>2. CASE Pc(i)' = "rollback" /\ row'[i] = row[i]
               /\ del'[<<i, 1>>].kind = del[<<i, 1>>].kind
      BY <1>t, <1>v, <2>p, <2>f, <2>r, <3>2, <1>h, <1>s DEF Hard, Standing, Unborn, Placed,
         AsRead, Pc, Seen, Holding, rows, OneDelete
    <3>3. CASE /\ Pc(i)' = "rollback" /\ row'[i].vm = row[i].vm
               /\ del'[<<i, 1>>].kind = del[<<i, 1>>].kind
                /\ row'[i].task = "none"
      BY <1>t, <1>v, <2>p, <2>f, <2>r, <3>3, <1>h, <1>s DEF Hard, Standing, Unborn, Placed,
         AsRead, Pc, Seen, Holding, rows, OneDelete
    <3> QED
      BY <2>d, <3>1, <3>2, <3>3
  <2>5. Exactly(i)
    <3>1. CASE /\ Pc(i)' = "commit" /\ i \in rows /\ del'[<<i, 1>>].kind = del[<<i, 1>>].kind
                /\ row'[i].vm = "soft" /\ row'[i].task = "none"
      BY <1>t, <1>v, <2>p, <2>f, <2>r, <3>1, <1>h, <1>p, <1>s DEF Exactly, Hard, Standing,
         Unborn, Placed, Halted, AsRead, Due, One, Billed, Returning, Regained, Pc, Seen,
         Holding, rows, OneDelete
    <3>2. CASE Pc(i)' = "rollback" /\ row'[i] = row[i]
               /\ del'[<<i, 1>>].kind = del[<<i, 1>>].kind
      BY <1>t, <1>v, <2>p, <2>f, <2>r, <3>2, <1>h, <1>p, <1>s DEF Exactly, Hard, Standing,
         Unborn, Placed, Halted, AsRead, Due, One, Billed, Returning, Regained, Pc, Seen,
         Holding, rows, OneDelete
    <3>3. CASE /\ Pc(i)' = "rollback" /\ row'[i].vm = row[i].vm
               /\ del'[<<i, 1>>].kind = del[<<i, 1>>].kind
                /\ row'[i].task = "none"
      BY <1>t, <1>v, <2>p, <2>f, <2>r, <3>3, <1>h, <1>p, <1>s DEF Exactly, Hard, Standing,
         Unborn, Placed, Halted, AsRead, Due, One, Billed, Returning, Regained, Pc, Seen,
         Holding, rows, OneDelete
    <3> QED
      BY <2>d, <3>1, <3>2, <3>3
  <2> QED
    BY <1>t, <2>1, <2>2, <2>3, <2>4, <2>5, AboutOne
<1>26. ASSUME NEW i \in Instances, NEW n \in Slots, CrashDelete(i, n)
      PROVE  CoverInv'
  <2>n. n = 1
    BY DEF OneDelete
  <2>o. \A j \in Instances \ {i} : del'[<<j, 1>>] = del[<<j, 1>>]
    BY <1>26, <1>t, <2>n, DeleteMoves DEF CrashDelete, DeleteTo
  <2>d. Pc(i)' = "idle"
    BY <1>26, <1>t, <2>n, DeleteMoves DEF CrashDelete, DeleteTo, Pc, Seen, Rows
  <2>p. Pc(i) # "idle" /\ cpc[i] = "exists"
    BY <1>26, <1>t, <2>n, <1>s DEF CrashDelete, Standing, Unborn, Pc, Seen
  <2>f. UNCHANGED <<cpc, rpc, reclaiming, up, request, booted, inUse, live, row>>
    BY <1>26 DEF CrashDelete, usage, table
  <2>r. /\ slips \subseteq slips' /\ (del[<<i, 1>>].pc = "discard" => slips' # {})
        /\ late \subseteq late' /\ (del[<<i, 1>>].pc = "commit" => late' # {})
        /\ del[<<i, 1>>].pc \notin {"cast", "destroy"}
    BY <1>26, <2>n DEF CrashDelete
  <2>1. About(i)
    BY <1>26, <1>t, <2>n, <2>o DEF About, SameAt, SameLive, CrashDelete, usage, table,
       unread, others
  <2>2. Standing(i)'
    BY <1>t, <1>s, <1>v, <2>p, <2>f, <2>d, <2>r DEF Standing, Unborn, Placed, Halted,
       AsRead, Kept, Pc, Seen, Holding, rows, OneDelete
  <2>3. Counts(i)
    BY <1>t, <1>s, <1>v, <2>p, <2>f, <2>d, <2>r DEF Counts, Due, One, Billed, Returning,
       Regained, Awaited, Pc, Holding, rows, OneDelete, Standing, Placed, Halted, AsRead,
       Seen
  <2>4. Hard(i)'
    BY <1>t, <1>v, <2>p, <2>f, <2>d, <2>r, <1>h, <1>s DEF Hard, Standing, Unborn, Placed,
       AsRead, Pc, Seen, Holding, rows, OneDelete
  <2>5. Exactly(i)
    BY <1>t, <1>v, <2>p, <2>f, <2>d, <2>r, <1>h, <1>p, <1>s DEF Exactly, Hard, Standing,
       Unborn, Placed, Halted, AsRead, Due, One, Billed, Returning, Regained, Pc, Seen,
       Holding, rows, OneDelete
  <2> QED
    BY <1>t, <2>1, <2>2, <2>3, <2>4, <2>5, AboutOne
<1>27. ASSUME NEW i \in Instances, NEW n \in Slots, ReserveHalted(i, n)
      PROVE  CoverInv'
  <2>n. n = 1
    BY DEF OneDelete
  <2>o. \A j \in Instances \ {i} : del'[<<j, 1>>] = del[<<j, 1>>]
    BY <1>27, <1>t, <2>n, DeleteMoves DEF ReserveHalted, DeleteTo
  <2>d. Pc(i)' = "settle" /\ del'[<<i, 1>>].kind = del[<<i, 1>>].kind
    BY <1>27, <1>t, <2>n, DeleteMoves DEF ReserveHalted, DeleteTo, Pc, Seen, Rows
  <2>p. Pc(i) = "halted" /\ cpc[i] = "exists"
    BY <1>27, <1>t, <2>n, <1>s DEF ReserveHalted, Standing, Unborn, Pc, Seen
  <2>f. UNCHANGED <<cpc, rpc, slips, late, reclaiming, up, request, booted, row>>
    BY <1>27 DEF ReserveHalted, usage, table, unread, others
  <2>u. /\ \A j \in Instances \ {i} : SameLive(j)
        /\ \A u \in Users \ {Owner[i]} : inUse'[u] = inUse[u]
        /\ inUse[Owner[i]] \in Int /\ inUse'[Owner[i]] \in Int
    BY <1>27, <1>t, <2>n, UsageMoves, OthersHold DEF ReserveHalted, SameLive, usage
  <2>v. /\ live' = live \cup {Deleting(i, 1)} /\ inUse[Owner[i]] <= inUse'[Owner[i]]
        /\ inUse[Owner[i]] >= 0 => inUse'[Owner[i]] = inUse[Owner[i]]
    BY <1>27, <1>t, <2>n, UsageMoves, OwnRequests DEF ReserveHalted, usage, Pc, Seen,
       Holding
  <2>w. Pc(i)' # "idle" => Seen(i)'.vm \in {Seen(i).vm, row[i].vm}
    BY <1>27, <1>t, <2>n, DeleteMoves DEF ReserveHalted, DeleteTo, Pc, Seen, Rows
  <2>1. About(i)
    BY <1>27, <1>t, <2>n, <2>o, <2>u DEF About, SameAt, ReserveHalted, usage, table, unread,
       others
  <2>2. Standing(i)'
    BY <1>t, <1>s, <1>v, <2>p, <2>f, <2>d, <2>v, OwnRequests DEF Standing, Unborn, Placed,
       Halted, AsRead, Kept, Pc, Seen, Holding, rows, OneDelete
  <2>3. Counts(i)
    BY <1>t, <1>s, <1>v, <2>p, <2>f, <2>d, <2>v, OwnRequests, <2>u DEF Counts, Due, One,
       Billed, Returning, Regained, Awaited, Pc, Holding, rows, OneDelete, Standing, Placed,
       Halted, AsRead, Seen
  <2>4. Hard(i)'
    BY <1>t, <1>v, <2>p, <2>f, <2>d, <2>v, OwnRequests, <2>w, <1>h, <1>s DEF Hard, Standing,
       Unborn, Placed, AsRead, Pc, Seen, Holding, rows, OneDelete
  <2>5. Exactly(i)
    BY <1>t, <1>v, <2>p, <2>f, <2>d, <2>v, OwnRequests, <2>u, <1>h, <1>p, <1>s DEF Exactly,
       Hard, Standing, Unborn, Placed, Halted, AsRead, Due, One, Billed, Returning,
       Regained, Pc, Seen, Holding, rows, OneDelete
  <2> QED
    BY <1>t, <2>1, <2>2, <2>3, <2>4, <2>5, AboutOne
<1>28. ASSUME NEW i \in Instances, NEW n \in Slots, CommitHalted(i, n)
      PROVE  CoverInv'
  <2>n. n = 1
    BY DEF OneDelete
  <2>o. \A j \in Instances \ {i} : del'[<<j, 1>>] = del[<<j, 1>>]
    BY <1>28, <1>t, <2>n, DeleteMoves DEF CommitHalted, DeleteTo
  <2>d. Pc(i)' = "discard" /\ del'[<<i, 1>>].kind = del[<<i, 1>>].kind
    BY <1>28, <1>t, <2>n, DeleteMoves DEF CommitHalted, DeleteTo, Pc, Seen, Rows
  <2>p. Pc(i) = "settle" /\ cpc[i] = "exists"
    BY <1>28, <1>t, <2>n, <1>s DEF CommitHalted, Standing, Unborn, Pc, Seen
  <2>f. UNCHANGED <<cpc, rpc, slips, late, reclaiming, up, request, booted, row>>
    BY <1>28 DEF CommitHalted, usage, table, unread, others
  <2>u. /\ \A j \in Instances \ {i} : SameLive(j)
        /\ \A u \in Users \ {Owner[i]} : inUse'[u] = inUse[u]
        /\ inUse[Owner[i]] \in Int /\ inUse'[Owner[i]] \in Int
    BY <1>28, <1>t, <2>n, UsageMoves, OthersHold DEF CommitHalted, SameLive, usage
  <2>v. /\ live' = live \ {Deleting(i, 1)}
        /\ Deleting(i, 1) \in live => inUse'[Owner[i]] = inUse[Owner[i]] - 1
        /\ Deleting(i, 1) \notin live => inUse'[Owner[i]] = inUse[Owner[i]]
    BY <1>28, <1>t, <2>n, UsageMoves, OwnRequests DEF CommitHalted, usage, Pc, Seen, Holding
  <2>w. Pc(i)' # "idle" => Seen(i)'.vm \in {Seen(i).vm, row[i].vm}
    BY <1>28, <1>t, <2>n, DeleteMoves DEF CommitHalted, DeleteTo, Pc, Seen, Rows
  <2>1. About(i)
    BY <1>28, <1>t, <2>n, <2>o, <2>u DEF About, SameAt, CommitHalted, usage, table, unread,
       others
  <2>2. Standing(i)'
    BY <1>t, <1>s, <1>v, <2>p, <2>f, <2>d, <2>v, OwnRequests DEF Standing, Unborn, Placed,
       Halted, AsRead, Kept, Pc, Seen, Holding, rows, OneDelete
  <2>3. Counts(i)
    BY <1>t, <1>s, <1>v, <2>p, <2>f, <2>d, <2>v, OwnRequests, <2>u DEF Counts, Due, One,
       Billed, Returning, Regained, Awaited, Pc, Holding, rows, OneDelete, Standing, Placed,
       Halted, AsRead, Seen
  <2>4. Hard(i)'
    BY <1>t, <1>v, <2>p, <2>f, <2>d, <2>v, OwnRequests, <2>w, <1>h, <1>s DEF Hard, Standing,
       Unborn, Placed, AsRead, Pc, Seen, Holding, rows, OneDelete
  <2>5. Exactly(i)
    BY <1>t, <1>v, <2>p, <2>f, <2>d, <2>v, OwnRequests, <2>u, <1>h, <1>p, <1>s DEF Exactly,
       Hard, Standing, Unborn, Placed, Halted, AsRead, Due, One, Billed, Returning,
       Regained, Pc, Seen, Holding, rows, OneDelete
  <2> QED
    BY <1>t, <2>1, <2>2, <2>3, <2>4, <2>5, AboutOne
<1>29. ASSUME NEW i \in Instances, NEW n \in Slots, ReserveDelete(i, n)
      PROVE  CoverInv'
  <2>n. n = 1
    BY DEF OneDelete
  <2>o. \A j \in Instances \ {i} : del'[<<j, 1>>] = del[<<j, 1>>]
    BY <1>29, <1>t, <2>n, DeleteMoves DEF ReserveDelete, DeleteTo
  <2>d. /\ Pc(i)' = (IF Seen(i).hosted THEN "hosted" ELSE "unhosted") /\ Seen(i)' = Seen(i)
        /\ del'[<<i, 1>>].kind = del[<<i, 1>>].kind
    BY <1>29, <1>t, <2>n, DeleteMoves DEF ReserveDelete, DeleteTo, Pc, Seen, Rows
  <2>p. Pc(i) = "reserve" /\ cpc[i] = "exists"
    BY <1>29, <1>t, <2>n, <1>s DEF ReserveDelete, Standing, Unborn, Pc, Seen
  <2>f. UNCHANGED <<cpc, rpc, slips, late, reclaiming, up, request, booted, row>>
    BY <1>29 DEF ReserveDelete, usage, table, unread, others
  <2>u. /\ \A j \in Instances \ {i} : SameLive(j)
        /\ \A u \in Users \ {Owner[i]} : inUse'[u] = inUse[u]
        /\ inUse[Owner[i]] \in Int /\ inUse'[Owner[i]] \in Int
    BY <1>29, <1>t, <2>n, UsageMoves, OthersHold DEF ReserveDelete, SameLive, usage
  <2>v. /\ live' = live \cup {Deleting(i, 1)} /\ inUse[Owner[i]] <= inUse'[Owner[i]]
        /\ inUse[Owner[i]] >= 0 => inUse'[Owner[i]] = inUse[Owner[i]]
    BY <1>29, <1>t, <2>n, UsageMoves, OwnRequests DEF ReserveDelete, usage, Pc, Seen,
       Holding
  <2>1. About(i)
    BY <1>29, <1>t, <2>n, <2>o, <2>u DEF About, SameAt, ReserveDelete, usage, table, unread,
       others
  <2>2. Standing(i)'
    BY <1>t, <1>s, <1>v, <2>p, <2>f, <2>d, <2>v, OwnRequests DEF Standing, Unborn, Placed,
       Halted, AsRead, Kept, Pc, Seen, Holding, rows, OneDelete
  <2>3. Counts(i)
    BY <1>t, <1>s, <1>v, <2>p, <2>f, <2>d, <2>v, OwnRequests, <2>u DEF Counts, Due, One,
       Billed, Returning, Regained, Awaited, Pc, Holding, rows, OneDelete, Standing, Placed,
       Halted, AsRead, Seen
  <2>4. Hard(i)'
    BY <1>t, <1>v, <2>p, <2>f, <2>d, <2>v, OwnRequests, <1>h, <1>s DEF Hard, Standing,
       Unborn, Placed, AsRead, Pc, Seen, Holding, rows, OneDelete
  <2>5. Exactly(i)
    BY <1>t, <1>v, <2>p, <2>f, <2>d, <2>v, OwnRequests, <2>u, <1>h, <1>p, <1>s DEF Exactly,
       Hard, Standing, Unborn, Placed, Halted, AsRead, Due, One, Billed, Returning,
       Regained, Pc, Seen, Holding, rows, OneDelete
  <2> QED
    BY <1>t, <2>1, <2>2, <2>3, <2>4, <2>5, AboutOne
<1>30. ASSUME NEW i \in Instances, NEW n \in Slots, CastDelete(i, n)
      PROVE  CoverInv'
  <2>n. n = 1
    BY DEF OneDelete
  <2>o. \A j \in Instances \ {i} : del'[<<j, 1>>] = del[<<j, 1>>]
    BY <1>30, <1>t, <2>n, DeleteMoves DEF CastDelete, DeleteTo
  <2>d. /\ Seen(i)' = Seen(i) /\ del'[<<i, 1>>].kind = del[<<i, 1>>].kind
        /\ \/ Pc(i)' = "rollback"
           \/ /\ Pc(i)' = "cast" /\ (Seen(i).vm = "soft" => Rollback(Deleting(i, 1)))
              /\ Seen(i).vm # "soft" => live' = live
    BY <1>30, <1>t, <2>n, DeleteMoves DEF CastDelete, DeleteTo, Pc, Seen, Rows, usage
  <2>p. Pc(i) = "hosted" /\ cpc[i] = "exists"
    BY <1>30, <1>t, <2>n, <1>s DEF CastDelete, Standing, Unborn, Pc, Seen
  <2>f. UNCHANGED <<cpc, rpc, slips, late, reclaiming, up, request, booted, row>>
    BY <1>30 DEF CastDelete, usage, table, unread, others
  <2>u. /\ \A j \in Instances \ {i} : SameLive(j)
        /\ \A u \in Users \ {Owner[i]} : inUse'[u] = inUse[u]
        /\ inUse[Owner[i]] \in Int /\ inUse'[Owner[i]] \in Int
    BY <1>30, <1>t, <2>n, UsageMoves, OthersHold DEF CastDelete, SameLive, usage
  <2>v. /\ inUse' = inUse /\ (live' = live \/ live' = live \ {Deleting(i, 1)})
        /\ Rollback(Deleting(i, 1)) => live' = live \ {Deleting(i, 1)}
    BY <1>30, <1>t, <2>n, UsageMoves, OwnRequests DEF CastDelete, usage, Pc, Seen, Holding
  <2>1. About(i)
    BY <1>30, <1>t, <2>n, <2>o, <2>u DEF About, SameAt, CastDelete, usage, table, unread,
       others
  <2>2. Standing(i)'
    BY <1>t, <1>s, <1>v, <2>p, <2>f, <2>d, <2>v, OwnRequests DEF Standing, Unborn, Placed,
       Halted, AsRead, Kept, Pc, Seen, Holding, rows, OneDelete
  <2>3. Counts(i)
    BY <1>t, <1>s, <1>v, <2>p, <2>f, <2>d, <2>v, OwnRequests, <2>u DEF Counts, Due, One,
       Billed, Returning, Regained, Awaited, Pc, Holding, rows, OneDelete, Standing, Placed,
       Halted, AsRead, Seen
  <2>4. Hard(i)'
    BY <1>t, <1>v, <2>p, <2>f, <2>d, <2>v, OwnRequests, <1>h, <1>s DEF Hard, Standing,
       Unborn, Placed, AsRead, Pc, Seen, Holding, rows, OneDelete
  <2>5. Exactly(i)
    BY <1>t, <1>v, <2>p, <2>f, <2>d, <2>v, OwnRequests, <2>u, <1>h, <1>p, <1>s DEF Exactly,
       Hard, Standing, Unborn, Placed, Halted, AsRead, Due, One, Billed, Returning,
       Regained, Pc, Seen, Holding, rows, OneDelete
  <2> QED
    BY <1>t, <2>1, <2>2, <2>3, <2>4, <2>5, AboutOne
<1>31. ASSUME NEW i \in Instances, NEW n \in Slots, EndDelete(i, n)
      PROVE  CoverInv'
  <2>n. n = 1
    BY DEF OneDelete
  <2>o. \A j \in Instances \ {i} : del'[<<j, 1>>] = del[<<j, 1>>]
    BY <1>31, <1>t, <2>n, DeleteMoves DEF EndDelete, DeleteTo
  <2>d. Pc(i)' = "idle"
    BY <1>31, <1>t, <2>n, DeleteMoves DEF EndDelete, DeleteTo, Pc, Seen, Rows
  <2>p. Pc(i) \in {"commit", "rollback"} /\ cpc[i] = "exists"
    BY <1>31, <1>t, <2>n, <1>s DEF EndDelete, Standing, Unborn, Pc, Seen
  <2>f. UNCHANGED <<cpc, rpc, slips, late, reclaiming, up, request, booted, row>>
    BY <1>31 DEF EndDelete, usage, table, unread, others
  <2>u. /\ \A j \in Instances \ {i} : SameLive(j)
        /\ \A u \in Users \ {Owner[i]} : inUse'[u] = inUse[u]
        /\ inUse[Owner[i]] \in Int /\ inUse'[Owner[i]] \in Int
    BY <1>31, <1>t, <2>n, UsageMoves, OthersHold DEF EndDelete, SameLive, usage
  <2>v. /\ live' = live \ {Deleting(i, 1)}
        /\ Pc(i) = "rollback" => inUse' = inUse
        /\ Pc(i) = "commit" /\ Holding(i) => inUse'[Owner[i]] = inUse[Owner[i]] - 1
        /\ Pc(i) = "commit" /\ ~Holding(i) => inUse'[Owner[i]] = inUse[Owner[i]]
    BY <1>31, <1>t, <2>n, UsageMoves, OwnRequests DEF EndDelete, usage, Pc, Seen, Holding
  <2>1. About(i)
    BY <1>31, <1>t, <2>n, <2>o, <2>u DEF About, SameAt, EndDelete, usage, table, unread,
       others
  <2>2. Standing(i)'
    BY <1>t, <1>s, <1>v, <2>p, <2>f, <2>d, <2>v, OwnRequests DEF Standing, Unborn, Placed,
       Halted, AsRead, Kept, Pc, Seen, Holding, rows, OneDelete
  <2>3. Counts(i)
    BY <1>t, <1>s, <1>v, <2>p, <2>f, <2>d, <2>v, OwnRequests, <2>u DEF Counts, Due, One,
       Billed, Returning, Regained, Awaited, Pc, Holding, rows, OneDelete, Standing, Placed,
       Halted, AsRead, Seen
  <2>4. Hard(i)'
    BY <1>t, <1>v, <2>p, <2>f, <2>d, <2>v, OwnRequests, <1>h, <1>s DEF Hard, Standing,
       Unborn, Placed, AsRead, Pc, Seen, Holding, rows, OneDelete
  <2>5. Exactly(i)
    BY <1>t, <1>v, <2>p, <2>f, <2>d, <2>v, OwnRequests, <2>u, <1>h, <1>p, <1>s DEF Exactly,
       Hard, Standing, Unborn, Placed, Halted, AsRead, Due, One, Billed, Returning,
       Regained, Pc, Seen, Holding, rows, OneDelete
  <2> QED
    BY <1>t, <2>1, <2>2, <2>3, <2>4, <2>5, AboutOne
<1>32. ASSUME NEW i \in Instances, NEW n \in Slots, NEW kind \in {"hard", "soft"}, Read(i, n, kind)
      PROVE  CoverInv'
  <2>n. n = 1
    BY DEF OneDelete
  <2>e. \A j \in Instances : <<j, 1>> \in Deletes /\ (<<j, 1>> = <<i, 1>> => j = i)
    BY <2>n DEF Deletes, OneDelete
  <2>o. \A j \in Instances \ {i} : del'[<<j, 1>>] = del[<<j, 1>>]
    BY <1>32, <1>t, <2>n, <2>e DEF Read
  <2>d. /\ Pc(i)' = (IF row[i].hosted THEN "mark" ELSE "booting")
        /\ del'[<<i, 1>>].kind = kind
    BY <1>32, <1>t, <2>n, <2>e DEF Read, Pc
  <2>p. /\ Pc(i) = "idle" /\ cpc[i] = "exists" /\ i \in rows
        /\ kind = "soft" => i \in Soft
    BY <1>32, <2>n DEF Read, Pc
  <2>f. UNCHANGED <<cpc, rpc, slips, late, reclaiming, up, request, booted, inUse, live, row>>
    BY <1>32 DEF Read, usage, table, unread, others
  <2>w. Seen(i)'.vm = row[i].vm
    BY <1>32, <1>t, <2>n, <2>e DEF Read, Pc, Seen, Rows
  <2>1. About(i)
    BY <2>f, <2>o DEF About, SameAt, SameLive
  <2>2. Standing(i)'
    BY <1>t, <1>s, <2>p, <2>f, <2>d DEF Standing, Unborn, Placed, Halted, AsRead, Kept, Pc, Seen,
       Holding, rows
  <2>3. Counts(i)
    BY <1>t, <2>p, <2>f, <2>d DEF Counts, Due, One, Billed, Returning, Regained, Awaited, Pc,
       Holding, rows
  <2>4. Hard(i)'
    BY <1>t, <2>p, <2>f, <2>d, <2>w, <1>h, <1>s DEF Hard, Standing, Unborn, Placed, AsRead, Pc,
       Seen, Holding, rows
  <2>5. Exactly(i)
    BY <1>t, <2>p, <2>f, <2>d, <1>h, <1>p, <1>s DEF Exactly, Hard, Standing, Unborn, Placed,
       Halted, AsRead, Due, One, Billed, Returning, Regained, Pc, Seen, Holding, rows
  <2> QED
    BY <1>t, <2>1, <2>2, <2>3, <2>4, <2>5, AboutOne
<1>33. ASSUME NEW E \in SUBSET live, ExpireRead(E)
      PROVE  CoverInv'
  <2>1. UNCHANGED <<cpc, rpc, slips, late, del, reclaiming, up, request, booted, inUse, live, row>>
    BY <1>33 DEF ExpireRead, table
  <2> QED
    BY <1>t, <2>1, Stays
<1>34. CASE ExpireWrite
  BY <1>34, <1>t, Expires
<1>35. CASE UNCHANGED vars
  <2>1. UNCHANGED <<cpc, rpc, slips, late, del, reclaiming, up, request, booted, inUse, live, row>>
    BY <1>35 DEF vars, usage, table, others
  <2> QED
    BY <1>t, <2>1, Stays
<1>36. ASSUME NEW i \in Instances, NEW n \in Slots, FailDelete(i, n)
      PROVE  CoverInv'
  <2>n. n = 1
    BY DEF OneDelete
  <2>o. \A j \in Instances \ {i} : del'[<<j, 1>>] = del[<<j, 1>>]
    BY <1>36, <1>t, <2>n, DeleteMoves DEF FailDelete, DeleteTo
  <2>d. Pc(i)' = "rollback" /\ Seen(i)' = Seen(i) /\ del'[<<i, 1>>].kind = del[<<i, 1>>].kind
    BY <1>36, <1>t, <2>n, DeleteMoves DEF FailDelete, DeleteTo, Pc, Seen
  <2>p. /\ Pc(i) \in {"unhosted", "hosted", "local", "commit"} /\ cpc[i] = "exists"
        /\ Pc(i) = "commit" => late' # {}
        /\ late \subseteq late'
    BY <1>36, <1>t, <2>n, <1>s DEF FailDelete, Standing, Unborn, Pc
  <2>f. UNCHANGED <<cpc, rpc, slips, reclaiming, up, request, booted, inUse, live, row>>
    BY <1>36 DEF FailDelete, usage, table
  <2>i. inUse[Owner[i]] \in Int
    BY <1>t
  <2>1. About(i)
    BY <2>f, <2>o, <2>p DEF About, SameAt, SameLive
  <2>2. Standing(i)'
    BY <1>t, <1>s, <2>p, <2>f, <2>d DEF Standing, Unborn, Placed, Halted, AsRead, Kept, Pc, Seen,
       Holding, rows
  <2>3. Counts(i)
    BY <1>t, <2>p, <2>f, <2>d, <2>i DEF Counts, Due, One, Billed, Returning, Regained, Awaited,
       Pc, Holding, rows
  <2>4. Hard(i)'
    BY <1>t, <2>p, <2>f, <2>d, <1>h DEF Hard, Pc, Seen, Holding, rows
  <2>5. Exactly(i)
    BY <1>t, <2>p, <2>f, <2>d, <2>i DEF Exactly, Due, One, Billed, Returning, Regained, Pc,
       Holding, rows
  <2> QED
    BY <1>t, <2>1, <2>2, <2>3, <2>4, <2>5, AboutOne
<1> QED
  BY <1>1, <1>2, <1>3, <1>4, <1>5, <1>6, <1>7, <1>8, <1>9, <1>10, <1>11, <1>12, <1>13,
     <1>14, <1>15, <1>16, <1>17, <1>18, <1>19, <1>20, <1>21, <1>22, <1>23, <1>24, <1>25,
     <1>26, <1>27, <1>28, <1>29, <1>30, <1>31, <1>32, <1>33, <1>34, <1>35, <1>36
     DEF Next, Create, Delete, Restore


\* Nothing is counted at first.
LEMMA CoverInit ==
    ASSUME OneDelete, Init
    PROVE  CoverInv
<1>1. \A i \in Instances : /\ <<i, 1>> \in Deletes /\ cpc[i] = "new" /\ rpc[i] = "idle"
                           /\ del[<<i, 1>>] = Idle /\ row[i] = Gone
                           /\ i \notin request /\ i \notin booted /\ i \notin reclaiming /\ i \in up
  BY DEF Init, Deletes, OneDelete
<1>2. Idle.pc = "idle" /\ Gone.vm = "gone" /\ Gone.task = "none" /\ ~Gone.hosted
  BY DEF Idle, Gone
<1>3. \A i \in Instances : Standing(i)
  BY <1>1, <1>2 DEF Standing, Unborn, Placed, Halted, AsRead, Kept, Pc, Seen, Holding, rows
<1>4. \A i \in Instances : ~Billed(i) /\ ~Returning(i) /\ ~Regained(i) /\ ~Awaited(i)
  BY <1>1, <1>2 DEF Init, Billed, Returning, Regained, Awaited, Pc
<1>5. \A u \in Users : /\ BilledOf(u) = {} /\ ReturningOf(u) = {} /\ RegainedOf(u) = {}
                       /\ EntitledOf(u) = {} /\ inUse[u] = 0
  BY <1>4 DEF Init, BilledOf, ReturningOf, RegainedOf, EntitledOf
<1>6. Entitled = {}
  BY <1>4 DEF Entitled
<1>7. Covered /\ WithinLimit /\ Exact
  <2>1. Cardinality({}) = 0
    BY FS_EmptySet
  <2>2. \A u \in Users : Owed(u) = 0 /\ inUse[u] = 0
    BY <1>5, <2>1 DEF Owed
  <2> QED
    BY <1>5, <1>6, <2>1, <2>2 DEF Covered, Exact, WithinLimit
<1>8. \A i \in Instances : Hard(i)
  BY <1>1, <1>2 DEF Hard, Pc, Seen, Holding, rows
<1> QED
  BY <1>3, <1>7, <1>8 DEF CoverInv

\* The instances that are there are among those entitled to their usage.
LEMMA CountedEntitled ==
    ASSUME CoverInv, slips = {}, NEW u \in Users
    PROVE  /\ Counted(u) \subseteq EntitledOf(u)
           /\ Cardinality(Counted(u)) \in Nat /\ Cardinality(Counted(u)) <= Cardinality(EntitledOf(u))
<1>1. Counted(u) \subseteq EntitledOf(u)
  <2> SUFFICES ASSUME NEW i \in Counted(u)
               PROVE  i \in EntitledOf(u)
    OBVIOUS
  <2>1. /\ i \in Instances /\ i \in rows /\ Owner[i] = u /\ i \in request \cup booted
        /\ row[i].vm \in {"building", "active", "error"}
    BY DEF Counted, rows
  <2>2. Standing(i)
    BY <2>1 DEF CoverInv
  <2>3. CASE cpc[i] = "exists"
    BY <2>1, <2>2, <2>3 DEF Standing, Halted, EntitledOf, Billed
  <2>4. CASE cpc[i] # "exists"
    BY <2>1, <2>2, <2>4 DEF Standing, Unborn, Kept, EntitledOf, Awaited
  <2> QED
    BY <2>3, <2>4
<1> QED
  BY <1>1, FiniteCounts, FS_Subset, FS_CardinalityType

\* The invariant holds in every behaviour.
LEMMA CoverInvariant ==
    ASSUME OneDelete
    PROVE  Spec => [](TypeOK /\ ReserveInv /\ CoverInv)
<1>1. Init => TypeOK /\ ReserveInv /\ CoverInv
  BY RestInit, TypesSplit, ReserveInit, CoverInit
<1>2. TypeOK /\ ReserveInv /\ CoverInv /\ [Next]_vars => (TypeOK /\ ReserveInv /\ CoverInv)'
  <2> SUFFICES ASSUME TypeOK, ReserveInv, CoverInv, [Next]_vars
               PROVE  TypeOK' /\ ReserveInv' /\ CoverInv'
    OBVIOUS
  <2>1. RestTypes'
    BY RestStep DEF TypeOK, RestTypes, Deletion, ReserveInv
  <2>2. ReserveInv'
    BY ReserveStep
  <2>3. TypeOK'
    <3>1. \A u \in Users \ garbled' : reserved'[u] >= 0
      BY <2>2, FS_CardinalityType DEF ReserveInv, Backed
    <3> QED
      BY <2>1, <2>2, <3>1 DEF TypeOK, ReserveInv, ReserveTypes, RestTypes, Deletion
  <2>4. CoverInv'
    BY <2>3, CoverStep DEF TypeOK
  <2> QED
    BY <2>2, <2>3, <2>4
<1> QED
  BY <1>1, <1>2, PTL DEF Spec

(* As long as no reservation expires under its request, the usage and the    *)
(* reservations of a user cover the instances there are, whatever creations, *)
(* deletes, restores and reclaims race, and whatever the API process or a    *)
(* host does, for any users, instances, limits and number of faults; the     *)
(* deletes of one instance must not overlap, and an instance that can be     *)
(* soft-deleted must not lose its host.                                      *)
THEOREM UsageCovered ==
    ASSUME OneDelete
    PROVE  Spec => []UsageCovers
<1>1. TypeOK /\ ReserveInv /\ CoverInv => UsageCovers
  <2> SUFFICES ASSUME TypeOK, ReserveInv, CoverInv, slips = {}, NEW u \in Users
               PROVE  Cardinality(Counted(u)) <= inUse[u] + reserved[u]
    BY DEF UsageCovers
  <2>1. inUse \in [Users -> Int] /\ reserved \in [Users -> Int] /\ Covered /\ garbled = {}
    BY DEF TypeOK, CoverInv, ReserveInv, Expiring
  <2>2. Cardinality(EntitledOf(u)) <= inUse[u] + reserved[u]
    BY <2>1, Covers
  <2>3. Cardinality(EntitledOf(u)) \in Nat
    BY FiniteCounts, FS_CardinalityType
  <2> QED
    BY <2>1, <2>2, <2>3, CountedEntitled
<1> QED
  BY <1>1, CoverInvariant, PTL

(* Under the same conditions no user has more instances than the limit, from *)
(* the moment it was checked: the instances created and restored later, and  *)
(* the usage that deletes give back meanwhile, never add up to more.         *)
THEOREM UsersWithinQuota ==
    ASSUME OneDelete
    PROVE  Spec => []UserQuota
<1>1. TypeOK /\ ReserveInv /\ CoverInv => UserQuota
  <2> SUFFICES ASSUME CoverInv, slips = {}, UserLimit >= 0, NEW u \in Users
               PROVE  Cardinality(Counted(u)) <= UserLimit
    BY DEF UserQuota
  <2>1. Cardinality(EntitledOf(u)) <= UserLimit
    BY DEF CoverInv, WithinLimit
  <2>2. Cardinality(EntitledOf(u)) \in Nat
    BY FiniteCounts, FS_CardinalityType
  <2> QED
    BY <2>1, <2>2, CountedEntitled
<1> QED
  BY <1>1, CoverInvariant, PTL

(* The project has no more instances than its limit either.  The limit is    *)
(* compared with a total over all users that is read before the usage of one *)
(* of them is refreshed, and other users create, restore and delete between  *)
(* that check and the creation of the row.                                   *)
THEOREM ProjectWithinQuota ==
    ASSUME OneDelete
    PROVE  Spec => []ProjectQuota
<1>1. TypeOK /\ ReserveInv /\ CoverInv => ProjectQuota
  <2> SUFFICES ASSUME CoverInv, slips = {}, ProjectLimit >= 0
               PROVE  Cardinality(UNION {Counted(u) : u \in Users}) <= ProjectLimit
    BY DEF ProjectQuota
  <2> DEFINE There == UNION {Counted(u) : u \in Users}
  <2>1. Cardinality(Entitled) <= ProjectLimit
    BY DEF CoverInv, WithinLimit
  <2>2. There \subseteq Entitled /\ Entitled \subseteq Instances
    <3>1. \A u \in Users : Counted(u) \subseteq EntitledOf(u)
      BY CountedEntitled
    <3> QED
      BY <3>1 DEF EntitledOf, Entitled
  <2>3. /\ Cardinality(There) \in Nat /\ Cardinality(Entitled) \in Nat
        /\ Cardinality(There) <= Cardinality(Entitled)
    BY <2>2, FiniteInstances, FS_Subset, FS_CardinalityType
  <2> QED
    BY <2>1, <2>3
<1> QED
  BY <1>1, CoverInvariant, PTL

\* The reservation of a creation is among those counted as reserved.
LEMMA NothingAwaited ==
    ASSUME ReserveInv, garbled = {}, NEW u \in Users, reserved[u] = 0,
           NEW i \in Instances, Owner[i] = u
    PROVE  Creating(i) \notin live
<1>1. IsFiniteSet(Backing(u)) /\ Cardinality(Backing(u)) = 0
  BY DEF ReserveInv, Backed
<1>2. Backing(u) = {}
  BY <1>1, FS_EmptySet
<1> QED
  BY <1>2, OwnRequests DEF Backing, Positive

(* Nothing is counted for ever either.  Whenever nothing is reserved for a    *)
(* user and the user's deletes are over, the usage is exactly the number of   *)
(* the user's rows: builds that a delete preempts, deletes that race the      *)
(* claim of a host, find the row gone, or die or fail before it is destroyed, *)
(* and hosts that go down leave no difference behind, for users none of whose *)
(* instances can be soft-deleted, as long as no request outlasts its          *)
(* reservation and no delete dies between the destruction and the commit.     *)
THEOREM UsageIsExact ==
    ASSUME OneDelete
    PROVE  Spec => []UsageExact
<1>1. TypeOK /\ ReserveInv /\ CoverInv => UsageExact
  <2> SUFFICES ASSUME TypeOK, ReserveInv, CoverInv, slips = {}, late = {}, NEW u \in Users,
                      Quiet(u), NoSoft(u)
               PROVE  inUse[u] = Cardinality({i \in rows : Owner[i] = u})
    BY DEF UsageExact, NoSoft
  <2>1. inUse[u] \in Int /\ Owed(u) = inUse[u]
    BY DEF TypeOK, CoverInv, Exact
  <2>2. ASSUME NEW i \in Instances, Owner[i] = u
        PROVE  /\ Pc(i) = "idle" /\ rpc[i] = "idle" /\ Standing(i) /\ i \notin Soft
               /\ i \in rows => cpc[i] = "exists"
    <3>1. <<i, 1>> \in Deletes
      BY DEF Deletes
    <3>2. Pc(i) = "idle"
      BY <2>2, <3>1 DEF Quiet, Pc
    <3>3. Standing(i) /\ Hard(i) /\ i \notin Soft
      BY <2>2 DEF CoverInv, NoSoft
    <3>4. Creating(i) \notin live
      BY <2>2, NothingAwaited DEF Quiet, ReserveInv, Expiring
    <3> QED
      BY <3>2, <3>3, <3>4 DEF Hard, Standing, Unborn, Kept
  <2>3. ReturningOf(u) = {} /\ RegainedOf(u) = {}
    BY <2>2 DEF ReturningOf, RegainedOf, Returning, Regained
  <2>4. BilledOf(u) = {i \in rows : Owner[i] = u}
    <3>1. ASSUME NEW i \in rows, Owner[i] = u
          PROVE  Billed(i)
      <4>1. i \in Instances /\ row[i].vm # "gone"
        BY DEF rows
      <4>2. row[i].vm \in {"building", "active", "error", "soft", "deleted", "gone"}
        BY <4>1 DEF TypeOK, Rows, Vms
      <4> QED
        BY <2>2, <3>1, <4>1, <4>2 DEF Billed, Standing, Placed
    <3> QED
      BY <3>1 DEF BilledOf, Billed, rows
  <2>5. Cardinality(BilledOf(u)) \in Nat /\ Cardinality({}) = 0
    BY FiniteCounts, FS_CardinalityType, FS_EmptySet
  <2> QED
    BY <2>1, <2>3, <2>4, <2>5 DEF Owed
<1> QED
  BY <1>1, CoverInvariant, PTL

(* Both limits of nova's quota together, as the run checks them.             *)
THEOREM QuotasHold ==
    ASSUME OneDelete
    PROVE  Spec => []QuotaHolds
BY UsersWithinQuota, ProjectWithinQuota, PTL DEF QuotaHolds

==============================================================================
