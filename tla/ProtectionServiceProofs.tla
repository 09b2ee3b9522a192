----------------------- MODULE ProtectionServiceProofs -----------------------
(***************************************************************************)
(* Proofs about ProtectionService for any set of properties, workers and   *)
(* process slots and any bounds.                                           *)
(***************************************************************************)
EXTENDS ProtectionService, FiniteSetTheorems, TLAPS

(* NULL is told apart from every value the two columns can hold.           *)
LEMMA NullIsNoValue ==
    /\ \A S \in SUBSET Properties : NULL # S
    /\ \A r \in [Properties -> Nat] : NULL # r
BY NullAssumption

(* What Split and Enabled return: a list of the right shape, NULL included. *)
LEMMA ColumnTypes ==
    /\ \A r \in Results : Split(r) \in [Properties -> Nat]
    /\ \A e \in {NULL} \cup SUBSET Properties : Enabled(e) \in SUBSET Properties
BY NullIsNoValue DEF Results, Split, Enabled

(* Raising one count of a list of counts gives a list of counts.           *)
LEMMA RaiseType ==
    ASSUME NEW f \in [Properties -> Nat], NEW p \in Properties
    PROVE  /\ [f EXCEPT ![p] = @ + 1] \in [Properties -> Nat]
           /\ [f EXCEPT ![p] = @ + 1][p] = f[p] + 1
           /\ \A q \in Properties \ {p} : [f EXCEPT ![p] = @ + 1][q] = f[q]
OBVIOUS

(* Every step of handlers, children and reboots keeps the state typed.     *)
THEOREM TypeCorrect == Spec => []TypeOK
<1>1. Init => TypeOK
  <2> SUFFICES ASSUME Init PROVE TypeOK
    OBVIOUS
  <2>1. HandlersOK
    BY DEF Init, HandlersOK
  <2>2. ChildrenOK
    BY DEF Init, ChildrenOK, Results, ServicePcs
  <2>3. CountsOK
    BY BoundsAssumption DEF Init, CountsOK
  <2>4. LossesOK
    BY DEF Init, LossesOK
  <2> QED
    BY <2>1, <2>2, <2>3, <2>4, BoundsAssumption DEF Init, TypeOK, Results
<1>2. TypeOK /\ [Next]_vars => TypeOK'
  <2> SUFFICES ASSUME TypeOK, [Next]_vars PROVE TypeOK'
    OBVIOUS
  <2>1. ASSUME NEW w \in Workers, NEW want \in SUBSET Properties,
               ReadOld(w, want)
        PROVE  TypeOK'
    <3>1. HandlersOK'
      BY <2>1, ColumnTypes DEF TypeOK, HandlersOK, ReadOld
    <3>2. ChildrenOK'
      BY <2>1 DEF TypeOK, ChildrenOK, ReadOld, children
    <3>3. CountsOK'
      BY <2>1 DEF TypeOK, CountsOK, ReadOld, counts
    <3>4. LossesOK'
      BY <2>1 DEF TypeOK, LossesOK, ReadOld, losses
    <3> QED
      BY <2>1, <3>1, <3>2, <3>3, <3>4 DEF TypeOK, ReadOld, row
  <2>2. ASSUME NEW w \in Workers, RejectBody(w)
        PROVE  TypeOK'
    <3>1. HandlersOK'
      BY <2>2 DEF TypeOK, HandlersOK, RejectBody
    <3>2. ChildrenOK'
      BY <2>2 DEF TypeOK, ChildrenOK, RejectBody, children
    <3>3. CountsOK'
      BY <2>2 DEF TypeOK, CountsOK, RejectBody, counts
    <3>4. LossesOK'
      BY <2>2 DEF TypeOK, LossesOK, RejectBody, losses
    <3> QED
      BY <2>2, <3>1, <3>2, <3>3, <3>4 DEF TypeOK, RejectBody, row
  <2>3. ASSUME NEW w \in Workers, UpdateRow(w)
        PROVE  TypeOK'
    <3>1. HandlersOK'
      BY <2>3 DEF TypeOK, HandlersOK, UpdateRow
    <3>2. ChildrenOK'
      BY <2>3 DEF TypeOK, ChildrenOK, UpdateRow, children
    <3>3. CountsOK'
      BY <2>3 DEF TypeOK, CountsOK, UpdateRow, counts
    <3>4. LossesOK'
      BY <2>3 DEF TypeOK, LossesOK, UpdateRow, losses
    <3> QED
      BY <2>3, <3>1, <3>2, <3>3, <3>4 DEF TypeOK, HandlersOK, UpdateRow
  <2>4. ASSUME NEW w \in Workers, NEW s \in Procs, NEW p \in Properties,
               Fork(w, s, p)
        PROVE  TypeOK'
    <3>1. HandlersOK'
      BY <2>4 DEF TypeOK, HandlersOK, Fork
    <3>2. ChildrenOK'
      BY <2>4 DEF TypeOK, ChildrenOK, Fork, ServicePcs, Results
    <3>3. CountsOK'
      BY <2>4 DEF TypeOK, CountsOK, Fork, counts
    <3>4. LossesOK'
      BY <2>4 DEF TypeOK, LossesOK, Fork
    <3> QED
      BY <2>4, <3>1, <3>2, <3>3, <3>4 DEF TypeOK, Fork, row
  <2>5. ASSUME NEW w \in Workers, ForkFails(w)
        PROVE  TypeOK'
    <3>1. HandlersOK'
      BY <2>5 DEF TypeOK, HandlersOK, ForkFails
    <3>2. ChildrenOK'
      BY <2>5 DEF TypeOK, ChildrenOK, ForkFails, children
    <3>3. CountsOK'
      BY <2>5 DEF TypeOK, CountsOK, ForkFails, counts
    <3>4. LossesOK'
      BY <2>5 DEF TypeOK, HandlersOK, LossesOK, ForkFails
    <3> QED
      BY <2>5, <3>1, <3>2, <3>3, <3>4 DEF TypeOK, ForkFails, row
  <2>6. ASSUME NEW s \in Procs, StartMonitor(s)
        PROVE  TypeOK'
    <3>1. HandlersOK'
      BY <2>6 DEF TypeOK, HandlersOK, StartMonitor, handlers
    <3>2. ChildrenOK'
      BY <2>6 DEF TypeOK, ChildrenOK, StartMonitor, ServicePcs, Results
    <3>3. CountsOK'
      BY <2>6 DEF TypeOK, CountsOK, StartMonitor, counts
    <3>4. LossesOK'
      BY <2>6 DEF TypeOK, LossesOK, StartMonitor, losses
    <3> QED
      BY <2>6, <3>1, <3>2, <3>3, <3>4 DEF TypeOK, ChildrenOK, StartMonitor, row
  <2>7. ASSUME NEW s \in Procs, Load(s)
        PROVE  TypeOK'
    <3>1. HandlersOK'
      BY <2>7 DEF TypeOK, HandlersOK, Load, handlers
    <3>2. ChildrenOK'
      BY <2>7 DEF TypeOK, ChildrenOK, Load, ServicePcs, Results
    <3>3. CountsOK'
      BY <2>7 DEF TypeOK, CountsOK, Load, counts
    <3>4. LossesOK'
      BY <2>7 DEF TypeOK, LossesOK, Load, losses
    <3> QED
      BY <2>7, <3>1, <3>2, <3>3, <3>4 DEF TypeOK, Load, row
  <2>8. ASSUME NEW s \in Procs, NEW verdict \in Verdicts,
               Attest(s, verdict)
        PROVE  TypeOK'
    <3>1. HandlersOK'
      BY <2>8 DEF TypeOK, HandlersOK, Attest, handlers
    <3>2. ChildrenOK'
      BY <2>8 DEF TypeOK, ChildrenOK, Attest, ServicePcs, Results
    <3>3. CountsOK'
      <4>1. sprop[s] \in Properties
        BY <2>8 DEF TypeOK, ChildrenOK, Attest
      <4>2. /\ fails' \in [Properties -> 0 .. MaxFails]
            /\ since' \in [Properties -> 0 .. MaxFails]
            /\ \A p \in Properties : since'[p] <= fails'[p]
        <5>1. CASE Failed(verdict)
          <6>1. fails[sprop[s]] + 1 \in 0 .. MaxFails /\ since[sprop[s]] + 1 \in 0 .. MaxFails
            BY <2>8, <4>1, <5>1, BoundsAssumption DEF TypeOK, CountsOK, Attest
          <6>2. /\ fails' = [fails EXCEPT ![sprop[s]] = fails[sprop[s]] + 1]
                /\ since' = [since EXCEPT ![sprop[s]] = since[sprop[s]] + 1]
            BY <2>8, <5>1 DEF Attest
          <6>3. fails' \in [Properties -> 0 .. MaxFails]
            BY <4>1, <6>1, <6>2 DEF TypeOK, CountsOK
          <6>4. since' \in [Properties -> 0 .. MaxFails]
            BY <4>1, <6>1, <6>2 DEF TypeOK, CountsOK
          <6> QED
            BY <4>1, <6>1, <6>2, <6>3, <6>4 DEF TypeOK, CountsOK
        <5>2. CASE ~Failed(verdict)
          BY <2>8, <4>1, <5>2 DEF TypeOK, CountsOK, Attest
        <5> QED
          BY <5>1, <5>2
      <4> QED
        BY <4>2 DEF CountsOK
    <3>4. LossesOK'
      BY <2>8 DEF TypeOK, LossesOK, Attest, losses
    <3> QED
      BY <2>8, <3>1, <3>2, <3>3, <3>4 DEF TypeOK, Attest, row
  <2>9. ASSUME NEW s \in Procs, Record(s)
        PROVE  TypeOK'
    <3>1. HandlersOK'
      BY <2>9 DEF TypeOK, HandlersOK, Record, handlers
    <3>2. ChildrenOK'
      BY <2>9 DEF TypeOK, ChildrenOK, Record, ServicePcs, Results
    <3>3. CountsOK'
      BY <2>9 DEF TypeOK, CountsOK, Record, counts
    <3>4. LossesOK'
      BY <2>9 DEF TypeOK, LossesOK, Record, losses
    <3>5. Split(ssnap[s]) \in [Properties -> Nat] /\ sprop[s] \in Properties
      BY <2>9, ColumnTypes DEF TypeOK, ChildrenOK, Record
    <3>6. protection_results' \in [Properties -> Nat]
      BY <2>9, <3>5, RaiseType DEF Record
    <3> QED
      BY <2>9, <3>1, <3>2, <3>3, <3>4, <3>6 DEF TypeOK, Record, Results
  <2>10. ASSUME NEW s \in Procs, StopMonitor(s)
        PROVE  TypeOK'
    <3>1. HandlersOK'
      BY <2>10 DEF TypeOK, HandlersOK, StopMonitor, handlers
    <3>2. ChildrenOK'
      BY <2>10 DEF TypeOK, ChildrenOK, StopMonitor, ServicePcs, Results
    <3>3. CountsOK'
      BY <2>10 DEF TypeOK, CountsOK, StopMonitor, counts
    <3>4. LossesOK'
      BY <2>10 DEF TypeOK, ChildrenOK, LossesOK, StopMonitor
    <3> QED
      BY <2>10, <3>1, <3>2, <3>3, <3>4 DEF TypeOK, StopMonitor, row
  <2>11. ASSUME NEW s \in Procs, Reset(s)
        PROVE  TypeOK'
    <3>1. HandlersOK'
      BY <2>11 DEF TypeOK, HandlersOK, Reset, handlers
    <3>2. ChildrenOK'
      BY <2>11 DEF TypeOK, ChildrenOK, Reset, ServicePcs, Results
    <3>3. CountsOK'
      <4>1. 0 \in 0 .. MaxFails
        BY BoundsAssumption
      <4>2. since' \in [Properties -> 0 .. MaxFails]
        BY <2>11, <4>1 DEF TypeOK, CountsOK, Reset
      <4>3. \A p \in Properties : since'[p] <= fails'[p]
        BY <2>11 DEF TypeOK, CountsOK, Reset
      <4> QED
        BY <2>11, <4>2, <4>3 DEF TypeOK, CountsOK, Reset
    <3>4. LossesOK'
      BY <2>11 DEF TypeOK, LossesOK, Reset, losses
    <3> QED
      BY <2>11, <3>1, <3>2, <3>3, <3>4 DEF TypeOK, ChildrenOK, Results, Reset
  <2>12. ASSUME NEW s \in Procs, ResetRaises(s)
        PROVE  TypeOK'
    <3>1. HandlersOK'
      BY <2>12 DEF TypeOK, HandlersOK, ResetRaises, handlers
    <3>2. ChildrenOK'
      BY <2>12 DEF TypeOK, ChildrenOK, ResetRaises, ServicePcs, Results
    <3>3. CountsOK'
      BY <2>12 DEF TypeOK, CountsOK, ResetRaises, counts
    <3>4. LossesOK'
      BY <2>12 DEF TypeOK, LossesOK, ResetRaises, losses
    <3> QED
      BY <2>12, <3>1, <3>2, <3>3, <3>4 DEF TypeOK, ResetRaises, row
  <2>13. CASE Reboot
    <3>1. HandlersOK'
      BY <2>13 DEF TypeOK, HandlersOK, Reboot
    <3>2. ChildrenOK'
      BY <2>13 DEF TypeOK, ChildrenOK, Reboot, ServicePcs, Results
    <3>3. CountsOK'
      BY <2>13 DEF TypeOK, CountsOK, Reboot, counts
    <3>4. LossesOK'
      BY <2>13, ColumnTypes DEF TypeOK, LossesOK, Reboot
    <3> QED
      BY <2>13, <3>1, <3>2, <3>3, <3>4, BoundsAssumption DEF TypeOK, Reboot, row
  <2>14. CASE UNCHANGED vars
    BY <2>14 DEF TypeOK, HandlersOK, ChildrenOK, CountsOK, LossesOK,
                 vars, row, handlers, children, counts, losses
  <2> QED
    BY <2>1, <2>2, <2>3, <2>4, <2>5, <2>6, <2>7, <2>8, <2>9, <2>10, <2>11, <2>12,
       <2>13, <2>14 DEF Next, Handler, Child
<1> QED
  BY <1>1, <1>2, PTL DEF Spec

------------------------------------------------------------------------------
(* No count of the row, and none of a snapshot a child is about to write   *)
(* back, exceeds the failures so far; a child about to raise a count was   *)
(* preceded by a failure its snapshot does not yet count.                  *)
PhantomInv ==
    /\ \A p \in Properties : Split(protection_results)[p] <= fails[p]
    /\ \A s \in Procs, p \in Properties : Split(ssnap[s])[p] <= fails[p]
    /\ \A s \in Procs : spc[s] = "record" =>
           Split(ssnap[s])[sprop[s]] < fails[sprop[s]]

(* The steps that leave the counts, the snapshots and the row alone.       *)
LEMMA PhantomStutter ==
    ASSUME TypeOK, PhantomInv,
           UNCHANGED <<protection_results, fails, ssnap>>,
           \A s \in Procs : spc'[s] = "record" =>
               spc[s] = "record" /\ sprop'[s] = sprop[s]
    PROVE  PhantomInv'
BY DEF PhantomInv

(* Whatever the order in which children write the results column back, it  *)
(* never shows more failures of a property than really happened.           *)
THEOREM PhantomFree == Spec => []NoPhantomViolations
<1>1. Init => PhantomInv
  BY DEF Init, PhantomInv, Split
<1>2. TypeOK /\ TypeOK' /\ PhantomInv /\ [Next]_vars => PhantomInv'
  <2> SUFFICES ASSUME TypeOK, TypeOK', PhantomInv, [Next]_vars PROVE PhantomInv'
    OBVIOUS
  <2>1. ASSUME NEW w \in Workers, Handler(w) PROVE PhantomInv'
    <3>1. UNCHANGED <<protection_results, fails, ssnap>>
      BY <2>1 DEF Handler, ReadOld, RejectBody, UpdateRow, Fork, ForkFails,
                  row, children, counts
    <3>2. \A s \in Procs : spc'[s] = "record" =>
              spc[s] = "record" /\ sprop'[s] = sprop[s]
      BY <2>1 DEF TypeOK, ChildrenOK, Handler, ReadOld, RejectBody, UpdateRow, Fork,
                  ForkFails, children
    <3> QED
      BY <3>1, <3>2, PhantomStutter
  <2>2. ASSUME NEW s \in Procs,
               StartMonitor(s) \/ StopMonitor(s) \/ ResetRaises(s)
        PROVE  PhantomInv'
    <3>1. UNCHANGED <<protection_results, fails, ssnap>>
      BY <2>2 DEF StartMonitor, StopMonitor, ResetRaises, row, counts
    <3>2. \A t \in Procs : spc'[t] = "record" =>
              spc[t] = "record" /\ sprop'[t] = sprop[t]
      BY <2>2 DEF TypeOK, ChildrenOK, StartMonitor, StopMonitor, ResetRaises
    <3> QED
      BY <3>1, <3>2, PhantomStutter
  <2>3. ASSUME NEW s \in Procs, Load(s) PROVE PhantomInv'
    BY <2>3 DEF TypeOK, ChildrenOK, PhantomInv, Load, row, counts
  <2>4. ASSUME NEW s \in Procs, NEW verdict \in Verdicts, Attest(s, verdict)
        PROVE  PhantomInv'
    <3>1. /\ sprop[s] \in Properties
          /\ \A t \in Procs : Split(ssnap[t]) \in [Properties -> Nat]
          /\ Split(protection_results) \in [Properties -> Nat]
      BY <2>4, ColumnTypes DEF TypeOK, ChildrenOK, Attest
    <3>2. \A p \in Properties : fails'[p] >= fails[p]
      BY <2>4, <3>1 DEF TypeOK, CountsOK, Attest
    <3>3. UNCHANGED <<protection_results, ssnap, sprop>>
      BY <2>4 DEF Attest, row
    <3>4. fails \in [Properties -> Nat] /\ fails' \in [Properties -> Nat]
      BY BoundsAssumption DEF TypeOK, CountsOK
    <3>5. ASSUME NEW t \in Procs, spc'[t] = "record"
          PROVE  Split(ssnap[t])[sprop[t]] < fails'[sprop[t]]
      <4>1. CASE spc[t] = "record"
        BY <3>1, <3>2, <3>4, <4>1 DEF PhantomInv, TypeOK, ChildrenOK
      <4>2. CASE spc[t] # "record"
        <5>1. t = s /\ Failed(verdict)
          BY <2>4, <3>5, <4>2 DEF TypeOK, ChildrenOK, Attest
        <5>2. fails'[sprop[s]] = fails[sprop[s]] + 1
          BY <2>4, <3>1, <5>1 DEF TypeOK, CountsOK, Attest
        <5> QED
          BY <3>1, <3>4, <5>1, <5>2 DEF PhantomInv
      <4> QED
        BY <4>1, <4>2
    <3> QED
      BY <3>1, <3>2, <3>3, <3>4, <3>5 DEF PhantomInv
  <2>5. ASSUME NEW s \in Procs, Record(s) PROVE PhantomInv'
    <3>1. /\ sprop[s] \in Properties
          /\ Split(ssnap[s]) \in [Properties -> Nat]
          /\ fails \in [Properties -> Nat]
      BY <2>5, ColumnTypes, BoundsAssumption DEF TypeOK, ChildrenOK, CountsOK, Record
    <3>2. /\ protection_results' \in [Properties -> Nat]
          /\ protection_results'[sprop[s]] = Split(ssnap[s])[sprop[s]] + 1
          /\ \A q \in Properties \ {sprop[s]} :
                 protection_results'[q] = Split(ssnap[s])[q]
      BY <2>5, <3>1, RaiseType DEF Record
    <3>3. Split(protection_results') = protection_results'
      BY <3>2, NullIsNoValue DEF Split
    <3>4. \A p \in Properties : Split(protection_results')[p] <= fails[p]
      BY <2>5, <3>1, <3>2, <3>3 DEF PhantomInv, Record
    <3>5. fails' = fails
      BY <2>5 DEF Record, counts
    <3>6. \A t \in Procs, p \in Properties : Split(ssnap'[t])[p] <= fails[p]
      BY <2>5, <3>1 DEF PhantomInv, Record, Split, TypeOK, ChildrenOK
    <3>7. \A t \in Procs : spc'[t] = "record" =>
              t # s /\ spc[t] = "record" /\ sprop'[t] = sprop[t] /\ ssnap'[t] = ssnap[t]
      BY <2>5 DEF Record, TypeOK, ChildrenOK
    <3> QED
      BY <3>4, <3>5, <3>6, <3>7 DEF PhantomInv
  <2>6. ASSUME NEW s \in Procs, Reset(s) PROVE PhantomInv'
    <3>1. /\ sprop[s] \in Properties
          /\ ssnap[s] \in [Properties -> Nat]
          /\ Split(ssnap[s]) = ssnap[s]
          /\ fails \in [Properties -> Nat]
      BY <2>6, NullIsNoValue, BoundsAssumption
         DEF TypeOK, ChildrenOK, CountsOK, Reset, Results, Split
    <3>2. /\ protection_results' \in [Properties -> Nat]
          /\ \A q \in Properties : protection_results'[q] <= ssnap[s][q]
      BY <2>6, <3>1 DEF Reset
    <3>3. Split(protection_results') = protection_results'
      BY <3>2, NullIsNoValue DEF Split
    <3>4. \A p \in Properties : Split(protection_results')[p] <= fails[p]
      BY <3>1, <3>2, <3>3 DEF PhantomInv
    <3>5. fails' = fails
      BY <2>6 DEF Reset
    <3>6. \A t \in Procs, p \in Properties : Split(ssnap'[t])[p] <= fails[p]
      BY <2>6, <3>1 DEF PhantomInv, Reset, Split, TypeOK, ChildrenOK
    <3>7. \A t \in Procs : spc'[t] = "record" =>
              spc[t] = "record" /\ sprop'[t] = sprop[t] /\ ssnap'[t] = ssnap[t]
      BY <2>6 DEF Reset, TypeOK, ChildrenOK
    <3> QED
      BY <3>4, <3>5, <3>6, <3>7 DEF PhantomInv
  <2>7. CASE Reboot
    <3>1. fails \in [Properties -> Nat]
      BY BoundsAssumption DEF TypeOK, CountsOK
    <3> QED
      BY <2>7, <3>1 DEF PhantomInv, Reboot, Split, row, counts
  <2>8. CASE UNCHANGED vars
    BY <2>8 DEF PhantomInv, vars, row, children, counts
  <2> QED
    BY <2>1, <2>2, <2>3, <2>4, <2>5, <2>6, <2>7, <2>8 DEF Next, Child
<1>3. PhantomInv => NoPhantomViolations
  BY DEF PhantomInv, NoPhantomViolations, Count
<1> QED
  BY <1>1, <1>2, <1>3, TypeCorrect, PTL DEF Spec

------------------------------------------------------------------------------
(* A child that neither moves past the stop command nor is replaced still  *)
(* owns the monitors it owned.                                             *)
LEMMA OwnersKept ==
    ASSUME MonitorIsOwned,
           monitor' \subseteq monitor,
           abandoned \subseteq abandoned',
           \A s \in Procs, p \in monitor' : Owns(s, p) => Owns(s, p)'
    PROVE  MonitorIsOwned'
BY DEF MonitorIsOwned

(* However starts and stops of successive children interleave, a running   *)
(* monitor has a child that will still send its stop command, unless that  *)
(* command or the child was lost.                                          *)
THEOREM MonitorsOwned == Spec => []MonitorIsOwned
<1>1. Init => MonitorIsOwned
  BY DEF Init, MonitorIsOwned
<1>2. TypeOK /\ MonitorIsOwned /\ [Next]_vars => MonitorIsOwned'
  <2> SUFFICES ASSUME TypeOK, MonitorIsOwned, [Next]_vars PROVE MonitorIsOwned'
    OBVIOUS
  <2>1. ASSUME NEW w \in Workers, Handler(w) PROVE MonitorIsOwned'
    <3>1. UNCHANGED <<monitor, abandoned>>
      BY <2>1 DEF Handler, ReadOld, RejectBody, UpdateRow, Fork, ForkFails, losses
    <3>2. \A s \in Procs, p \in monitor : Owns(s, p) => Owns(s, p)'
      BY <2>1 DEF TypeOK, ChildrenOK, Owns, Handler, ReadOld, RejectBody, UpdateRow,
                  Fork, ForkFails, children
    <3> QED
      BY <3>1, <3>2, OwnersKept
  <2>2. ASSUME NEW s \in Procs, StartMonitor(s) PROVE MonitorIsOwned'
    <3>1. \A p : p = sprop[s] => Owns(s, p)'
      BY <2>2 DEF TypeOK, ChildrenOK, Owns, StartMonitor
    <3>2. \A t \in Procs, p \in monitor : Owns(t, p) => Owns(t, p)'
      BY <2>2 DEF TypeOK, ChildrenOK, Owns, StartMonitor
    <3>3. monitor' \subseteq monitor \cup {sprop[s]} /\ abandoned' = abandoned
      BY <2>2 DEF StartMonitor, losses
    <3> QED
      BY <3>1, <3>2, <3>3 DEF MonitorIsOwned
  <2>3. ASSUME NEW s \in Procs, Load(s) PROVE MonitorIsOwned'
    <3>1. \A t \in Procs, p \in monitor : Owns(t, p) => Owns(t, p)'
      BY <2>3 DEF TypeOK, ChildrenOK, Owns, Load
    <3> QED
      BY <2>3, <3>1, OwnersKept DEF Load, losses
  <2>4. ASSUME NEW s \in Procs, NEW verdict \in Verdicts, Attest(s, verdict)
        PROVE  MonitorIsOwned'
    <3>1. \A t \in Procs, p \in monitor : Owns(t, p) => Owns(t, p)'
      BY <2>4 DEF TypeOK, ChildrenOK, Owns, Attest
    <3> QED
      BY <2>4, <3>1, OwnersKept DEF Attest, losses
  <2>5. ASSUME NEW s \in Procs, Record(s) PROVE MonitorIsOwned'
    <3>1. \A t \in Procs, p \in monitor : Owns(t, p) => Owns(t, p)'
      BY <2>5 DEF TypeOK, ChildrenOK, Owns, Record
    <3> QED
      BY <2>5, <3>1, OwnersKept DEF Record, losses
  <2>6. ASSUME NEW s \in Procs, StopMonitor(s) PROVE MonitorIsOwned'
    <3>1. \A t \in Procs, p \in monitor \ {sprop[s]} : Owns(t, p) => Owns(t, p)'
      BY <2>6 DEF TypeOK, ChildrenOK, Owns, StopMonitor
    <3> QED
      BY <2>6, <3>1 DEF MonitorIsOwned, StopMonitor
  <2>7. ASSUME NEW s \in Procs, Reset(s) \/ ResetRaises(s) PROVE MonitorIsOwned'
    <3>1. \A t \in Procs, p \in monitor : Owns(t, p) => Owns(t, p)'
      BY <2>7 DEF TypeOK, ChildrenOK, Owns, Reset, ResetRaises
    <3> QED
      BY <2>7, <3>1, OwnersKept DEF Reset, ResetRaises, losses
  <2>8. CASE Reboot
    BY <2>8 DEF MonitorIsOwned, Reboot
  <2>9. CASE UNCHANGED vars
    BY <2>9 DEF MonitorIsOwned, Owns, vars, children, losses
  <2> QED
    BY <2>1, <2>2, <2>3, <2>4, <2>5, <2>6, <2>7, <2>8, <2>9 DEF Next, Child
<1> QED
  BY <1>1, <1>2, TypeCorrect, PTL DEF Spec

------------------------------------------------------------------------------
(* With one handler at a time, the list it read before its UPDATE is still *)
(* the committed one, and only a handler in its fork loop has forks to do. *)
ServedInv ==
    /\ EnabledIsServed
    /\ \A w \in Workers : wpc[w] = "update" => wold[w] = Enabled(protection)
    /\ \A w \in Workers : wpc[w] # "fork" => wtodo[w] = {}

(* When a single worker process handles changeProtection, no toggling of a *)
(* property leaves it enabled without a child, failed forks and reboots    *)
(* apart.                                                                  *)
THEOREM SingleWorkerServes ==
    ASSUME \A v, w \in Workers : v = w
    PROVE  Spec => []EnabledIsServed
<1>1. Init => ServedInv
  BY DEF Init, ServedInv, EnabledIsServed, Enabled
<1>2. TypeOK /\ ServedInv /\ [Next]_vars => ServedInv'
  <2> SUFFICES ASSUME TypeOK, ServedInv, [Next]_vars PROVE ServedInv'
    OBVIOUS
  <2>1. ASSUME NEW w \in Workers, NEW want \in SUBSET Properties, ReadOld(w, want)
        PROVE  ServedInv'
    BY <2>1 DEF ServedInv, EnabledIsServed, Serves, ReadOld, TypeOK, HandlersOK,
                row, children, losses
  <2>2. ASSUME NEW w \in Workers, RejectBody(w) PROVE ServedInv'
    BY <2>2 DEF ServedInv, EnabledIsServed, Serves, RejectBody, TypeOK, HandlersOK,
                row, children, losses
  <2>3. ASSUME NEW w \in Workers, UpdateRow(w) PROVE ServedInv'
    <3>1. /\ wtodo[w] = {} /\ wold[w] = Enabled(protection)
          /\ Enabled(protection') = wnew[w]
          /\ wtodo'[w] = wnew[w] \ wold[w]
      BY <2>3, NullIsNoValue DEF ServedInv, UpdateRow, TypeOK, HandlersOK, Enabled
    <3>2. UNCHANGED <<children, unserved>>
      BY <2>3 DEF UpdateRow, losses
    <3>3. EnabledIsServed'
      BY <3>1, <3>2 DEF ServedInv, EnabledIsServed, Serves, children
    <3>4. \A v \in Workers : v = w
      OBVIOUS
    <3> QED
      BY <2>3, <3>1, <3>3, <3>4 DEF ServedInv, UpdateRow, TypeOK, HandlersOK
  <2>4. ASSUME NEW w \in Workers, NEW s \in Procs, NEW p \in Properties, Fork(w, s, p)
        PROVE  ServedInv'
    <3>1. Serves(s, p)'
      BY <2>4 DEF Serves, Fork, TypeOK, ChildrenOK
    <3>2. \A t \in Procs, q \in Properties : Serves(t, q) => Serves(t, q)'
      BY <2>4 DEF Serves, Fork, TypeOK, ChildrenOK
    <3>3. /\ UNCHANGED <<protection, wold>> /\ unserved' = unserved \ {p}
          /\ \A v \in Workers : wtodo[v] \subseteq wtodo'[v] \cup {p}
      BY <2>4 DEF Fork, TypeOK, HandlersOK, row
    <3>4. EnabledIsServed'
      BY <3>1, <3>2, <3>3, ColumnTypes DEF ServedInv, EnabledIsServed, TypeOK
    <3> QED
      BY <2>4, <3>3, <3>4 DEF ServedInv, Fork, TypeOK, HandlersOK
  <2>5. ASSUME NEW w \in Workers, ForkFails(w) PROVE ServedInv'
    BY <2>5 DEF ServedInv, EnabledIsServed, Serves, ForkFails, TypeOK, HandlersOK,
                row, children
  <2>6. ASSUME NEW s \in Procs, Child(s) PROVE ServedInv'
    <3>1. UNCHANGED <<protection, handlers, unserved>>
      BY <2>6 DEF Child, StartMonitor, Load, Attest, Record, StopMonitor, Reset,
                  ResetRaises, row, losses
    <3>2. \A t \in Procs, p \in Enabled(protection) : Serves(t, p) => Serves(t, p)'
      <4>1. CASE StartMonitor(s) \/ Load(s) \/ Record(s)
        BY <4>1 DEF Serves, TypeOK, ChildrenOK, StartMonitor, Load, Record
      <4>2. ASSUME NEW verdict \in Verdicts, Attest(s, verdict)
            PROVE  \A t \in Procs, p \in Enabled(protection) : Serves(t, p) => Serves(t, p)'
        BY <4>2 DEF Serves, TypeOK, ChildrenOK, Attest
      <4>3. CASE StopMonitor(s) \/ Reset(s) \/ ResetRaises(s)
        BY <4>3 DEF Serves, TypeOK, ChildrenOK, StopMonitor, Reset, ResetRaises
      <4> QED
        BY <2>6, <4>1, <4>2, <4>3 DEF Child
    <3> QED
      BY <3>1, <3>2 DEF ServedInv, EnabledIsServed, handlers
  <2>7. CASE Reboot
    BY <2>7 DEF ServedInv, EnabledIsServed, Reboot, row
  <2>8. CASE UNCHANGED vars
    BY <2>8 DEF ServedInv, EnabledIsServed, Serves, vars, row, handlers, children, losses
  <2> QED
    BY <2>1, <2>2, <2>3, <2>4, <2>5, <2>6, <2>7, <2>8 DEF Next, Handler
<1>3. ServedInv => EnabledIsServed
  BY DEF ServedInv
<1> QED
  BY <1>1, <1>2, <1>3, TypeCorrect, PTL DEF Spec
------------------------------------------------------------------------------
(* While no two children have lived together and the controller is up, the *)
(* one child that runs works on a snapshot that is still the row.          *)
Raised(s, p) == IF spc[s] = "record" /\ sprop[s] = p THEN 1 ELSE 0

SoleChild ==
    /\ \A s, t \in Procs : Running(s) /\ Running(t) => s = t
    /\ \A s \in Procs : spc[s] \in {"attest", "record", "stop", "reset"} =>
           ssnap[s] = protection_results
    /\ \A s \in Procs : spc[s] = "record" =>
           \A p \in Properties : since[p] = Count(p) + Raised(s, p)
    /\ (\A s \in Procs : spc[s] # "record") => \A p \in Properties : since[p] = Count(p)

SoleInv == ~overlapped /\ reboots = 0 => SoleChild

(* The number of children about to write a failure of p is what the one    *)
(* child that runs makes it.                                               *)
LEMMA UnwrittenBySole ==
    ASSUME \A s, t \in Procs : Running(s) /\ Running(t) => s = t, NEW p \in Properties
    PROVE  /\ (\A s \in Procs : spc[s] # "record") => Unwritten(p) = 0
           /\ \A s \in Procs : spc[s] = "record" => Unwritten(p) = Raised(s, p)
<1> DEFINE S == {t \in Procs : sprop[t] = p /\ spc[t] = "record"}
<1>1. ASSUME \A s \in Procs : spc[s] # "record" PROVE Unwritten(p) = 0
  <2>1. S = {}
    BY <1>1
  <2> QED
    BY <2>1, FS_EmptySet DEF Unwritten
<1>2. ASSUME NEW s \in Procs, spc[s] = "record" PROVE Unwritten(p) = Raised(s, p)
  <2>1. \A t \in Procs : spc[t] = "record" => t = s
    BY <1>2 DEF Running, Ended
  <2>2. CASE sprop[s] = p
    <3>1. S = {s}
      BY <1>2, <2>1, <2>2
    <3> QED
      BY <1>2, <2>2, <3>1, FS_Singleton DEF Unwritten, Raised
  <2>3. CASE sprop[s] # p
    <3>1. S = {}
      BY <2>1, <2>3
    <3> QED
      BY <2>3, <3>1, FS_EmptySet DEF Unwritten, Raised
  <2> QED
    BY <2>2, <2>3
<1> QED
  BY <1>1, <1>2

(* A step that neither counts, writes nor starts anything.                 *)
LEMMA SoleKept ==
    ASSUME SoleInv, UNCHANGED <<protection_results, since>>,
           overlapped => overlapped', reboots' = reboots,
           \A s \in Procs :
              /\ Running(s)' => Running(s)
              /\ spc'[s] \in {"attest", "record", "stop", "reset"} =>
                    ssnap'[s] = ssnap[s] /\ spc[s] \in {"attest", "record", "stop", "reset"}
              /\ spc'[s] = "record" <=> spc[s] = "record"
              /\ spc'[s] = "record" => sprop'[s] = sprop[s]
    PROVE  SoleInv'
<1> SUFFICES ASSUME SoleChild PROVE SoleChild'
  BY DEF SoleInv
<1>1. \A s, t \in Procs : Running(s)' /\ Running(t)' => s = t
  BY DEF SoleChild
<1>2. \A s \in Procs : spc'[s] \in {"attest", "record", "stop", "reset"} =>
         ssnap'[s] = protection_results'
  BY DEF SoleChild
<1>3. \A p \in Properties : Count(p)' = Count(p)
  BY DEF Count
<1>4. \A s \in Procs : spc'[s] = "record" =>
         \A p \in Properties : since'[p] = Count(p)' + Raised(s, p)'
  BY <1>3 DEF SoleChild, Raised
<1>5. (\A s \in Procs : spc'[s] # "record") => \A p \in Properties : since'[p] = Count(p)'
  BY <1>3 DEF SoleChild
<1> QED
  BY <1>1, <1>2, <1>4, <1>5 DEF SoleChild

(* As long as no two children were ever alive together, the row counts     *)
(* exactly the failures since the property was last disabled.              *)
THEOREM SoleChildCounts == Spec => []CountIsExact
<1>1. Init => SoleInv
  <2> SUFFICES ASSUME Init PROVE SoleChild
    BY DEF SoleInv
  <2>1. \A p \in Properties : since[p] = Count(p)
    BY DEF Init, Count, Split
  <2> QED
    BY <2>1 DEF Init, SoleChild, Running, Ended
<1>2. TypeOK /\ TypeOK' /\ SoleInv /\ [Next]_vars => SoleInv'
  <2> SUFFICES ASSUME TypeOK, TypeOK', SoleInv, [Next]_vars PROVE SoleInv'
    OBVIOUS
  <2>t. /\ spc \in [Procs -> ServicePcs] /\ sprop \in [Procs -> Properties \cup {NULL}]
        /\ ssnap \in [Procs -> Results] /\ since \in [Properties -> Nat]
        /\ Split(protection_results) \in [Properties -> Nat]
    BY ColumnTypes, BoundsAssumption DEF TypeOK, ChildrenOK, CountsOK
  <2>1. ASSUME NEW w \in Workers, NEW want \in SUBSET Properties,
               ReadOld(w, want) \/ RejectBody(w) \/ UpdateRow(w) \/ ForkFails(w)
        PROVE  SoleInv'
    <3>1. UNCHANGED <<protection_results, since, overlapped, reboots, spc, sprop, ssnap>>
      BY <2>1 DEF ReadOld, RejectBody, UpdateRow, ForkFails, row, children, counts, losses
    <3>2. \A s \in Procs : Running(s)' => Running(s)
      BY <3>1 DEF Running
    <3> QED
      BY <3>1, <3>2, SoleKept
  <2>2. ASSUME NEW w \in Workers, NEW s \in Procs, NEW p \in Properties, Fork(w, s, p)
        PROVE  SoleInv'
    <3> SUFFICES ASSUME ~overlapped', reboots' = 0 PROVE SoleChild'
      BY DEF SoleInv
    <3>1. SoleChild /\ \A t \in Procs : ~Running(t)
      BY <2>2 DEF SoleInv, Fork
    <3>2. /\ spc'[s] \in {"start", "load"} /\ UNCHANGED <<protection_results, since>>
          /\ \A t \in Procs : t # s => spc'[t] = spc[t]
      BY <2>2, <2>t DEF Fork, row, counts
    <3>3. \A t \in Procs : t # s => ~Running(t)'
      BY <3>1, <3>2 DEF Running
    <3>4. \A t \in Procs : spc'[t] \notin {"attest", "record", "stop", "reset"}
      BY <3>2, <3>3 DEF Running, Ended
    <3>5. \A t \in Procs : spc[t] # "record"
      BY <3>1 DEF Running, Ended
    <3>6. \A q \in Properties : since'[q] = Count(q)'
      BY <3>1, <3>2, <3>5 DEF SoleChild, Count
    <3> QED
      BY <3>3, <3>4, <3>6 DEF SoleChild
  <2>3. ASSUME NEW s \in Procs, StartMonitor(s) \/ StopMonitor(s) \/ ResetRaises(s)
        PROVE  SoleInv'
    <3>1. UNCHANGED <<protection_results, since, overlapped, reboots, sprop, ssnap>>
      BY <2>3 DEF StartMonitor, StopMonitor, ResetRaises, row, counts, losses
    <3>2. /\ \A t \in Procs : t # s => spc'[t] = spc[t]
          /\ \/ spc[s] = "start" /\ spc'[s] = "load"
             \/ spc[s] \in {"stop", "reset"} /\ spc'[s] \in {"reset", "crashed"}
      BY <2>3, <2>t DEF StartMonitor, StopMonitor, ResetRaises
    <3>3. \A t \in Procs : Running(t)' => Running(t)
      BY <3>2 DEF Running, Ended
    <3> QED
      BY <3>1, <3>2, <3>3, SoleKept
  <2>4. ASSUME NEW s \in Procs, Load(s) PROVE SoleInv'
    <3>1. UNCHANGED <<protection_results, since, overlapped, reboots, sprop>>
      BY <2>4 DEF Load, row, counts, losses
    <3>2. /\ spc[s] = "load" /\ spc'[s] \in {"attest", "stop", "reset"}
          /\ ssnap'[s] = protection_results
          /\ \A t \in Procs : t # s => spc'[t] = spc[t] /\ ssnap'[t] = ssnap[t]
      BY <2>4, <2>t DEF Load
    <3> SUFFICES ASSUME SoleChild PROVE SoleChild'
      BY <3>1 DEF SoleInv
    <3>3. \A t \in Procs : Running(t)' => Running(t)
      BY <3>2 DEF Running, Ended
    <3>4. \A t \in Procs : spc[t] # "record" /\ spc'[t] # "record"
      BY <3>2 DEF SoleChild, Running, Ended
    <3>5. \A q \in Properties : since'[q] = Count(q)'
      BY <3>1, <3>4 DEF SoleChild, Count
    <3>6. \A t \in Procs : spc'[t] \in {"attest", "record", "stop", "reset"} =>
             ssnap'[t] = protection_results'
      BY <3>1, <3>2 DEF SoleChild
    <3> QED
      BY <3>3, <3>4, <3>5, <3>6 DEF SoleChild
  <2>5. ASSUME NEW s \in Procs, NEW verdict \in Verdicts, Attest(s, verdict)
        PROVE  SoleInv'
    <3>1. UNCHANGED <<protection_results, overlapped, reboots, sprop, ssnap>>
      BY <2>5 DEF Attest, row, losses
    <3>2. /\ spc[s] = "attest" /\ sprop[s] \in Properties
          /\ spc'[s] = IF Failed(verdict) THEN "record" ELSE "load"
          /\ \A t \in Procs : t # s => spc'[t] = spc[t]
      BY <2>5, <2>t DEF Attest, TypeOK, ChildrenOK
    <3>3. \A q \in Properties : since'[q] =
             IF Failed(verdict) /\ q = sprop[s] THEN since[q] + 1 ELSE since[q]
      BY <2>5, <2>t DEF Attest
    <3> SUFFICES ASSUME SoleChild PROVE SoleChild'
      BY <3>1 DEF SoleInv
    <3>4. \A t \in Procs : Running(t)' => Running(t)
      BY <3>2 DEF Running, Ended
    <3>5. \A t \in Procs : spc[t] # "record" /\ (t # s => spc'[t] # "record")
      BY <3>2 DEF SoleChild, Running, Ended
    <3>6. \A q \in Properties : since[q] = Count(q) /\ Count(q)' = Count(q) /\ Count(q) \in Nat
      BY <2>t, <3>1, <3>5 DEF SoleChild, Count
    <3>7. \A t \in Procs : spc'[t] = "record" =>
             \A q \in Properties : since'[q] = Count(q)' + Raised(t, q)'
      <4> SUFFICES ASSUME spc'[s] = "record", NEW q \in Properties
                   PROVE  since'[q] = Count(q)' + Raised(s, q)'
        BY <3>5
      <4>1. Failed(verdict)
        BY <3>2
      <4>2. Raised(s, q)' = IF q = sprop[s] THEN 1 ELSE 0
        BY <3>1 DEF Raised
      <4> QED
        BY <3>3, <3>6, <4>1, <4>2
    <3>8. (\A t \in Procs : spc'[t] # "record") => \A q \in Properties : since'[q] = Count(q)'
      BY <3>2, <3>3, <3>6
    <3>9. \A t \in Procs : spc'[t] \in {"attest", "record", "stop", "reset"} =>
             ssnap'[t] = protection_results'
      BY <3>1, <3>2 DEF SoleChild
    <3> QED
      BY <3>4, <3>7, <3>8, <3>9 DEF SoleChild
  <2>6. ASSUME NEW s \in Procs, Record(s) PROVE SoleInv'
    <3>1. UNCHANGED <<since, overlapped, reboots, sprop>>
      BY <2>6 DEF Record, counts, losses
    <3>2. /\ spc[s] = "record" /\ sprop[s] \in Properties /\ spc'[s] = "load"
          /\ \A t \in Procs : t # s => spc'[t] = spc[t] /\ ssnap'[t] = ssnap[t]
      BY <2>6, <2>t DEF Record, TypeOK, ChildrenOK
    <3> SUFFICES ASSUME SoleChild PROVE SoleChild'
      BY <3>1 DEF SoleInv
    <3>3. protection_results' = [Split(protection_results) EXCEPT ![sprop[s]] = @ + 1]
      BY <2>6, <3>2 DEF Record, SoleChild
    <3>4. /\ protection_results' \in [Properties -> Nat]
          /\ protection_results'[sprop[s]] = Split(protection_results)[sprop[s]] + 1
          /\ \A q \in Properties \ {sprop[s]} :
                 protection_results'[q] = Split(protection_results)[q]
      BY <2>t, <3>2, <3>3, RaiseType
    <3>5. Split(protection_results') = protection_results'
      BY <3>4, NullIsNoValue DEF Split
    <3>6. \A q \in Properties : Count(q)' = Count(q) + Raised(s, q)
      BY <2>t, <3>2, <3>4, <3>5 DEF Count, Raised
    <3>7. \A q \in Properties : since'[q] = Count(q)'
      BY <3>1, <3>2, <3>6 DEF SoleChild
    <3>8. \A t \in Procs : Running(t)' => Running(t)
      BY <3>2 DEF Running, Ended
    <3>9. \A t \in Procs : spc'[t] \notin {"attest", "record", "stop", "reset"}
      BY <3>2 DEF SoleChild, Running, Ended
    <3> QED
      BY <3>7, <3>8, <3>9 DEF SoleChild
  <2>7. ASSUME NEW s \in Procs, Reset(s) PROVE SoleInv'
    <3>1. UNCHANGED <<overlapped, reboots, sprop>>
      BY <2>7 DEF Reset, losses
    <3>2. /\ spc[s] = "reset" /\ sprop[s] \in Properties /\ spc'[s] = "exited"
          /\ \A t \in Procs : t # s => spc'[t] = spc[t] /\ ssnap'[t] = ssnap[t]
      BY <2>7, <2>t DEF Reset, TypeOK, ChildrenOK
    <3> SUFFICES ASSUME SoleChild PROVE SoleChild'
      BY <3>1 DEF SoleInv
    <3>3. ssnap[s] = protection_results /\ protection_results # NULL
      BY <2>7, <3>2 DEF Reset, SoleChild
    <3>4. protection_results \in [Properties -> Nat] /\ Split(protection_results) = protection_results
      BY <3>3 DEF TypeOK, Results, Split
    <3>5. /\ protection_results' \in [Properties -> Nat]
          /\ protection_results'[sprop[s]] = 0
          /\ \A q \in Properties \ {sprop[s]} : protection_results'[q] = protection_results[q]
      BY <2>7, <3>2, <3>3, <3>4 DEF Reset
    <3>6. Split(protection_results') = protection_results'
      BY <3>5, NullIsNoValue DEF Split
    <3>7. \A t \in Procs : spc[t] # "record"
      BY <3>2 DEF SoleChild, Running, Ended
    <3>8. \A q \in Properties : since[q] = Count(q)
      BY <3>7 DEF SoleChild
    <3>9. since' = [since EXCEPT ![sprop[s]] = 0]
      BY <2>7 DEF Reset
    <3>10. \A q \in Properties : since'[q] = Count(q)'
      BY <2>t, <3>2, <3>4, <3>5, <3>6, <3>8, <3>9 DEF Count
    <3>11. \A t \in Procs : Running(t)' => Running(t)
      BY <3>2 DEF Running, Ended
    <3>12. \A t \in Procs : spc'[t] \notin {"attest", "record", "stop", "reset"}
      BY <3>2 DEF SoleChild, Running, Ended
    <3> QED
      BY <3>10, <3>11, <3>12 DEF SoleChild
  <2>8. CASE Reboot
    BY <2>8 DEF SoleInv, Reboot, TypeOK
  <2>9. CASE UNCHANGED vars
    BY <2>9 DEF SoleInv, SoleChild, Running, Raised, Count, vars, row, children, counts, losses
  <2> QED
    BY <2>1, <2>2, <2>3, <2>4, <2>5, <2>6, <2>7, <2>8, <2>9 DEF Next, Handler, Child
<1>3. TypeOK /\ SoleInv => CountIsExact
  <2> SUFFICES ASSUME TypeOK, SoleChild, NEW p \in Properties
               PROVE  Count(p) + Unwritten(p) = since[p]
    BY DEF SoleInv, CountIsExact
  <2>1. Count(p) \in Nat
    BY ColumnTypes DEF Count, TypeOK
  <2>2. CASE \A s \in Procs : spc[s] # "record"
    BY <2>1, <2>2, UnwrittenBySole DEF SoleChild
  <2>3. CASE \E s \in Procs : spc[s] = "record"
    BY <2>1, <2>3, UnwrittenBySole DEF SoleChild
  <2> QED
    BY <2>2, <2>3
<1> QED
  BY <1>1, <1>2, <1>3, TypeCorrect, PTL DEF Spec

==============================================================================
