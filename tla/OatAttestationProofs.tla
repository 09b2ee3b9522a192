------------------------ MODULE OatAttestationProofs ------------------------
(***************************************************************************)
(* Proofs about OatAttestation for any sets of hosts, calls and security   *)
(* properties and any number of requests.                                  *)
(***************************************************************************)
EXTENDS OatAttestation, TLAPS

(* The row that addRequests files is a row.                                *)
LEMMA NewRow ==
    ASSUME NEW h \in Hosts, NEW p \in Properties, NEW b \in BOOLEAN
    PROVE  [host |-> h, property |-> p, cert |-> b, nextAction |-> "SEND_REPORT",
            consumed |-> FALSE, auditLog |-> NULL, result |-> NULL] \in Rows
BY DEF Rows, Actions

(* The copy that pollHosts writes back: the row it fetched with a result.  *)
LEMMA CopyWritten ==
    ASSUME NEW r \in Rows, NEW v \in Results
    PROVE  /\ [r EXCEPT !.result = v] \in Rows
           /\ [r EXCEPT !.result = v].host = r.host
           /\ [r EXCEPT !.result = v].cert = r.cert
           /\ [r EXCEPT !.result = v].consumed = r.consumed
           /\ [r EXCEPT !.result = v].auditLog = r.auditLog
           /\ [r EXCEPT !.result = v].result = v
BY DEF Rows

(* The row that getNextAction writes back.                                 *)
LEMMA RowConsumed ==
    ASSUME NEW r \in Rows
    PROVE  LET n == [r EXCEPT !.nextAction = "DO_NOTHING", !.consumed = TRUE]
           IN  /\ n \in Rows
               /\ n.host = r.host
               /\ n.nextAction = "DO_NOTHING"
               /\ n.consumed = TRUE
               /\ n.auditLog = r.auditLog
               /\ n.result = r.result
BY DEF Rows, Actions

(* The report an agent starts with the nonce, and what quoting makes it.   *)
LEMMA NonceReport ==
    ASSUME NEW i \in Ids, NEW p \in Properties, NEW m \in [Interpreted -> Measurements]
    PROVE  LET n == [about |-> i, property |-> p, valid |-> FALSE, white |-> FALSE, pcr |-> m]
           IN  n \in Reports /\ n.about = i
BY DEF Reports

\* A report whose quote is checked stays a report.
LEMMA ReportQuoted ==
    ASSUME NEW r \in Reports, NEW v \in BOOLEAN, NEW w \in BOOLEAN,
           NEW m \in [Interpreted -> Measurements]
    PROVE  LET n == [r EXCEPT !.valid = v, !.white = w, !.pcr = m]
           IN  n \in Reports /\ n.about = r.about
BY DEF Reports

(* The row that submitReport writes back.                                  *)
LEMMA RowAppraised ==
    ASSUME NEW r \in Rows, NEW a \in Reports, NEW v \in {"TRUSTED", "UN_TRUSTED"}
    PROVE  LET n == [r EXCEPT !.auditLog = a, !.result = v]
           IN  /\ n \in Rows
               /\ n.host = r.host
               /\ n.nextAction = r.nextAction
               /\ n.consumed = r.consumed
               /\ n.auditLog = a
               /\ n.result = v
BY DEF Rows, Results

(* An UPDATE of a filed row leaves the table typed and the others alone.   *)
LEMMA UpdateRequest ==
    ASSUME RowsOK, NEW i \in Filed, NEW r \in Rows,
           rows' = [rows EXCEPT ![i] = r], UNCHANGED <<nrows, enrolled, expired>>
    PROVE  /\ RowsOK'
           /\ rows'[i] = r
           /\ \A j \in Filed : j # i => rows'[j] = rows[j]
<1>1. i \in Ids
  BY MaxRequestsAssumption DEF RowsOK, Filed, Ids
<1>2. \A j \in Filed : j \in Ids
  BY MaxRequestsAssumption DEF RowsOK, Filed, Ids
<1> QED
  BY <1>1, <1>2 DEF RowsOK, Filed

(* The table, the agents and the history variables stay typed when an     *)
(* agent takes a step or a host is enrolled, whatever the calls hold.      *)
LEMMA AgentTypeStep ==
    ASSUME RowsOK, AgentsOK, HistoryOK, NEW h \in Hosts, Agent(h) \/ Enroll(h)
    PROVE  (RowsOK /\ AgentsOK /\ HistoryOK)'
<1> DEFINE Typed == RowsOK /\ AgentsOK /\ HistoryOK
<1>1. ASSUME DoNothing(h)
      PROVE  Typed'
  BY <1>1 DEF RowsOK, AgentsOK, HistoryOK, DoNothing,
             Filed, vars, client, agent
<1>2. ASSUME NEW i \in Ids,
             GetFirstRequest(h, i)
      PROVE  Typed'
  <2>1. RowsOK'
    BY <1>2 DEF RowsOK, GetFirstRequest, Filed
  <2>3. AgentsOK'
    BY <1>2 DEF AgentsOK, GetFirstRequest, RowsOK, IsFirst, Unattested, Filed, AgentPcs, Ids
  <2>4. HistoryOK'
    BY <1>2 DEF HistoryOK, GetFirstRequest
  <2> QED
    BY <2>1, <2>3, <2>4
<1>3. ASSUME ConsumeRequest(h)
      PROVE  Typed'
  <2>a. aid[h] \in Filed /\ arow[h] \in Rows
    BY <1>3 DEF AgentsOK, ConsumeRequest
  <2>b. aid[h] \in Ids /\ nrows > 0
    BY <2>a, MaxRequestsAssumption DEF RowsOK, Filed, Ids
  <2>1. RowsOK'
    BY <2>a, <1>3, RowConsumed, UpdateRequest DEF ConsumeRequest
  <2>3. AgentsOK'
    BY <1>3, <2>b DEF AgentsOK, ConsumeRequest, Filed, AgentPcs
  <2>4. HistoryOK'
    BY <1>3, <2>b DEF HistoryOK, ConsumeRequest
  <2> QED
    BY <2>1, <2>3, <2>4
<1>4. ASSUME GetNonce(h)
      PROVE  Typed'
  <2>1. RowsOK'
    BY <1>4 DEF RowsOK, GetNonce, Filed
  <2>a. nrows \in Ids /\ rows[nrows] \in Rows
    BY <1>4, MaxRequestsAssumption DEF RowsOK, AgentsOK, GetNonce, Ids, Filed
  <2>b. rows[nrows].property \in Properties /\ pcr[h] \in [Interpreted -> Measurements]
    BY <2>a DEF AgentsOK, Rows
  <2>c. PICK r \in Reports : areport' = [areport EXCEPT ![h] = r]
    BY <2>a, <2>b, <1>4, NonceReport DEF GetNonce
  <2>3. AgentsOK'
    BY <2>c, <1>4 DEF AgentsOK, GetNonce, Filed, AgentPcs
  <2>4. HistoryOK'
    BY <1>4 DEF HistoryOK, GetNonce
  <2> QED
    BY <2>1, <2>3, <2>4
<1>5. ASSUME NEW good \in BOOLEAN,
             Measure(h, good)
      PROVE  Typed'
  <2>1. RowsOK'
    BY <1>5 DEF RowsOK, Measure, Filed
  <2>a. [of |-> areport[h].about, good |-> good] \in Measurements
    BY <1>5, MaxRequestsAssumption DEF AgentsOK, Measure, Reports, Measurements, Ids
  <2>b. \A p \in Interpreted : pcr[h][p] \in Measurements
    BY DEF AgentsOK
  <2>c. pcr' \in [Hosts -> [Interpreted -> Measurements]]
    BY <2>a, <2>b, <1>5 DEF AgentsOK, Measure
  <2>3. AgentsOK'
    BY <2>c, <1>5 DEF AgentsOK, Measure, Filed, AgentPcs
  <2>4. HistoryOK'
    BY <1>5 DEF HistoryOK, Measure
  <2> QED
    BY <2>1, <2>3, <2>4
<1>6. ASSUME MeasureFails(h)
      PROVE  Typed'
  BY <1>6 DEF RowsOK, AgentsOK, HistoryOK, MeasureFails, Filed, AgentPcs, client
<1>7. ASSUME NEW valid \in BOOLEAN, NEW white \in BOOLEAN,
             Quote(h, valid, white)
      PROVE  Typed'
  <2>1. RowsOK'
    BY <1>7 DEF RowsOK, Quote, Filed
  <2>a. areport[h] \in Reports /\ pcr[h] \in [Interpreted -> Measurements]
    BY <1>7 DEF AgentsOK, Quote
  <2>b. PICK r \in Reports : areport' = [areport EXCEPT ![h] = r]
    BY <2>a, <1>7, ReportQuoted DEF AgentsOK, Quote
  <2>3. AgentsOK'
    BY <2>b, <1>7 DEF AgentsOK, Quote, Filed, AgentPcs
  <2>4. HistoryOK'
    BY <1>7 DEF HistoryOK, Quote
  <2> QED
    BY <2>1, <2>3, <2>4
<1>8. ASSUME AgentFails(h)
      PROVE  Typed'
  <2>1. RowsOK'
    BY <1>8 DEF RowsOK, AgentFails, Filed
  <2>3. AgentsOK'
    BY <1>8 DEF AgentsOK, AgentFails, Filed, AgentPcs
  <2>4. HistoryOK'
    BY <1>8 DEF HistoryOK, AgentFails
  <2> QED
    BY <2>1, <2>3, <2>4
<1>9. ASSUME SubmitUnasked(h)
      PROVE  Typed'
  <2>1. RowsOK'
    BY <1>9 DEF RowsOK, SubmitUnasked, Filed
  <2>3. AgentsOK'
    BY <1>9 DEF AgentsOK, SubmitUnasked, Filed, AgentPcs
  <2>4. HistoryOK'
    BY <1>9 DEF HistoryOK, SubmitUnasked
  <2> QED
    BY <2>1, <2>3, <2>4
<1>10. ASSUME NEW i \in Ids,
             SubmitReport(h, i)
      PROVE  Typed'
  <2>1. RowsOK'
    BY <1>10 DEF RowsOK, SubmitReport, Filed
  <2>a. i \in Filed /\ rows[i] \in Rows /\ areport[h] \in Reports
    BY <1>10 DEF RowsOK, AgentsOK, SubmitReport, IsFirst, Unattested
  <2>c. Appraise(rows[i], areport[h], h \in enrolled) \in {"TRUSTED", "UN_TRUSTED"}
    BY DEF Appraise
  <2>b. PICK r \in Rows : arow' = [arow EXCEPT ![h] = r]
    BY <2>a, <2>c, <1>10, RowAppraised DEF SubmitReport
  <2>3. AgentsOK'
    BY <2>a, <2>b, <1>10 DEF AgentsOK, SubmitReport, Filed, AgentPcs
  <2>4. HistoryOK'
    BY <1>10 DEF HistoryOK, SubmitReport
  <2> QED
    BY <2>1, <2>3, <2>4
<1>11. ASSUME StoreVerdict(h)
      PROVE  Typed'
  <2>1. RowsOK'
    BY <1>11, UpdateRequest DEF AgentsOK, StoreVerdict
  <2>3. AgentsOK'
    BY <1>11 DEF AgentsOK, StoreVerdict, Filed, AgentPcs
  <2>4. HistoryOK'
    BY <1>11 DEF HistoryOK, StoreVerdict
  <2> QED
    BY <2>1, <2>3, <2>4
<1>12. ASSUME Enroll(h)
      PROVE  Typed'
  <2>1. RowsOK'
    BY <1>12 DEF RowsOK, Enroll, Filed
  <2>3. AgentsOK'
    BY <1>12 DEF AgentsOK, Enroll, Filed, agent
  <2>4. HistoryOK'
    BY <1>12 DEF HistoryOK, Enroll
  <2> QED
    BY <2>1, <2>3, <2>4
<1> QED
  BY <1>1, <1>2, <1>3, <1>4, <1>5, <1>6, <1>7, <1>8, <1>9, <1>10, <1>11, <1>12 DEF Agent

(* Every step of the calls, the agents and the clock keeps the state typed. *)
LEMMA TypeStep == TypeOK /\ [Next]_vars => TypeOK'
<1> SUFFICES ASSUME TypeOK, [Next]_vars PROVE TypeOK'
  OBVIOUS
<1>1. ASSUME NEW c \in Clients, NEW h \in Hosts, NEW p \in Properties,
             AddRequest(c, h, p)
      PROVE  TypeOK'
  <2>1. RowsOK'
    <3>a. (h \in enrolled) \in BOOLEAN
      OBVIOUS
    <3>1. PICK r \in Rows : rows' = [rows EXCEPT ![nrows + 1] = r]
      BY <3>a, <1>1, NewRow DEF AddRequest
    <3>2. nrows + 1 \in Ids /\ Filed' = Filed \cup {nrows + 1} /\ Filed' \subseteq Ids
      BY <1>1, MaxRequestsAssumption DEF TypeOK, RowsOK, AddRequest, Ids, Filed
    <3>3. nrows' \in 0 .. MaxRequests
      BY <1>1, MaxRequestsAssumption DEF TypeOK, RowsOK, AddRequest
    <3> QED
      BY <3>1, <3>2, <3>3, <1>1 DEF TypeOK, RowsOK, AddRequest
  <2>2. ClientsOK'
    BY <1>1 DEF TypeOK, ClientsOK, AddRequest, Filed, ClientPcs, RowsOK
  <2>3. AgentsOK'
    BY <1>1 DEF TypeOK, AgentsOK, AddRequest, Filed, agent, RowsOK
  <2>4. HistoryOK'
    BY <1>1 DEF TypeOK, HistoryOK, AddRequest
  <2> QED
    BY <2>1, <2>2, <2>3, <2>4 DEF TypeOK
<1>2. ASSUME NEW c \in Clients,
             FetchRequest(c)
      PROVE  TypeOK'
  <2>1. RowsOK'
    BY <1>2 DEF TypeOK, RowsOK, FetchRequest, Filed
  <2>2. ClientsOK'
    BY <1>2 DEF TypeOK, ClientsOK, FetchRequest, RowsOK, Filed, ClientPcs, Ids
  <2>3. AgentsOK'
    BY <1>2 DEF TypeOK, AgentsOK, FetchRequest, Filed, agent
  <2>4. HistoryOK'
    BY <1>2 DEF TypeOK, HistoryOK, FetchRequest
  <2> QED
    BY <2>1, <2>2, <2>3, <2>4 DEF TypeOK
<1>3. ASSUME NEW c \in Clients,
             CheckRequest(c)
      PROVE  TypeOK'
  <2>1. RowsOK'
    BY <1>3 DEF TypeOK, RowsOK, CheckRequest, Filed
  <2>2. ClientsOK'
    BY <1>3 DEF TypeOK, ClientsOK, CheckRequest, Filed, ClientPcs
  <2>3. AgentsOK'
    BY <1>3 DEF TypeOK, AgentsOK, CheckRequest, Filed, agent
  <2>4. HistoryOK'
    BY <1>3 DEF TypeOK, HistoryOK, CheckRequest
  <2> QED
    BY <2>1, <2>2, <2>3, <2>4 DEF TypeOK
<1>4. ASSUME NEW c \in Clients,
             WriteResult(c)
      PROVE  TypeOK'
  <2>a. PICK req \in Rows : /\ creq' = [creq EXCEPT ![c] = req]
                            /\ rows' = [rows EXCEPT ![cid[c]] = req]
                            /\ cid[c] \in Filed
    BY <1>4, CopyWritten DEF TypeOK, ClientsOK, WriteResult, Results
  <2>1. RowsOK'
    BY <2>a, <1>4, UpdateRequest DEF TypeOK, WriteResult
  <2>2. ClientsOK'
    BY <2>a, <1>4 DEF TypeOK, ClientsOK, WriteResult, Filed, ClientPcs
  <2>3. AgentsOK'
    BY <1>4 DEF TypeOK, AgentsOK, WriteResult, Filed, agent
  <2>4. HistoryOK'
    BY <1>4 DEF TypeOK, HistoryOK, WriteResult
  <2> QED
    BY <2>1, <2>2, <2>3, <2>4 DEF TypeOK
<1>5. ASSUME NEW c \in Clients,
             IsAllAttested(c)
      PROVE  TypeOK'
  <2>1. RowsOK'
    BY <1>5 DEF TypeOK, RowsOK, IsAllAttested, Filed
  <2>2. ClientsOK'
    BY <1>5 DEF TypeOK, ClientsOK, IsAllAttested, Filed, ClientPcs
  <2>3. AgentsOK'
    BY <1>5 DEF TypeOK, AgentsOK, IsAllAttested, Filed, agent
  <2>4. HistoryOK'
    BY <1>5 DEF TypeOK, HistoryOK, IsAllAttested
  <2> QED
    BY <2>1, <2>2, <2>3, <2>4 DEF TypeOK
<1>6. ASSUME NEW c \in Clients,
             Respond(c)
      PROVE  TypeOK'
  <2>1. RowsOK'
    BY <1>6 DEF TypeOK, RowsOK, Respond, Filed
  <2>2. ClientsOK'
    BY <1>6 DEF TypeOK, ClientsOK, Respond, Filed, ClientPcs
  <2>3. AgentsOK'
    BY <1>6 DEF TypeOK, AgentsOK, Respond, Filed, agent
  <2>4. HistoryOK'
    BY <1>6 DEF TypeOK, HistoryOK, Respond, RowsOK, ClientsOK, Rows, Filed, Ids
  <2> QED
    BY <2>1, <2>2, <2>3, <2>4 DEF TypeOK
<1>7. ASSUME NEW h \in Hosts, Agent(h) \/ Enroll(h) PROVE TypeOK'
  <2>1. (RowsOK /\ AgentsOK /\ HistoryOK)'
    BY <1>7, AgentTypeStep DEF TypeOK
  <2>2. UNCHANGED <<nrows, client>>
    BY <1>7 DEF Agent, DoNothing, GetFirstRequest, ConsumeRequest, GetNonce, Measure, MeasureFails,
       Quote, AgentFails, SubmitUnasked, SubmitReport, StoreVerdict, Enroll, vars
  <2>3. ClientsOK'
    BY <2>2 DEF TypeOK, ClientsOK, Filed, client
  <2> QED
    BY <2>1, <2>3 DEF TypeOK
<1>8. ASSUME NEW i \in Ids,
             Expire(i)
      PROVE  TypeOK'
  <2>1. RowsOK'
    BY <1>8 DEF TypeOK, RowsOK, Expire, Filed
  <2>2. ClientsOK'
    BY <1>8 DEF TypeOK, ClientsOK, Expire, Filed, client
  <2>3. AgentsOK'
    BY <1>8 DEF TypeOK, AgentsOK, Expire, Filed, agent
  <2>4. HistoryOK'
    BY <1>8 DEF TypeOK, HistoryOK, Expire
  <2> QED
    BY <2>1, <2>2, <2>3, <2>4 DEF TypeOK
<1>9. ASSUME UNCHANGED vars PROVE TypeOK'
  BY <1>9 DEF TypeOK, RowsOK, ClientsOK, AgentsOK, HistoryOK, Filed, vars, client, agent
<1> QED
  BY <1>1, <1>2, <1>3, <1>4, <1>5, <1>6, <1>7, <1>8, <1>9 DEF Next, PollHosts

(* The table, the calls and the agents stay typed, whatever the number of  *)
(* hosts, calls and requests.                                              *)
THEOREM OatTypeCorrect == Spec => []TypeOK
<1>1. Init => TypeOK
  BY MaxRequestsAssumption
     DEF Init, TypeOK, RowsOK, ClientsOK, AgentsOK, HistoryOK, Filed, ClientPcs, AgentPcs,
         Measurements, Ids
<1> QED
  BY <1>1, TypeStep, PTL DEF Spec

------------------------------------------------------------------------------
(* What the stale copies may hold.  The invariant below relates each copy  *)
(* of a row to the row itself; it is what makes the properties inductive.  *)

Verdict == {"TRUSTED", "UN_TRUSTED"}

\* A call is the only one on its request, which is not yet answered.
OneCall ==
    /\ \A c \in Clients : cpc[c] # "idle" => answer[cid[c]] = NULL
    /\ \A c, d \in Clients :
          c # d /\ cpc[c] # "idle" /\ cpc[d] # "idle" => cid[c] # cid[d]
    /\ \A i \in Ids : i > nrows => answer[i] = NULL /\ delivered[i] = 0

\* The copy a call will write back is not ahead of the row, and holds no
\* report when it is about to be written.
CallCopy ==
    \A c \in Clients : cpc[c] \notin {"idle", "fetch"} =>
        /\ creq[c].host = rows[cid[c]].host
        /\ creq[c].auditLog # NULL => rows[cid[c]].auditLog # NULL
        /\ creq[c].consumed = TRUE => rows[cid[c]].consumed = TRUE
        /\ cpc[c] \in {"unknown", "timeout"} => creq[c].auditLog = NULL

\* Inside a transaction of an agent its row belongs to its host and has no
\* report yet.
AgentRow ==
    \A h \in Hosts : apc[h] \in {"poll", "appraised"} =>
        /\ rows[aid[h]].host = h
        /\ arow[h].host = h
        /\ rows[aid[h]].auditLog = NULL

\* What getNextAction and submitReport are about to write.
AgentCopy ==
    /\ \A h \in Hosts : apc[h] = "poll" =>
          /\ arow[h].auditLog = NULL
          /\ arow[h].result = NULL
          /\ delivered[aid[h]] = 0
    /\ \A h \in Hosts : apc[h] = "appraised" =>
          /\ arow[h].auditLog \in Reports
          /\ arow[h].auditLog.about >= aid[h]
          /\ arow[h].result \in Verdict
          /\ arow[h].consumed = TRUE

\* A report is about no request older than the host's polled ones.
ReportCovers ==
    \A h \in Hosts : apc[h] \in {"measure", "quote", "report"} =>
        \A i \in Filed : rows[i].host = h /\ rows[i].consumed = TRUE => i <= areport[h].about

\* A request once handed out is no longer selected by getFirstRequest.
HandedOut ==
    \A i \in Filed : delivered[i] # 0 => rows[i].consumed = TRUE \/ rows[i].result # NULL

OatInv ==
    /\ TypeOK
    /\ OneCall
    /\ CallCopy
    /\ AgentRow
    /\ AgentCopy
    /\ ReportCovers
    /\ HandedOut
    /\ VerdictHasReport
    /\ VerdictIsFresh
    /\ AnsweredVerdictStands
    /\ DeliveredOnce

(* What a step keeps that leaves the table alone, ...                      *)
LEMMA TableKept ==
    ASSUME OatInv, UNCHANGED <<rows, nrows, delivered>>
    PROVE  (HandedOut /\ VerdictHasReport /\ VerdictIsFresh /\ DeliveredOnce)'
BY DEF OatInv, HandedOut, VerdictHasReport, VerdictIsFresh, DeliveredOnce, Filed

(* ... the table and the calls, ...                                        *)
LEMMA CallsKept ==
    ASSUME OatInv, UNCHANGED <<rows, nrows, client, delivered, answer>>
    PROVE  (OneCall /\ CallCopy /\ AnsweredVerdictStands)'
BY DEF OatInv, OneCall, CallCopy, AnsweredVerdictStands, Filed, client

(* ... or the table and the agents.                                        *)
LEMMA AgentsKept ==
    ASSUME OatInv, UNCHANGED <<rows, nrows, agent, delivered>>
    PROVE  (AgentRow /\ AgentCopy /\ ReportCovers)'
BY DEF OatInv, AgentRow, AgentCopy, ReportCovers, Filed, agent

(* The invariant is inductive.                                             *)
THEOREM OatInvariant == Spec => []OatInv
<1>1. Init => OatInv
  <2> SUFFICES ASSUME Init PROVE OatInv
    OBVIOUS
  <2>1. TypeOK
    BY MaxRequestsAssumption
       DEF Init, TypeOK, RowsOK, ClientsOK, AgentsOK, HistoryOK, Filed, ClientPcs, AgentPcs,
         Measurements, Ids
  <2>2. Filed = {}
    BY DEF Init, Filed
  <2>3. OneCall /\ CallCopy /\ AgentRow /\ AgentCopy /\ ReportCovers /\ DeliveredOnce
    BY DEF Init, OneCall, CallCopy, AgentRow, AgentCopy, ReportCovers, DeliveredOnce
  <2>4. HandedOut /\ VerdictHasReport /\ VerdictIsFresh
    BY <2>2 DEF HandedOut, VerdictHasReport, VerdictIsFresh
  <2>5. AnsweredVerdictStands
    BY <2>2 DEF AnsweredVerdictStands
  <2> QED
    BY <2>1, <2>3, <2>4, <2>5 DEF OatInv
<1>2. OatInv /\ [Next]_vars => OatInv'
  <2> SUFFICES ASSUME OatInv, [Next]_vars PROVE OatInv'
    OBVIOUS
  <2>0. TypeOK'
    BY TypeStep DEF OatInv
  <2>1. ASSUME NEW c \in Clients, NEW h \in Hosts, NEW p \in Properties,
               AddRequest(c, h, p)
        PROVE  OatInv'
    <3>a. (h \in enrolled) \in BOOLEAN
      OBVIOUS
    <3>b. PICK r \in Rows : /\ rows' = [rows EXCEPT ![nrows + 1] = r]
                            /\ r.consumed = FALSE
                            /\ r.auditLog = NULL
                            /\ r.result = NULL
      BY <3>a, <2>1, NewRow DEF AddRequest
    <3>c. /\ nrows \in Nat
          /\ nrows + 1 \in Ids
          /\ Filed' = Filed \cup {nrows + 1}
          /\ \A i \in Filed : i \in Ids /\ i # nrows + 1
      BY <2>1, MaxRequestsAssumption DEF OatInv, TypeOK, RowsOK, AddRequest, Ids, Filed
    <3>d. rows'[nrows + 1] = r /\ \A i \in Filed : rows'[i] = rows[i]
      BY <3>b, <3>c DEF OatInv, TypeOK, RowsOK
    <3>e. answer[nrows + 1] = NULL /\ delivered[nrows + 1] = 0
      BY <3>c DEF OatInv, OneCall
    <3>1. OneCall'
      <4>1. \A d \in Clients : d # c => cpc'[d] = cpc[d] /\ cid'[d] = cid[d]
        BY <2>1 DEF OatInv, TypeOK, ClientsOK, AddRequest
      <4>2. cid'[c] = nrows + 1
        BY <2>1 DEF OatInv, TypeOK, ClientsOK, AddRequest
      <4>3. \A d \in Clients : cpc[d] # "idle" => cid[d] \in Filed
        BY DEF OatInv, TypeOK, ClientsOK
      <4>4. \A d \in Clients : cpc'[d] # "idle" => answer'[cid'[d]] = NULL
        BY <2>1, <3>e, <4>1, <4>2 DEF OatInv, OneCall, AddRequest
      <4>5. \A d, e \in Clients :
               d # e /\ cpc'[d] # "idle" /\ cpc'[e] # "idle" => cid'[d] # cid'[e]
        BY <3>c, <4>1, <4>2, <4>3 DEF OatInv, OneCall
      <4>6. \A i \in Ids : i > nrows' => answer'[i] = NULL /\ delivered'[i] = 0
        BY <2>1, <3>c, MaxRequestsAssumption DEF OatInv, OneCall, AddRequest, Ids
      <4> QED
        BY <4>4, <4>5, <4>6 DEF OneCall, Ids
    <3>2. CallCopy'
      BY <2>1, <3>d DEF OatInv, TypeOK, ClientsOK, CallCopy, AddRequest
    <3>3. AgentRow'
      BY <2>1, <3>d DEF OatInv, TypeOK, AgentsOK, AgentRow, AddRequest, agent
    <3>4. AgentCopy'
      BY <2>1 DEF OatInv, AgentCopy, AddRequest, agent
    <3>5. ReportCovers'
      BY <2>1, <3>b, <3>c, <3>d DEF OatInv, ReportCovers, AddRequest, agent
    <3>6. HandedOut'
      BY <2>1, <3>c, <3>d, <3>e DEF OatInv, HandedOut, AddRequest
    <3>7. VerdictHasReport'
      BY <2>1, <3>b, <3>c, <3>d, OatNullAssumption DEF OatInv, VerdictHasReport,
         Results
    <3>8. VerdictIsFresh'
      BY <2>1, <3>b, <3>c, <3>d DEF OatInv, VerdictIsFresh
    <3>9. AnsweredVerdictStands'
      BY <2>1, <3>c, <3>d, <3>e, OatNullAssumption DEF OatInv,
         AnsweredVerdictStands, AddRequest, Results
    <3>10. DeliveredOnce'
      BY <2>1 DEF OatInv, DeliveredOnce, AddRequest
    <3> QED
      BY <2>0, <3>1, <3>2, <3>3, <3>4, <3>5, <3>6, <3>7, <3>8, <3>9, <3>10 DEF OatInv
  <2>2. ASSUME NEW c \in Clients,
               FetchRequest(c)
        PROVE  OatInv'
    <3>1. OneCall'
      BY <2>2 DEF OatInv, TypeOK, ClientsOK, OneCall, FetchRequest
    <3>2. CallCopy'
      BY <2>2 DEF OatInv, TypeOK, ClientsOK, CallCopy, FetchRequest
    <3>3. AnsweredVerdictStands'
      BY <2>2 DEF OatInv, AnsweredVerdictStands, FetchRequest, Filed
    <3> QED
      BY <2>0, <2>2, <3>1, <3>2, <3>3, TableKept, AgentsKept DEF OatInv, FetchRequest
  <2>3. ASSUME NEW c \in Clients,
               CheckRequest(c)
        PROVE  OatInv'
    <3>1. OneCall'
      BY <2>3 DEF OatInv, TypeOK, ClientsOK, OneCall, CheckRequest
    <3>2. CallCopy'
      <4>1. cpc'[c] \in {"unknown", "timeout"} => rows[cid[c]].result = NULL
        BY <2>3 DEF OatInv, TypeOK, ClientsOK, CheckRequest
      <4>2. cid[c] \in Filed
        BY <2>3 DEF OatInv, TypeOK, ClientsOK, CheckRequest
      <4>3. rows[cid[c]].result = NULL => rows[cid[c]].auditLog = NULL
        BY <4>2, OatNullAssumption DEF OatInv, VerdictHasReport, Results
      <4>4. /\ cpc[c] \notin {"idle", "fetch"}
            /\ \A d \in Clients : d # c => cpc'[d] = cpc[d]
        BY <2>3 DEF OatInv, TypeOK, ClientsOK, CheckRequest
      <4> QED
        BY <2>3, <4>1, <4>3, <4>4 DEF OatInv, CallCopy, CheckRequest
    <3>3. AnsweredVerdictStands'
      BY <2>3 DEF OatInv, AnsweredVerdictStands, CheckRequest, Filed
    <3> QED
      BY <2>0, <2>3, <3>1, <3>2, <3>3, TableKept, AgentsKept DEF OatInv, CheckRequest
  <2>4. ASSUME NEW c \in Clients,
               WriteResult(c)
        PROVE  OatInv'
    <3>v. PICK v \in {"UN_KNOWN", "TIME_OUT"} :
             /\ creq' = [creq EXCEPT ![c] = [creq[c] EXCEPT !.result = v]]
             /\ rows' = [rows EXCEPT ![cid[c]] = [creq[c] EXCEPT !.result = v]]
      BY <2>4 DEF WriteResult
    <3>w. v \in Results /\ creq[c] \in Rows
      BY <2>4 DEF OatInv, TypeOK, ClientsOK, WriteResult, Results
    <3>a. PICK r \in Rows : /\ creq' = [creq EXCEPT ![c] = r]
                            /\ rows' = [rows EXCEPT ![cid[c]] = r]
                            /\ r.host = creq[c].host
                            /\ r.consumed = creq[c].consumed
                            /\ r.auditLog = creq[c].auditLog
                            /\ r.result \in {"UN_KNOWN", "TIME_OUT"}
      BY <3>v, <3>w, CopyWritten
    <3>b. /\ cid[c] \in Filed
          /\ r.host = rows[cid[c]].host
          /\ r.consumed = TRUE => rows[cid[c]].consumed = TRUE
          /\ r.auditLog = NULL
          /\ r.result # NULL
          /\ answer[cid[c]] = NULL
      BY <2>4, <3>a, OatNullAssumption
         DEF OatInv, TypeOK, ClientsOK, CallCopy, OneCall, WriteResult, Results
    <3>c. /\ rows'[cid[c]] = r
          /\ \A j \in Filed : j # cid[c] => rows'[j] = rows[j]
      BY <2>4, <3>a, <3>b, UpdateRequest DEF OatInv, TypeOK, WriteResult
    <3>d. Filed' = Filed /\ nrows' = nrows
      BY <2>4 DEF WriteResult, Filed
    <3>1. OneCall'
      BY <2>4, <3>d DEF OatInv, TypeOK, ClientsOK, OneCall, WriteResult
    <3>2. CallCopy'
      BY <2>4, <3>a, <3>b, <3>c DEF OatInv, TypeOK, ClientsOK, CallCopy, OneCall,
         WriteResult
    <3>3. AgentRow'
      <4> SUFFICES ASSUME NEW h \in Hosts, apc[h] \in {"poll", "appraised"}
                   PROVE  /\ rows'[aid[h]].host = h
                          /\ arow[h].host = h
                          /\ rows'[aid[h]].auditLog = NULL
        BY <2>4 DEF AgentRow, WriteResult, agent
      <4>1. /\ aid[h] \in Filed
            /\ rows[aid[h]].host = h
            /\ arow[h].host = h
            /\ rows[aid[h]].auditLog = NULL
        BY DEF OatInv, TypeOK, AgentsOK, AgentRow
      <4> QED
        BY <3>b, <3>c, <4>1
    <3>4. AgentCopy'
      BY <2>4 DEF OatInv, AgentCopy, WriteResult, agent
    <3>5. ReportCovers'
      <4>1. \A i \in Filed : /\ rows'[i].host = rows[i].host
                             /\ rows'[i].consumed = TRUE => rows[i].consumed = TRUE
        BY <3>b, <3>c
      <4> QED
        BY <2>4, <3>d, <4>1 DEF OatInv, ReportCovers, WriteResult, agent
    <3>6. HandedOut'
      BY <2>4, <3>b, <3>c, <3>d DEF OatInv, HandedOut, WriteResult
    <3>7. VerdictHasReport'
      BY <2>4, <3>a, <3>b, <3>c, <3>d DEF OatInv, VerdictHasReport
    <3>8. VerdictIsFresh'
      BY <2>4, <3>b, <3>c, <3>d DEF OatInv, VerdictIsFresh
    <3>9. AnsweredVerdictStands'
      BY <2>4, <3>b, <3>c, <3>d, OatNullAssumption DEF OatInv,
         AnsweredVerdictStands, WriteResult, Results
    <3>10. DeliveredOnce'
      BY <2>4 DEF OatInv, DeliveredOnce, WriteResult
    <3> QED
      BY <2>0, <3>1, <3>2, <3>3, <3>4, <3>5, <3>6, <3>7, <3>8, <3>9, <3>10 DEF OatInv
  <2>5. ASSUME NEW c \in Clients,
               IsAllAttested(c)
        PROVE  OatInv'
    <3>1. OneCall'
      BY <2>5 DEF OatInv, TypeOK, ClientsOK, OneCall, IsAllAttested
    <3>2. CallCopy'
      BY <2>5 DEF OatInv, TypeOK, ClientsOK, CallCopy, IsAllAttested
    <3>3. AnsweredVerdictStands'
      BY <2>5 DEF OatInv, AnsweredVerdictStands, IsAllAttested, Filed
    <3> QED
      BY <2>0, <2>5, <3>1, <3>2, <3>3, TableKept, AgentsKept DEF OatInv, IsAllAttested
  <2>6. ASSUME NEW c \in Clients,
               Respond(c)
        PROVE  OatInv'
    <3>1. OneCall'
      BY <2>6, MaxRequestsAssumption DEF OatInv, TypeOK, RowsOK, ClientsOK,
         HistoryOK, OneCall, Respond, Filed, Ids
    <3>2. CallCopy'
      BY <2>6 DEF OatInv, TypeOK, ClientsOK, CallCopy, Respond
    <3>9. AnsweredVerdictStands'
      BY <2>6, MaxRequestsAssumption DEF OatInv, TypeOK, RowsOK, ClientsOK,
         HistoryOK, AnsweredVerdictStands, Respond, Filed, Ids
    <3> QED
      BY <2>0, <2>6, <3>1, <3>2, <3>9, TableKept, AgentsKept DEF OatInv, Respond
  <2>7. ASSUME NEW h \in Hosts,
               DoNothing(h)
        PROVE  OatInv'
    BY <2>0, <2>7, TableKept, CallsKept, AgentsKept DEF OatInv, DoNothing, vars
  <2>8. ASSUME NEW h \in Hosts, NEW i \in Ids,
               GetFirstRequest(h, i)
        PROVE  OatInv'
    <3>a. /\ i \in Filed
          /\ rows[i] \in Rows
          /\ rows[i].host = h
          /\ rows[i].consumed = FALSE
          /\ rows[i].auditLog = NULL
          /\ rows[i].result = NULL
      BY <2>8 DEF OatInv, TypeOK, RowsOK, GetFirstRequest, IsFirst, Unattested
    <3>b. delivered[i] = 0
      BY <3>a DEF OatInv, HandedOut
    <3>3. AgentRow'
      BY <2>8, <3>a DEF OatInv, TypeOK, AgentsOK, AgentRow, GetFirstRequest
    <3>4. AgentCopy'
      BY <2>8, <3>a, <3>b DEF OatInv, TypeOK, AgentsOK, AgentCopy, GetFirstRequest
    <3>5. ReportCovers'
      BY <2>8 DEF OatInv, TypeOK, AgentsOK, ReportCovers, GetFirstRequest, Filed
    <3> QED
      BY <2>0, <2>8, <3>3, <3>4, <3>5, TableKept, CallsKept DEF OatInv, GetFirstRequest
  <2>9. ASSUME NEW h \in Hosts,
               ConsumeRequest(h)
        PROVE  OatInv'
    <3>a. /\ aid[h] \in Filed
          /\ arow[h] \in Rows
          /\ rows[aid[h]].host = h
          /\ rows[aid[h]].auditLog = NULL
          /\ arow[h].host = h
          /\ arow[h].auditLog = NULL
          /\ arow[h].result = NULL
          /\ delivered[aid[h]] = 0
      BY <2>9 DEF OatInv, TypeOK, AgentsOK, AgentRow, AgentCopy, ConsumeRequest
    <3>b. PICK r \in Rows : /\ rows' = [rows EXCEPT ![aid[h]] = r]
                            /\ r.host = h
                            /\ r.consumed = TRUE
                            /\ r.auditLog = NULL
                            /\ r.result = NULL
      <4> DEFINE n == [arow[h] EXCEPT !.nextAction = "DO_NOTHING", !.consumed = TRUE]
      <4>1. /\ n \in Rows
            /\ n.host = h
            /\ n.consumed = TRUE
            /\ n.auditLog = NULL
            /\ n.result = NULL
        BY <3>a, RowConsumed
      <4>2. rows' = [rows EXCEPT ![aid[h]] = n]
        BY <2>9 DEF ConsumeRequest
      <4> HIDE DEF n
      <4> QED
        BY <4>1, <4>2
    <3>c. /\ rows'[aid[h]] = r
          /\ \A j \in Filed : j # aid[h] => rows'[j] = rows[j]
      BY <2>9, <3>a, <3>b, UpdateRequest DEF OatInv, TypeOK, ConsumeRequest
    <3>d. Filed' = Filed /\ nrows' = nrows
      BY <2>9 DEF ConsumeRequest, Filed
    <3>e. aid[h] \in Ids /\ aid[h] <= nrows /\ nrows \in Nat
      BY <3>a, MaxRequestsAssumption DEF OatInv, TypeOK, RowsOK, Filed, Ids
    <3>f. /\ delivered'[aid[h]] = 1
          /\ \A j \in Ids : j # aid[h] => delivered'[j] = delivered[j]
      BY <2>9, <3>a, <3>e DEF OatInv, TypeOK, HistoryOK, ConsumeRequest
    <3>g. \A g \in Hosts : g # h => apc'[g] = apc[g] /\ aid'[g] = aid[g] /\ arow'[g] = arow[g]
      BY <2>9 DEF OatInv, TypeOK, AgentsOK, ConsumeRequest
    <3>h. apc'[h] \in {"told", "idle"}
      BY <2>9 DEF OatInv, TypeOK, AgentsOK, ConsumeRequest
    <3>i. \A g \in Hosts : g # h /\ apc[g] \in {"poll", "appraised"}
                               => aid[g] # aid[h] /\ aid[g] \in Filed /\ aid[g] \in Ids
      BY <3>a, MaxRequestsAssumption DEF OatInv, TypeOK, RowsOK, AgentsOK, AgentRow, Filed, Ids
    <3>1. OneCall'
      <4>1. \A i \in Ids : i > nrows' => answer'[i] = NULL /\ delivered'[i] = 0
        BY <2>9, <3>d, <3>e, <3>f, MaxRequestsAssumption DEF OatInv, OneCall, ConsumeRequest, Ids
      <4> QED
        BY <2>9, <4>1 DEF OatInv, OneCall, ConsumeRequest, client
    <3>2. CallCopy'
      BY <2>9, <3>a, <3>b, <3>c DEF OatInv, TypeOK, ClientsOK, CallCopy,
         ConsumeRequest, client
    <3>3. AgentRow'
      BY <2>9, <3>c, <3>g, <3>h, <3>i DEF OatInv, AgentRow
    <3>4. AgentCopy'
      BY <2>9, <3>f, <3>g, <3>h, <3>i DEF OatInv, AgentCopy
    <3>5. ReportCovers'
      <4> SUFFICES ASSUME NEW g \in Hosts, apc'[g] \in {"measure", "quote", "report"},
                          NEW i \in Filed, rows'[i].host = g, rows'[i].consumed = TRUE
                   PROVE  i <= areport'[g].about
        BY <3>d DEF ReportCovers
      <4>1. g # h
        BY <3>h
      <4>2. i # aid[h]
        BY <3>b, <3>c, <4>1
      <4> QED
        BY <2>9, <3>c, <3>g, <4>1, <4>2 DEF OatInv, ReportCovers, ConsumeRequest
    <3>6. HandedOut'
      BY <2>9, <3>b, <3>c, <3>d, <3>e, <3>f, MaxRequestsAssumption DEF OatInv,
         TypeOK, RowsOK, HandedOut, Filed, Ids
    <3>7. VerdictHasReport'
      BY <2>9, <3>b, <3>c, <3>d, OatNullAssumption DEF OatInv, VerdictHasReport,
         Results
    <3>8. VerdictIsFresh'
      BY <2>9, <3>b, <3>c, <3>d DEF OatInv, VerdictIsFresh
    <3>9. AnsweredVerdictStands'
      BY <2>9, <3>a, <3>c, <3>d DEF OatInv, VerdictHasReport, AnsweredVerdictStands,
         ConsumeRequest
    <3>10. DeliveredOnce'
      BY <2>9, <3>f DEF OatInv, DeliveredOnce
    <3> QED
      BY <2>0, <3>1, <3>2, <3>3, <3>4, <3>5, <3>6, <3>7, <3>8, <3>9, <3>10 DEF OatInv
  <2>10. ASSUME NEW h \in Hosts,
               GetNonce(h)
        PROVE  OatInv'
    <3>3. AgentRow'
      BY <2>10 DEF OatInv, TypeOK, AgentsOK, AgentRow, GetNonce, client
    <3>4. AgentCopy'
      BY <2>10 DEF OatInv, TypeOK, AgentsOK, AgentCopy, GetNonce, client
    <3>5. ReportCovers'
      BY <2>10, MaxRequestsAssumption DEF OatInv, TypeOK, RowsOK, AgentsOK,
         ReportCovers, GetNonce, Filed
    <3> QED
      BY <2>0, <2>10, <3>3, <3>4, <3>5, TableKept, CallsKept DEF OatInv, GetNonce
  <2>11. ASSUME NEW h \in Hosts, NEW good \in BOOLEAN,
               Measure(h, good)
        PROVE  OatInv'
    <3>1. AgentRow' /\ AgentCopy'
      BY <2>11 DEF OatInv, TypeOK, AgentsOK, AgentRow, AgentCopy, Measure
    <3>2. ReportCovers'
      BY <2>11 DEF OatInv, TypeOK, AgentsOK, ReportCovers, Measure, Filed
    <3> QED
      BY <2>0, <2>11, <3>1, <3>2, TableKept, CallsKept DEF OatInv, Measure
  <2>19. ASSUME NEW h \in Hosts,
               MeasureFails(h)
        PROVE  OatInv'
    <3>1. AgentRow' /\ AgentCopy'
      BY <2>19 DEF OatInv, TypeOK, AgentsOK, AgentRow, AgentCopy, MeasureFails
    <3>2. ReportCovers'
      BY <2>19 DEF OatInv, TypeOK, AgentsOK, ReportCovers, MeasureFails, Filed
    <3> QED
      BY <2>0, <2>19, <3>1, <3>2, TableKept, CallsKept DEF OatInv, MeasureFails
  <2>20. ASSUME NEW h \in Hosts, NEW valid \in BOOLEAN, NEW white \in BOOLEAN,
               Quote(h, valid, white)
        PROVE  OatInv'
    <3>1. AgentRow' /\ AgentCopy'
      BY <2>20 DEF OatInv, TypeOK, AgentsOK, AgentRow, AgentCopy, Quote
    <3>2. ReportCovers'
      <4>1. areport[h] \in Reports /\ apc[h] = "quote" /\ pcr[h] \in [Interpreted -> Measurements]
        BY <2>20 DEF OatInv, TypeOK, AgentsOK, Quote
      <4> DEFINE r == [areport[h] EXCEPT !.valid = valid, !.white = white, !.pcr = pcr[h]]
      <4>a. r.about = areport[h].about
        BY <4>1 DEF Reports
      <4>b. areport' = [areport EXCEPT ![h] = r]
        BY <2>20, <4>1 DEF Quote
      <4> HIDE DEF r
      <4>2. areport' = [areport EXCEPT ![h] = r] /\ r.about = areport[h].about
        BY <4>a, <4>b
      <4>3. /\ areport'[h].about = areport[h].about
            /\ \A g \in Hosts : g # h => apc'[g] = apc[g] /\ areport'[g] = areport[g]
        BY <2>20, <4>2 DEF OatInv, TypeOK, AgentsOK, Quote
      <4> QED
        BY <2>20, <4>1, <4>3 DEF OatInv, ReportCovers, Quote, Filed
    <3> QED
      BY <2>0, <2>20, <3>1, <3>2, TableKept, CallsKept DEF OatInv, Quote
  <2>12. ASSUME NEW h \in Hosts,
               AgentFails(h)
        PROVE  OatInv'
    <3>3. AgentRow'
      BY <2>12 DEF OatInv, TypeOK, AgentsOK, AgentRow, AgentFails, client
    <3>4. AgentCopy'
      BY <2>12 DEF OatInv, TypeOK, AgentsOK, AgentCopy, AgentFails, client
    <3>5. ReportCovers'
      BY <2>12 DEF OatInv, TypeOK, AgentsOK, ReportCovers, AgentFails, client, Filed
    <3> QED
      BY <2>0, <2>12, <3>3, <3>4, <3>5, TableKept, CallsKept DEF OatInv, AgentFails
  <2>13. ASSUME NEW h \in Hosts,
               SubmitUnasked(h)
        PROVE  OatInv'
    <3>3. AgentRow'
      BY <2>13 DEF OatInv, TypeOK, AgentsOK, AgentRow, SubmitUnasked, client
    <3>4. AgentCopy'
      BY <2>13 DEF OatInv, TypeOK, AgentsOK, AgentCopy, SubmitUnasked, client
    <3>5. ReportCovers'
      BY <2>13 DEF OatInv, TypeOK, AgentsOK, ReportCovers, SubmitUnasked, client,
         Filed
    <3> QED
      BY <2>0, <2>13, <3>3, <3>4, <3>5, TableKept, CallsKept DEF OatInv, SubmitUnasked
  <2>14. ASSUME NEW h \in Hosts, NEW i \in Ids,
               SubmitReport(h, i)
        PROVE  OatInv'
    <3>a. /\ i \in Filed
          /\ rows[i] \in Rows
          /\ rows[i].host = h
          /\ rows[i].consumed = TRUE
          /\ rows[i].auditLog = NULL
          /\ areport[h] \in Reports
          /\ i <= areport[h].about
      BY <2>14 DEF OatInv, TypeOK, RowsOK, AgentsOK, ReportCovers, SubmitReport, IsFirst, Unattested
    <3>b. PICK v \in {"TRUSTED", "UN_TRUSTED"} :
             arow' = [arow EXCEPT ![h] = [rows[i] EXCEPT !.auditLog = areport[h], !.result = v]]
      <4>1. Appraise(rows[i], areport[h], h \in enrolled) \in {"TRUSTED", "UN_TRUSTED"}
        BY DEF Appraise
      <4> QED
        BY <2>14, <4>1 DEF SubmitReport
    <3>c. PICK r \in Rows : /\ arow' = [arow EXCEPT ![h] = r]
                            /\ r.host = h
                            /\ r.consumed = TRUE
                            /\ r.auditLog = areport[h]
                            /\ r.result \in Verdict
      <4> DEFINE n == [rows[i] EXCEPT !.auditLog = areport[h], !.result = v]
      <4>1. /\ n \in Rows
            /\ n.host = rows[i].host
            /\ n.consumed = rows[i].consumed
            /\ n.auditLog = areport[h]
            /\ n.result = v
        <5>1. rows[i] \in Rows /\ areport[h] \in Reports
          BY <3>a
        <5> QED
          BY <5>1 DEF Rows, Results
      <4>2. arow' = [arow EXCEPT ![h] = n]
        BY <3>b
      <4> HIDE DEF n
      <4> QED
        BY <3>a, <4>1, <4>2 DEF Verdict
    <3>d. areport[h].about >= i
      BY <3>a, MaxRequestsAssumption DEF Reports, Ids
    <3>3. AgentRow'
      BY <2>14, <3>a, <3>c DEF OatInv, TypeOK, AgentsOK, AgentRow, SubmitReport
    <3>4. AgentCopy'
      <4>1. apc'[h] = "appraised" /\ aid'[h] = i /\ arow'[h] = r
        BY <2>14, <3>c DEF OatInv, TypeOK, AgentsOK, SubmitReport
      <4>2. \A g \in Hosts : g # h => /\ apc'[g] = apc[g]
                                      /\ aid'[g] = aid[g]
                                      /\ arow'[g] = arow[g]
        BY <2>14, <3>c DEF OatInv, TypeOK, AgentsOK, SubmitReport
      <4>3. \A g \in Hosts : apc'[g] = "poll" => g # h
        BY <4>1
      <4>4. \A g \in Hosts : apc'[g] = "poll" =>
               arow'[g].auditLog = NULL /\ arow'[g].result = NULL /\ delivered'[aid'[g]] = 0
        BY <2>14, <4>2, <4>3 DEF OatInv, AgentCopy, SubmitReport
      <4>5. \A g \in Hosts : apc'[g] = "appraised" =>
               /\ arow'[g].auditLog \in Reports
               /\ arow'[g].auditLog.about >= aid'[g]
               /\ arow'[g].result \in Verdict
               /\ arow'[g].consumed = TRUE
        BY <3>a, <3>c, <3>d, <4>1, <4>2 DEF OatInv, AgentCopy
      <4> QED
        BY <4>4, <4>5 DEF AgentCopy
    <3>5. ReportCovers'
      BY <2>14 DEF OatInv, TypeOK, AgentsOK, ReportCovers, SubmitReport, Filed
    <3> QED
      BY <2>0, <2>14, <3>3, <3>4, <3>5, TableKept, CallsKept DEF OatInv, SubmitReport
  <2>15. ASSUME NEW h \in Hosts,
               StoreVerdict(h)
        PROVE  OatInv'
    <3>a. /\ aid[h] \in Filed
          /\ arow[h] \in Rows
          /\ rows[aid[h]].host = h
          /\ rows[aid[h]].auditLog = NULL
          /\ arow[h].host = h
          /\ arow[h].auditLog \in Reports
          /\ arow[h].auditLog.about >= aid[h]
          /\ arow[h].result \in Verdict
          /\ arow[h].consumed = TRUE
      BY <2>15 DEF OatInv, TypeOK, AgentsOK, AgentRow, AgentCopy, StoreVerdict
    <3>b. arow[h].auditLog # NULL /\ arow[h].result # NULL
      BY <3>a, OatNullAssumption DEF Verdict, Results
    <3>c. /\ rows'[aid[h]] = arow[h]
          /\ \A j \in Filed : j # aid[h] => rows'[j] = rows[j]
      BY <2>15, <3>a, UpdateRequest DEF OatInv, TypeOK, StoreVerdict
    <3>d. Filed' = Filed /\ nrows' = nrows
      BY <2>15 DEF StoreVerdict, Filed
    <3>g. \A g \in Hosts : g # h => /\ apc'[g] = apc[g]
                                    /\ aid'[g] = aid[g]
                                    /\ arow'[g] = arow[g]
                                    /\ areport'[g] = areport[g]
      BY <2>15 DEF OatInv, TypeOK, AgentsOK, StoreVerdict
    <3>h. apc'[h] = "idle"
      BY <2>15 DEF OatInv, TypeOK, AgentsOK, StoreVerdict
    <3>i. \A g \in Hosts : g # h /\ apc[g] \in {"poll", "appraised"}
                               => aid[g] # aid[h] /\ aid[g] \in Filed
      BY <3>a DEF OatInv, TypeOK, AgentsOK, AgentRow
    <3>1. OneCall'
      BY <2>15 DEF OatInv, OneCall, StoreVerdict, client
    <3>2. CallCopy'
      BY <2>15, <3>a, <3>b, <3>c DEF OatInv, TypeOK, ClientsOK, CallCopy,
         StoreVerdict, client
    <3>3. AgentRow'
      BY <2>15, <3>c, <3>g, <3>h, <3>i DEF OatInv, AgentRow
    <3>4. AgentCopy'
      BY <2>15, <3>g, <3>h DEF OatInv, AgentCopy, StoreVerdict
    <3>5. ReportCovers'
      BY <2>15, <3>a, <3>c, <3>d, <3>g, <3>h DEF OatInv, ReportCovers
    <3>6. HandedOut'
      BY <2>15, <3>b, <3>c, <3>d DEF OatInv, HandedOut, StoreVerdict
    <3>7. VerdictHasReport'
      BY <2>15, <3>a, <3>b, <3>c, <3>d DEF OatInv, VerdictHasReport, Verdict
    <3>8. VerdictIsFresh'
      BY <2>15, <3>a, <3>c, <3>d DEF OatInv, VerdictIsFresh
    <3>9. AnsweredVerdictStands'
      BY <2>15, <3>a, <3>c, <3>d DEF OatInv, VerdictHasReport,
         AnsweredVerdictStands, StoreVerdict
    <3>10. DeliveredOnce'
      BY <2>15 DEF OatInv, DeliveredOnce, StoreVerdict
    <3> QED
      BY <2>0, <3>1, <3>2, <3>3, <3>4, <3>5, <3>6, <3>7, <3>8, <3>9, <3>10 DEF OatInv
  <2>16. ASSUME NEW h \in Hosts,
               Enroll(h)
        PROVE  OatInv'
    BY <2>0, <2>16, TableKept, CallsKept, AgentsKept DEF OatInv, Enroll
  <2>17. ASSUME NEW i \in Ids,
               Expire(i)
        PROVE  OatInv'
    BY <2>0, <2>17, TableKept, CallsKept, AgentsKept DEF OatInv, Expire
  <2>18. CASE UNCHANGED vars
    BY <2>0, <2>18, TableKept, CallsKept, AgentsKept DEF OatInv, vars
  <2> QED
    BY <2>1, <2>2, <2>3, <2>4, <2>5, <2>6, <2>7, <2>8, <2>9, <2>10, <2>11, <2>12,
       <2>13, <2>14, <2>15, <2>16, <2>17, <2>18,
       <2>19, <2>20 DEF Next, PollHosts, Agent
<1> QED
  BY <1>1, <1>2, PTL DEF Spec

(* A row has a report exactly when its result is a verdict, whatever stale *)
(* copies pollHosts and getNextAction write back: getRespSyncResult finds  *)
(* an audit log behind every verdict.                                      *)
THEOREM ReportsBehindVerdicts == Spec => []VerdictHasReport
BY OatInvariant, PTL DEF OatInv

(* No verdict rests on a report begun before its request was filed, though *)
(* submitReport credits the oldest polled request and requests get lost.   *)
THEOREM VerdictsAreFresh == Spec => []VerdictIsFresh
BY OatInvariant, PTL DEF OatInv

(* The row keeps a verdict that a client was told.                         *)
THEOREM VerdictsStand == Spec => []AnsweredVerdictStands
BY OatInvariant, PTL DEF OatInv

(* getNextAction hands out no request twice.                               *)
THEOREM HandedOutOnce == Spec => []DeliveredOnce
BY OatInvariant, PTL DEF OatInv

==============================================================================
