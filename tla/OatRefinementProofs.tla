------------------------- MODULE OatRefinementProofs -------------------------
(***************************************************************************)
(* OatAttestation implements AttestationPromise, for any sets of hosts and *)
(* calls and any number of requests.                                       *)
(***************************************************************************)
EXTENDS OatRefinement, OatAttestationProofs

\* Only a request that was handed out is in a row marked as consumed, or in
\* the hands of submitReport.
ConsumedWasTold ==
    /\ \A i \in Filed : rows[i].consumed = TRUE => delivered[i] # 0
    /\ \A h \in Hosts : apc[h] = "appraised" => delivered[aid[h]] # 0

(* The row of a call can go back to unconsumed, never the other way without *)
(* getNextAction.                                                           *)
LEMMA ToldStep == OatInv /\ ConsumedWasTold /\ [Next]_vars => ConsumedWasTold'
<1> SUFFICES ASSUME OatInv, ConsumedWasTold, [Next]_vars PROVE ConsumedWasTold'
  OBVIOUS
<1>a. /\ Filed \subseteq Ids
      /\ delivered \in [Ids -> 0 .. 2]
  BY MaxRequestsAssumption DEF OatInv, TypeOK, RowsOK, HistoryOK, Filed, Ids
<1>1. ASSUME NEW c \in Clients, NEW h \in Hosts, NEW p \in Properties, AddRequest(c, h, p)
      PROVE  ConsumedWasTold'
  <2>1. Filed' = Filed \cup {nrows + 1} /\ nrows + 1 \in Ids /\ nrows + 1 \notin Filed
    BY <1>1, MaxRequestsAssumption DEF OatInv, TypeOK, RowsOK, AddRequest, Ids, Filed
  <2>2. /\ rows'[nrows + 1].consumed = FALSE
        /\ \A i \in Filed : rows'[i] = rows[i]
    BY <1>1, <1>a, <2>1 DEF OatInv, TypeOK, RowsOK, AddRequest
  <2> QED
    BY <1>1, <2>1, <2>2 DEF ConsumedWasTold, AddRequest, agent
<1>2. ASSUME NEW c \in Clients, WriteResult(c)
      PROVE  ConsumedWasTold'
  <2>1. /\ cid[c] \in Filed
        /\ creq[c] \in Rows
        /\ creq[c].consumed = TRUE => rows[cid[c]].consumed = TRUE
    BY <1>2 DEF OatInv, TypeOK, ClientsOK, CallCopy, WriteResult
  <2>2. PICK v \in Results : rows' = [rows EXCEPT ![cid[c]] = [creq[c] EXCEPT !.result = v]]
    BY <1>2 DEF WriteResult, Results
  <2>3. /\ rows'[cid[c]].consumed = creq[c].consumed
        /\ \A j \in Filed : j # cid[c] => rows'[j] = rows[j]
    BY <1>a, <2>1, <2>2, CopyWritten DEF OatInv, TypeOK, RowsOK
  <2> QED
    BY <1>2, <2>1, <2>3 DEF ConsumedWasTold, WriteResult, agent, Filed
<1>3. ASSUME NEW h \in Hosts, ConsumeRequest(h)
      PROVE  ConsumedWasTold'
  <2>1. aid[h] \in Filed /\ arow[h] \in Rows
    BY <1>3 DEF OatInv, TypeOK, AgentsOK, ConsumeRequest
  <2>2. delivered'[aid[h]] # 0 /\ \A j \in Ids : j # aid[h] => delivered'[j] = delivered[j]
    BY <1>3, <1>a, <2>1 DEF ConsumeRequest
  <2>3. \A j \in Filed : j # aid[h] => rows'[j] = rows[j]
    BY <1>3, <1>a, <2>1 DEF OatInv, TypeOK, RowsOK, ConsumeRequest
  <2>4. \A g \in Hosts : apc'[g] = "appraised" => apc[g] = "appraised" /\ aid'[g] = aid[g]
    BY <1>3 DEF OatInv, TypeOK, AgentsOK, ConsumeRequest
  <2>5. \A g \in Hosts : apc[g] = "appraised" => aid[g] \in Ids
    BY <1>a DEF OatInv, TypeOK, AgentsOK
  <2>6. Filed' = Filed
    BY <1>3 DEF ConsumeRequest, Filed
  <2> QED
    BY <1>a, <2>1, <2>2, <2>3, <2>4, <2>5, <2>6 DEF ConsumedWasTold
<1>4. ASSUME NEW h \in Hosts, NEW i \in Ids, SubmitReport(h, i)
      PROVE  ConsumedWasTold'
  <2>1. i \in Filed /\ rows[i].consumed = TRUE
    BY <1>4 DEF SubmitReport, IsFirst, Unattested
  <2> QED
    BY <1>4, <2>1 DEF OatInv, TypeOK, AgentsOK, ConsumedWasTold, SubmitReport, Filed
<1>5. ASSUME NEW h \in Hosts, StoreVerdict(h)
      PROVE  ConsumedWasTold'
  <2>1. aid[h] \in Filed
    BY <1>5 DEF OatInv, TypeOK, AgentsOK, StoreVerdict
  <2>2. delivered[aid[h]] # 0
    BY <1>5 DEF ConsumedWasTold, StoreVerdict
  <2>3. \A j \in Filed : j # aid[h] => rows'[j] = rows[j]
    BY <1>5, <1>a, <2>1 DEF OatInv, TypeOK, RowsOK, StoreVerdict
  <2>4. \A g \in Hosts : apc'[g] = "appraised" => apc[g] = "appraised" /\ aid'[g] = aid[g]
    BY <1>5 DEF OatInv, TypeOK, AgentsOK, StoreVerdict
  <2>5. Filed' = Filed /\ delivered' = delivered
    BY <1>5 DEF StoreVerdict, Filed
  <2> QED
    BY <2>2, <2>3, <2>4, <2>5 DEF ConsumedWasTold
<1>6. ASSUME UNCHANGED <<rows, nrows, delivered, aid>>,
             \A h \in Hosts : apc'[h] = "appraised" => apc[h] = "appraised"
      PROVE  ConsumedWasTold'
  BY <1>6 DEF ConsumedWasTold, Filed
<1>7. ASSUME NEW h \in Hosts, NEW i \in Ids, GetFirstRequest(h, i)
      PROVE  ConsumedWasTold'
  <2>1. \A g \in Hosts : apc'[g] = "appraised" => apc[g] = "appraised" /\ aid'[g] = aid[g]
    BY <1>7 DEF OatInv, TypeOK, AgentsOK, GetFirstRequest
  <2> QED
    BY <1>7, <2>1 DEF ConsumedWasTold, GetFirstRequest, Filed
<1>8. ASSUME NEW c \in Clients,
             FetchRequest(c) \/ CheckRequest(c) \/ IsAllAttested(c) \/ Respond(c)
      PROVE  ConsumedWasTold'
  BY <1>8, <1>6 DEF FetchRequest, CheckRequest, IsAllAttested, Respond, agent
<1>9. ASSUME NEW h \in Hosts,
             \/ DoNothing(h) \/ GetNonce(h) \/ \E good \in BOOLEAN : Measure(h, good)
             \/ MeasureFails(h) \/ \E valid, white \in BOOLEAN : Quote(h, valid, white)
             \/ AgentFails(h) \/ SubmitUnasked(h) \/ Enroll(h)
      PROVE  ConsumedWasTold'
  <2>1. UNCHANGED <<rows, nrows, delivered, aid>>
    BY <1>9 DEF DoNothing, GetNonce, Measure, MeasureFails, Quote, AgentFails, SubmitUnasked,
                Enroll, vars, agent
  <2>2. \A g \in Hosts : apc'[g] = "appraised" => apc[g] = "appraised"
    BY <1>9 DEF OatInv, TypeOK, AgentsOK, DoNothing, GetNonce, Measure, MeasureFails, Quote,
                AgentFails, SubmitUnasked, Enroll, vars, agent
  <2> QED
    BY <1>6, <2>1, <2>2
<1>10. ASSUME NEW i \in Ids, Expire(i) PROVE ConsumedWasTold'
  BY <1>10, <1>6 DEF Expire, agent
<1>11. CASE UNCHANGED vars
  BY <1>11, <1>6 DEF vars, agent
<1> QED
  BY <1>1, <1>2, <1>3, <1>4, <1>5, <1>7, <1>8, <1>9, <1>10, <1>11 DEF Next, PollHosts, Agent

(* In every state a consumed row belongs to a request that was handed out.  *)
THEOREM ConsumedRowsWereTold == Spec => []ConsumedWasTold
<1>1. Init => ConsumedWasTold
  BY DEF Init, ConsumedWasTold, Filed
<1> QED
  BY <1>1, ToldStep, OatInvariant, PTL DEF Spec

------------------------------------------------------------------------------
(* A step that leaves the table, the hand-outs and the answers alone.       *)
LEMMA PromiseStutter ==
    ASSUME UNCHANGED <<rows, nrows, delivered, answer>>
    PROVE  UNCHANGED Promise!pvars
BY DEF Promise!pvars, ToldRequests, StoredVerdict, Filed

(* Every step of OatAttestation is a step of AttestationPromise or leaves   *)
(* its state alone.                                                         *)
LEMMA PromiseStep ==
    OatInv /\ ConsumedWasTold /\ [Next]_vars => [Promise!Next]_Promise!pvars
<1> SUFFICES ASSUME OatInv, ConsumedWasTold, [Next]_vars
             PROVE  [Promise!Next]_Promise!pvars
  OBVIOUS
<1>a. /\ Filed \subseteq Ids
      /\ Ids = Promise!Numbers
      /\ delivered \in [Ids -> 0 .. 2]
  BY MaxRequestsAssumption DEF OatInv, TypeOK, RowsOK, HistoryOK, Filed, Ids, Promise!Numbers
<1>b. \A i \in Filed : rows[i] \in Rows
  BY DEF OatInv, TypeOK, RowsOK
<1>1. ASSUME NEW c \in Clients, NEW h \in Hosts, NEW p \in Properties, AddRequest(c, h, p)
      PROVE  Promise!Next
  <2>1. Filed' = Filed \cup {nrows + 1} /\ nrows + 1 \in Ids /\ nrows + 1 \notin Filed
    BY <1>1, MaxRequestsAssumption DEF OatInv, TypeOK, RowsOK, AddRequest, Ids, Filed
  <2>2. /\ rows'[nrows + 1].result = NULL
        /\ \A i \in Filed : rows'[i] = rows[i]
    BY <1>1, <1>a, <2>1 DEF OatInv, TypeOK, RowsOK, AddRequest
  <2>3. delivered[nrows + 1] = 0 /\ delivered' = delivered
    BY <1>1, <2>1 DEF OatInv, TypeOK, RowsOK, OneCall, AddRequest, Ids
  <2>4. ToldRequests' = ToldRequests
    BY <2>1, <2>3 DEF ToldRequests
  <2>5. NULL \notin {"TRUSTED", "UN_TRUSTED"}
    BY OatNullAssumption DEF Results
  <2>6. StoredVerdict' = StoredVerdict
    BY <2>1, <2>2, <2>5 DEF StoredVerdict
  <2> QED
    BY <1>1, <2>4, <2>6 DEF AddRequest, Promise!Next, Promise!File
<1>2. ASSUME NEW c \in Clients, WriteResult(c)
      PROVE  [Promise!Next]_Promise!pvars
  <2> DEFINE i == cid[c]
  <2>1. /\ i \in Filed
        /\ creq[c] \in Rows
        /\ answer[i] = NULL
    BY <1>2 DEF OatInv, TypeOK, ClientsOK, OneCall, WriteResult
  <2>2. PICK v \in {"UN_KNOWN", "TIME_OUT"} :
               rows' = [rows EXCEPT ![i] = [creq[c] EXCEPT !.result = v]]
    BY <1>2 DEF WriteResult
  <2>3. /\ rows'[i].result = v
        /\ \A j \in Filed : j # i => rows'[j] = rows[j]
    BY <1>a, <2>1, <2>2, CopyWritten DEF OatInv, TypeOK, RowsOK, Results
  <2>4. Filed' = Filed /\ nrows' = nrows /\ delivered' = delivered /\ answer' = answer
    BY <1>2 DEF WriteResult, Filed
  <2>5. ToldRequests' = ToldRequests
    BY <2>4 DEF ToldRequests
  <2>6. v \notin {"TRUSTED", "UN_TRUSTED"}
    OBVIOUS
  <2>7. StoredVerdict' = [StoredVerdict EXCEPT ![i] = NULL]
    BY <1>a, <2>1, <2>3, <2>4, <2>6 DEF StoredVerdict
  <2>8. CASE StoredVerdict[i] = NULL
    <3>1. StoredVerdict' = StoredVerdict
      BY <1>a, <2>1, <2>7, <2>8 DEF StoredVerdict
    <3> QED
      BY <2>4, <2>5, <3>1 DEF Promise!pvars
  <2>9. CASE StoredVerdict[i] # NULL
    BY <1>a, <2>1, <2>4, <2>5, <2>7, <2>9 DEF Promise!Next, Promise!Overrule
  <2> QED
    BY <2>8, <2>9
<1>3. ASSUME NEW c \in Clients, Respond(c)
      PROVE  Promise!Next
  <2> DEFINE i == cid[c]
             r == IF rows[i].result = NULL THEN "PENDING" ELSE rows[i].result
  <2>1. i \in Filed /\ answer[i] = NULL
    BY <1>3 DEF OatInv, TypeOK, ClientsOK, OneCall, Respond
  <2>2. rows[i].result \in Results \cup {NULL}
    BY <1>b, <2>1 DEF Rows
  <2>3. NULL \notin Results
    BY OatNullAssumption
  <2>4. IF StoredVerdict[i] = NULL THEN r \in Promise!Excuses ELSE r = StoredVerdict[i]
    BY <1>a, <2>1, <2>2, <2>3 DEF StoredVerdict, Results, Promise!Excuses
  <2>5. r \in Promise!Verdicts \cup Promise!Excuses
    BY <2>2 DEF Results, Promise!Verdicts, Promise!Excuses
  <2>6. answer' = [answer EXCEPT ![i] = r]
    BY <1>3 DEF Respond
  <2>7. UNCHANGED <<nrows, ToldRequests, StoredVerdict>>
    BY <1>3 DEF Respond, ToldRequests, StoredVerdict, Filed
  <2>8. Promise!Answer(i, r)
    BY <2>1, <2>4, <2>6, <2>7 DEF Promise!Answer, Filed
  <2> QED
    BY <1>a, <2>1, <2>5, <2>8 DEF Promise!Next
<1>4. ASSUME NEW h \in Hosts, ConsumeRequest(h)
      PROVE  Promise!Next
  <2> DEFINE i == aid[h]
  <2>1. /\ i \in Filed
        /\ arow[h] \in Rows
        /\ arow[h].result = NULL
        /\ rows[i].auditLog = NULL
        /\ delivered[i] = 0
    BY <1>4 DEF OatInv, TypeOK, AgentsOK, AgentRow, AgentCopy, ConsumeRequest
  <2>2. rows[i].result \notin {"TRUSTED", "UN_TRUSTED"}
    BY <2>1 DEF OatInv, VerdictHasReport
  <2>3. /\ rows'[i].result = NULL
        /\ \A j \in Filed : j # i => rows'[j] = rows[j]
    BY <1>4, <1>a, <2>1, RowConsumed DEF OatInv, TypeOK, RowsOK, ConsumeRequest
  <2>4. Filed' = Filed /\ nrows' = nrows /\ answer' = answer
    BY <1>4 DEF ConsumeRequest, Filed
  <2>5. NULL \notin {"TRUSTED", "UN_TRUSTED"}
    BY OatNullAssumption DEF Results
  <2>6. StoredVerdict' = StoredVerdict
    BY <2>1, <2>2, <2>3, <2>4, <2>5 DEF StoredVerdict
  <2>7. delivered'[i] = 1 /\ \A j \in Ids : j # i => delivered'[j] = delivered[j]
    BY <1>4, <1>a, <2>1 DEF ConsumeRequest
  <2>8. ToldRequests' = ToldRequests \cup {i} /\ i \notin ToldRequests
    BY <1>a, <2>1, <2>4, <2>7 DEF ToldRequests
  <2>9. Promise!HandOut(i)
    BY <2>1, <2>4, <2>6, <2>8 DEF Promise!HandOut, Filed
  <2> QED
    BY <1>a, <2>1, <2>9 DEF Promise!Next
<1>5. ASSUME NEW h \in Hosts, StoreVerdict(h)
      PROVE  Promise!Next
  <2> DEFINE i == aid[h]
  <2>1. /\ i \in Filed
        /\ arow[h] \in Rows
        /\ arow[h].result \in Verdict
        /\ rows[i].auditLog = NULL
        /\ delivered[i] # 0
    BY <1>5 DEF OatInv, TypeOK, AgentsOK, AgentRow, AgentCopy, ConsumedWasTold, StoreVerdict
  <2>2. rows[i].result \notin Verdict
    BY <2>1 DEF OatInv, VerdictHasReport, Verdict
  <2>3. answer[i] \notin Promise!Verdicts
    BY <2>1, <2>2 DEF OatInv, AnsweredVerdictStands, Verdict, Promise!Verdicts
  <2>4. /\ rows'[i] = arow[h]
        /\ \A j \in Filed : j # i => rows'[j] = rows[j]
    BY <1>5, <1>a, <2>1 DEF OatInv, TypeOK, RowsOK, StoreVerdict
  <2>5. Filed' = Filed /\ nrows' = nrows /\ answer' = answer /\ delivered' = delivered
    BY <1>5 DEF StoreVerdict, Filed
  <2>6. StoredVerdict' = [StoredVerdict EXCEPT ![i] = arow[h].result]
    BY <1>a, <2>1, <2>4, <2>5 DEF StoredVerdict, Verdict
  <2>7. StoredVerdict[i] = NULL /\ i \in ToldRequests /\ ToldRequests' = ToldRequests
    BY <1>a, <2>1, <2>2, <2>5 DEF StoredVerdict, ToldRequests, Verdict
  <2>8. Promise!Decide(i, arow[h].result)
    BY <2>3, <2>5, <2>6, <2>7 DEF Promise!Decide
  <2> QED
    BY <1>a, <2>1, <2>8 DEF Promise!Next, Verdict, Promise!Verdicts
<1>6. ASSUME NEW c \in Clients, FetchRequest(c) \/ CheckRequest(c) \/ IsAllAttested(c)
      PROVE  UNCHANGED Promise!pvars
  BY <1>6, PromiseStutter DEF FetchRequest, CheckRequest, IsAllAttested
<1>7. ASSUME NEW h \in Hosts,
             \/ DoNothing(h) \/ GetNonce(h) \/ \E good \in BOOLEAN : Measure(h, good)
             \/ MeasureFails(h) \/ \E valid, white \in BOOLEAN : Quote(h, valid, white)
             \/ AgentFails(h) \/ SubmitUnasked(h) \/ Enroll(h)
             \/ \E i \in Ids : GetFirstRequest(h, i) \/ SubmitReport(h, i)
      PROVE  UNCHANGED Promise!pvars
  BY <1>7, PromiseStutter DEF DoNothing, GetNonce, Measure, MeasureFails, Quote, AgentFails,
     SubmitUnasked, Enroll, GetFirstRequest, SubmitReport, vars
<1>8. ASSUME NEW i \in Ids, Expire(i)
      PROVE  UNCHANGED Promise!pvars
  BY <1>8, PromiseStutter DEF Expire
<1>9. CASE UNCHANGED vars
  BY <1>9, PromiseStutter DEF vars
<1> QED
  BY <1>1, <1>2, <1>3, <1>4, <1>5, <1>6, <1>7, <1>8, <1>9 DEF Next, PollHosts, Agent

(* What the clients of PollHosts are promised is kept by the server with    *)
(* its stale whole-row writes, the polling web service and the agents.      *)
THEOREM OatImplementsPromise == Spec => KeepsPromise
<1>1. Init => Promise!Init
  BY DEF Init, Promise!Init, ToldRequests, StoredVerdict, Filed, Ids, Promise!Numbers
<1> QED
  BY <1>1, PromiseStep, OatInvariant, ConsumedRowsWereTold, PTL
     DEF Spec, KeepsPromise, Promise!Spec

==============================================================================
