---------------------------- MODULE OatAttestation ----------------------------
(***************************************************************************)
(* The life of an attestation request in the OpenAttestation server.       *)
(*                                                                         *)
(* A client's call of PollHosts (HOSTResource.pollHosts) files a row in    *)
(* attest_request and loops until the row has a result, writing UN_KNOWN   *)
(* or TIME_OUT itself when the host is not enrolled or too slow.  The      *)
(* agent on the host (StandaloneHIS) polls for the row (getNextAction),    *)
(* fetches a nonce and what to measure (getNonce), lets attestation_kernel *)
(* put the measurement into the PCRs of its property, quotes all PCRs and  *)
(* posts its report (postIntegrityReport, submitReport), whose appraisal   *)
(* writes TRUSTED or UN_TRUSTED.                                           *)
(*                                                                         *)
(* All of them write whole rows: the Hibernate mapping has neither         *)
(* dynamic-update nor a version column, so an UPDATE puts back every       *)
(* column as its transaction, or the calling thread, once read it.         *)
(***************************************************************************)
EXTENDS Integers, FiniteSets

CONSTANTS
    Hosts,          \* attested hosts, each with one agent
    Clients,        \* threads of the server serving PollHosts calls
    Interpreted,    \* security properties measured into PCRs of their own, 1..3
    OtherProps,     \* the others, judged by the PCR white list of the host
    MaxRequests,    \* bound on the requests ever filed
    NULL            \* SQL NULL

ASSUME MaxRequestsAssumption == MaxRequests \in Nat

VARIABLES
    rows, nrows,              \* table attest_request and its auto-increment id
    enrolled,                 \* hosts with an active machine certificate
    expired,                  \* requests older than the attestation timeout
    cpc, cid, creq,           \* PollHosts: pc, its request, its copy of the row
    apc, aid, arow, areport,  \* agent and the web service call it is in: pc, row id and
                              \* row read by the transaction, report
    pcr,                      \* the measurement in the PCRs of each property, per host
    delivered,                \* history: how often a request was handed to an agent
    answer                    \* history: the trust level answered to a request

client == <<cpc, cid, creq>>
agent  == <<apc, aid, arow, areport, pcr>>
vars   == <<rows, nrows, enrolled, expired, client, agent, delivered, answer>>

------------------------------------------------------------------------------
Ids        == 1 .. MaxRequests
Properties == Interpreted \cup OtherProps
Actions    == {"SEND_REPORT", "DO_NOTHING"}
Results    == {"UN_TRUSTED", "TRUSTED", "UN_KNOWN", "TIME_OUT"}

\* A measurement: for which request it was taken, 0 for none, and whether
\* what it shows is what the property asks for.
Measurements == [of : 0 .. MaxRequests, good : BOOLEAN]

\* A report: the request and property the nonce came with, whether the quote
\* verifies and the PCRs match the white list, and the quoted measurements.
Reports == [about : Ids, property : Properties, valid : BOOLEAN, white : BOOLEAN,
            pcr : [Interpreted -> Measurements]]

Rows == [host : Hosts, property : Properties, cert : BOOLEAN, nextAction : Actions,
         consumed : BOOLEAN, auditLog : Reports \cup {NULL},
         result : Results \cup {NULL}]

\* SQL NULL is told apart from the values of the columns that can hold it.
ASSUME OatNullAssumption == NULL \notin Reports \cup Results

ClientPcs == {"idle", "fetch", "check", "unknown", "timeout", "wait", "respond"}
AgentPcs  == {"idle", "poll", "told", "measure", "quote", "report", "appraised"}

Filed == 1 .. nrows

\* The rows of host h the two queries of AttestDao select, and the first of
\* them in the order of the request time.
Unattested(h, consumed) ==
    {i \in Filed : /\ rows[i].host = h
                   /\ rows[i].consumed = consumed
                   /\ rows[i].auditLog = NULL
                   /\ rows[i].result = NULL}

IsFirst(i, S) == i \in S /\ \A j \in S : i <= j

\* The flag of validatePCRReport: the PCRs match the white list of the host,
\* unless the property is one of those interpreted from PCRs of its own.
PropertyHolds(row, report) ==
    IF row.property \in Interpreted THEN report.pcr[row.property].good ELSE report.white

\* HisReportValidator finds no errors: the quote is well formed, holds the nonce
\* and verifies under the certificate of the machine.
HasNoErrors(report, certified) == certified /\ report.valid

Appraise(row, report, certified) ==
    IF HasNoErrors(report, certified) /\ PropertyHolds(row, report)
    THEN "TRUSTED" ELSE "UN_TRUSTED"

RowsOK ==
    /\ nrows \in 0 .. MaxRequests
    /\ rows \in [Ids -> Rows \cup {NULL}]
    /\ \A i \in Filed : rows[i] \in Rows
    /\ enrolled \subseteq Hosts
    /\ expired \subseteq Filed

ClientsOK ==
    /\ cpc \in [Clients -> ClientPcs]
    /\ cid \in [Clients -> Filed \cup {0}]
    /\ creq \in [Clients -> Rows \cup {NULL}]
    /\ \A c \in Clients : cpc[c] # "idle" => cid[c] \in Filed
    /\ \A c \in Clients : cpc[c] \notin {"idle", "fetch"} => creq[c] \in Rows

AgentsOK ==
    /\ apc \in [Hosts -> AgentPcs]
    /\ aid \in [Hosts -> Filed \cup {0}]
    /\ arow \in [Hosts -> Rows \cup {NULL}]
    /\ areport \in [Hosts -> Reports \cup {NULL}]
    /\ \A h \in Hosts :
          apc[h] \in {"poll", "appraised"} => aid[h] \in Filed /\ arow[h] \in Rows
    /\ \A h \in Hosts :
          apc[h] \in {"measure", "quote", "report", "appraised"} => areport[h] \in Reports
    /\ \A h \in Hosts : apc[h] = "told" => nrows > 0
    /\ pcr \in [Hosts -> [Interpreted -> Measurements]]

HistoryOK ==
    /\ delivered \in [Ids -> 0 .. 2]
    /\ answer \in [Ids -> Results \cup {NULL, "PENDING"}]

(* The table, the calls and the agents are typed; a call that may write its *)
(* copy of the row and an agent inside a transaction hold a filed row.      *)
TypeOK == RowsOK /\ ClientsOK /\ AgentsOK /\ HistoryOK

Init ==
    /\ rows = [i \in Ids |-> NULL]
    /\ nrows = 0
    /\ enrolled = {}
    /\ expired = {}
    /\ cpc = [c \in Clients |-> "idle"]
    /\ cid = [c \in Clients |-> 0]
    /\ creq = [c \in Clients |-> NULL]
    /\ apc = [h \in Hosts |-> "idle"]
    /\ aid = [h \in Hosts |-> 0]
    /\ arow = [h \in Hosts |-> NULL]
    /\ areport = [h \in Hosts |-> NULL]
    /\ pcr \in [Hosts -> [Interpreted -> [of : {0}, good : BOOLEAN]]]
    /\ delivered = [i \in Ids |-> 0]
    /\ answer = [i \in Ids |-> NULL]

------------------------------------------------------------------------------
(* Faulty variants of the actions below, substituted for them one at a time *)
(* to confirm that the properties can fail.                                 *)

\* The result is put into the row as it now is.
WriteResultColumn(c) ==
    /\ cpc[c] \in {"unknown", "timeout"}
    /\ rows' = [rows EXCEPT ![cid[c]].result =
                   IF cpc[c] = "unknown" THEN "UN_KNOWN" ELSE "TIME_OUT"]
    /\ cpc' = [cpc EXCEPT ![c] = "wait"]
    /\ UNCHANGED <<nrows, enrolled, expired, cid, creq, agent, delivered, answer>>

\* The time used is not looked at.
CheckWithoutTimeout(c) ==
    /\ cpc[c] = "check"
    /\ cpc' = [cpc EXCEPT ![c] =
                  IF rows[cid[c]].result = NULL /\ ~creq[c].cert THEN "unknown" ELSE "wait"]
    /\ UNCHANGED <<rows, nrows, enrolled, expired, cid, creq, agent, delivered, answer>>

\* The answer is taken from the copy of the loop.
RespondFromCopy(c) ==
    /\ cpc[c] = "respond"
    /\ answer' = [answer EXCEPT ![cid[c]] =
                     IF creq[c].result = NULL THEN "PENDING" ELSE creq[c].result]
    /\ cpc' = [cpc EXCEPT ![c] = "idle"]
    /\ cid' = [cid EXCEPT ![c] = 0]
    /\ creq' = [creq EXCEPT ![c] = NULL]
    /\ UNCHANGED <<rows, nrows, enrolled, expired, agent, delivered>>

\* The flag is_consumed is not set with the action.
ConsumeKeepsFlag(h) ==
    /\ apc[h] = "poll"
    /\ rows' = [rows EXCEPT ![aid[h]] = [arow[h] EXCEPT !.nextAction = "DO_NOTHING"]]
    /\ apc' = [apc EXCEPT ![h] = IF arow[h].nextAction = "SEND_REPORT" THEN "told" ELSE "idle"]
    /\ delivered' = [delivered EXCEPT ![aid[h]] = IF @ = 2 THEN 2 ELSE @ + 1]
    /\ aid' = [aid EXCEPT ![h] = 0]
    /\ arow' = [arow EXCEPT ![h] = NULL]
    /\ UNCHANGED <<nrows, enrolled, expired, client, areport, pcr, answer>>

\* The row described is the one before the newest.
GetNonceOneBehind(h) ==
    /\ apc[h] = "told"
    /\ apc' = [apc EXCEPT ![h] = "measure"]
    /\ areport' = [areport EXCEPT ![h] =
                      [about |-> IF nrows > 1 THEN nrows - 1 ELSE nrows,
                       property |-> rows[nrows].property,
                       valid |-> FALSE, white |-> FALSE, pcr |-> pcr[h]]]
    /\ UNCHANGED <<rows, nrows, enrolled, expired, client, aid, arow, pcr, delivered, answer>>

\* The test getId() != null is missing: the empty request is appraised.
SubmitToNothing(h) ==
    /\ apc[h] = "report"
    /\ Unattested(h, TRUE) = {}
    /\ apc' = [apc EXCEPT ![h] = "appraised"]
    /\ UNCHANGED <<rows, nrows, enrolled, expired, client, aid, arow, areport, pcr,
                   delivered, answer>>

------------------------------------------------------------------------------
(* The call of PollHosts, without a time threshold.                         *)

\* addRequests: the certificate is looked up once, when the row is filed.
AddRequest(c, h, p) ==
    /\ cpc[c] = "idle"
    /\ nrows < MaxRequests
    /\ nrows' = nrows + 1
    /\ rows' = [rows EXCEPT ![nrows + 1] =
                  [host |-> h, property |-> p, cert |-> h \in enrolled,
                   nextAction |-> "SEND_REPORT", consumed |-> FALSE,
                   auditLog |-> NULL, result |-> NULL]]
    /\ cpc' = [cpc EXCEPT ![c] = "fetch"]
    /\ cid' = [cid EXCEPT ![c] = nrows + 1]
    /\ UNCHANGED <<enrolled, expired, creq, agent, delivered, answer>>

\* getRequestsByReqId: the copy the loop will write back.
FetchRequest(c) ==
    /\ cpc[c] = "fetch"
    /\ creq' = [creq EXCEPT ![c] = rows[cid[c]]]
    /\ cpc' = [cpc EXCEPT ![c] = "check"]
    /\ UNCHANGED <<rows, nrows, enrolled, expired, cid, agent, delivered, answer>>

\* loadRequest and the tests on it.
CheckRequest(c) ==
    /\ cpc[c] = "check"
    /\ cpc' = [cpc EXCEPT ![c] =
                  CASE rows[cid[c]].result # NULL -> "wait"
                    [] rows[cid[c]].result = NULL /\ ~creq[c].cert -> "unknown"
                    [] rows[cid[c]].result = NULL /\ creq[c].cert /\ cid[c] \in expired
                         -> "timeout"
                    [] OTHER -> "wait"]
    /\ UNCHANGED <<rows, nrows, enrolled, expired, cid, creq, agent, delivered, answer>>

\* updateRequest of the copy fetched before the loop.
WriteResult(c) ==
    /\ cpc[c] \in {"unknown", "timeout"}
    /\ LET req == [creq[c] EXCEPT !.result =
                      IF cpc[c] = "unknown" THEN "UN_KNOWN" ELSE "TIME_OUT"]
       IN  /\ creq' = [creq EXCEPT ![c] = req]
           /\ rows' = [rows EXCEPT ![cid[c]] = req]
    /\ cpc' = [cpc EXCEPT ![c] = "wait"]
    /\ UNCHANGED <<nrows, enrolled, expired, cid, agent, delivered, answer>>

\* The sleep, then isAllAttested.
IsAllAttested(c) ==
    /\ cpc[c] = "wait"
    /\ cpc' = [cpc EXCEPT ![c] = IF rows[cid[c]].result = NULL THEN "check" ELSE "respond"]
    /\ UNCHANGED <<rows, nrows, enrolled, expired, cid, creq, agent, delivered, answer>>

\* getRespSyncResult reads the row once more; no result reads as PENDING.
Respond(c) ==
    /\ cpc[c] = "respond"
    /\ answer' = [answer EXCEPT ![cid[c]] =
                     IF rows[cid[c]].result = NULL THEN "PENDING" ELSE rows[cid[c]].result]
    /\ cpc' = [cpc EXCEPT ![c] = "idle"]
    /\ cid' = [cid EXCEPT ![c] = 0]
    /\ creq' = [creq EXCEPT ![c] = NULL]
    /\ UNCHANGED <<rows, nrows, enrolled, expired, agent, delivered>>

------------------------------------------------------------------------------
(* The agent of a host and the web services it calls.                       *)

\* getNextAction finds no request for the host: DO_NOTHING, and poll again.
DoNothing(h) ==
    /\ apc[h] = "idle"
    /\ Unattested(h, FALSE) = {}
    /\ UNCHANGED vars

\* getNextAction reads the first unconsumed request of the host ...
GetFirstRequest(h, i) ==
    /\ apc[h] = "idle"
    /\ IsFirst(i, Unattested(h, FALSE))
    /\ aid' = [aid EXCEPT ![h] = i]
    /\ arow' = [arow EXCEPT ![h] = rows[i]]
    /\ apc' = [apc EXCEPT ![h] = "poll"]
    /\ UNCHANGED <<rows, nrows, enrolled, expired, client, areport, pcr, delivered, answer>>

\* ... and writes it back as consumed, every other column as it read it.
ConsumeRequest(h) ==
    /\ apc[h] = "poll"
    /\ rows' = [rows EXCEPT ![aid[h]] = [arow[h] EXCEPT !.nextAction = "DO_NOTHING",
                                                        !.consumed = TRUE]]
    /\ apc' = [apc EXCEPT ![h] = IF arow[h].nextAction = "SEND_REPORT" THEN "told" ELSE "idle"]
    /\ delivered' = [delivered EXCEPT ![aid[h]] = IF @ = 2 THEN 2 ELSE @ + 1]
    /\ aid' = [aid EXCEPT ![h] = 0]
    /\ arow' = [arow EXCEPT ![h] = NULL]
    /\ UNCHANGED <<nrows, enrolled, expired, client, areport, pcr, answer>>

\* getNonce: what to measure is read from the row whose id is the number of
\* rows, the newest request of all hosts.
GetNonce(h) ==
    /\ apc[h] = "told"
    /\ apc' = [apc EXCEPT ![h] = "measure"]
    /\ areport' = [areport EXCEPT ![h] =
                      [about |-> nrows, property |-> rows[nrows].property,
                       valid |-> FALSE, white |-> FALSE, pcr |-> pcr[h]]]
    /\ UNCHANGED <<rows, nrows, enrolled, expired, client, aid, arow, pcr, delivered, answer>>

\* attestation_kernel profiles the VM and overwrites the PCRs of the property;
\* it knows none of the other properties and does nothing for them.
Measure(h, good) ==
    /\ apc[h] = "measure"
    /\ apc' = [apc EXCEPT ![h] = "quote"]
    /\ pcr' = [pcr EXCEPT ![h] =
                  [p \in Interpreted |->
                      IF p = areport[h].property
                      THEN [of |-> areport[h].about, good |-> good] ELSE pcr[h][p]]]
    /\ UNCHANGED <<rows, nrows, enrolled, expired, client, aid, arow, areport, delivered, answer>>

\* attestation_kernel does not find the VM on this host, aborts, cannot be
\* started or is killed at the timeout: checkIntegrity goes on with the PCRs
\* as they are.
MeasureFails(h) ==
    /\ apc[h] = "measure"
    /\ apc' = [apc EXCEPT ![h] = "quote"]
    /\ UNCHANGED <<rows, nrows, enrolled, expired, client, aid, arow, areport, pcr,
                   delivered, answer>>

\* runTPMrequest: the TPM reads the PCRs and signs them with the nonce.
Quote(h, valid, white) ==
    /\ apc[h] = "quote"
    /\ apc' = [apc EXCEPT ![h] = "report"]
    /\ areport' = [areport EXCEPT ![h] =
                      [@ EXCEPT !.valid = valid, !.white = white, !.pcr = pcr[h]]]
    /\ UNCHANGED <<rows, nrows, enrolled, expired, client, aid, arow, pcr, delivered, answer>>

\* An exception in checkIntegrity, a lost call, a restart of the agent, or a
\* report whose processing raises and is rolled back (an empty one, a
\* measurement that does not parse, a white list entry that names no PCR): the
\* agent goes back to polling.
AgentFails(h) ==
    /\ apc[h] \in {"told", "measure", "quote", "report"}
    /\ apc' = [apc EXCEPT ![h] = "idle"]
    /\ areport' = [areport EXCEPT ![h] = NULL]
    /\ UNCHANGED <<rows, nrows, enrolled, expired, client, aid, arow, pcr, delivered, answer>>

\* submitReport finds no polled request: only the audit log keeps the report.
SubmitUnasked(h) ==
    /\ apc[h] = "report"
    /\ Unattested(h, TRUE) = {}
    /\ apc' = [apc EXCEPT ![h] = "idle"]
    /\ areport' = [areport EXCEPT ![h] = NULL]
    /\ UNCHANGED <<rows, nrows, enrolled, expired, client, aid, arow, pcr, delivered, answer>>

\* submitReport appraises the report for the first polled request.
SubmitReport(h, i) ==
    /\ apc[h] = "report"
    /\ IsFirst(i, Unattested(h, TRUE))
    /\ aid' = [aid EXCEPT ![h] = i]
    /\ arow' = [arow EXCEPT ![h] =
                   [rows[i] EXCEPT !.auditLog = areport[h],
                                   !.result = Appraise(rows[i], areport[h], h \in enrolled)]]
    /\ apc' = [apc EXCEPT ![h] = "appraised"]
    /\ UNCHANGED <<rows, nrows, enrolled, expired, client, areport, pcr, delivered, answer>>

\* The UPDATE of the appraised row and the commit.
StoreVerdict(h) ==
    /\ apc[h] = "appraised"
    /\ rows' = [rows EXCEPT ![aid[h]] = arow[h]]
    /\ apc' = [apc EXCEPT ![h] = "idle"]
    /\ aid' = [aid EXCEPT ![h] = 0]
    /\ arow' = [arow EXCEPT ![h] = NULL]
    /\ areport' = [areport EXCEPT ![h] = NULL]
    /\ UNCHANGED <<nrows, enrolled, expired, client, pcr, delivered, answer>>

------------------------------------------------------------------------------
\* enrollHisMachine gives the host an active certificate.
Enroll(h) ==
    /\ h \notin enrolled
    /\ enrolled' = enrolled \cup {h}
    /\ UNCHANGED <<rows, nrows, expired, client, agent, delivered, answer>>

\* The default attestation timeout of a request passes.
Expire(i) ==
    /\ i \in Filed \ expired
    /\ expired' = expired \cup {i}
    /\ UNCHANGED <<rows, nrows, enrolled, client, agent, delivered, answer>>

PollHosts(c) ==
    \/ \E h \in Hosts, p \in Properties : AddRequest(c, h, p)
    \/ FetchRequest(c)
    \/ CheckRequest(c)
    \/ WriteResult(c)
    \/ IsAllAttested(c)
    \/ Respond(c)

Agent(h) ==
    \/ DoNothing(h)
    \/ \E i \in Ids : GetFirstRequest(h, i)
    \/ ConsumeRequest(h)
    \/ GetNonce(h)
    \/ \E good \in BOOLEAN : Measure(h, good)
    \/ MeasureFails(h)
    \/ \E valid, white \in BOOLEAN : Quote(h, valid, white)
    \/ AgentFails(h)
    \/ SubmitUnasked(h)
    \/ \E i \in Ids : SubmitReport(h, i)
    \/ StoreVerdict(h)

Next ==
    \/ \E c \in Clients : PollHosts(c)
    \/ \E h \in Hosts : Agent(h) \/ Enroll(h)
    \/ \E i \in Ids : Expire(i)

Spec == Init /\ [][Next]_vars

\* The server's threads run, time passes, and a transaction once begun by a
\* web service commits.  Nothing is assumed of the agents.
Fairness ==
    /\ \A c \in Clients : WF_vars(FetchRequest(c) \/ CheckRequest(c) \/ WriteResult(c)
                                    \/ IsAllAttested(c) \/ Respond(c))
    /\ \A h \in Hosts : WF_vars(ConsumeRequest(h) \/ StoreVerdict(h))
    /\ \A i \in Ids : WF_vars(Expire(i))

------------------------------------------------------------------------------
(* Whatever stale row is written back, TRUSTED and UN_TRUSTED stand only in *)
(* a row together with the report that was appraised, and the other results *)
(* only in a row without one: the two columns of the row belong together.   *)
VerdictHasReport ==
    \A i \in Filed :
        rows[i].auditLog # NULL <=> rows[i].result \in {"TRUSTED", "UN_TRUSTED"}

(* A report is never credited to a request filed after the agent fetched    *)
(* its nonce: the quote behind a verdict was made after the request came.   *)
VerdictIsFresh ==
    \A i \in Filed : rows[i].auditLog # NULL => rows[i].auditLog.about >= i

(* A verdict a client was told stands: the row keeps it whatever the agent  *)
(* and the other calls do later.  Other answers may still be overwritten.   *)
AnsweredVerdictStands ==
    \A i \in Filed :
        answer[i] \in {"TRUSTED", "UN_TRUSTED"} => rows[i].result = answer[i]

(* No request is handed to an agent twice, although the loop of pollHosts   *)
(* writes back rows it read before they were consumed.                      *)
DeliveredOnce == \A i \in Ids : delivered[i] <= 1

(* A measurement that takes too long needs "to throw an error"              *)
(* (StandaloneHIS.java:786): no verdict on a property rests on a            *)
(* measurement of it taken for an older request.                            *)
MeasurementIsFresh ==
    \A i \in Filed :
        rows[i].auditLog # NULL /\ rows[i].property \in Interpreted
            => rows[i].auditLog.pcr[rows[i].property].of >= i

==============================================================================
