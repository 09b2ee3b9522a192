----------------------------- MODULE OatThreshold -----------------------------
(***************************************************************************)
(* PollHosts with a time threshold, beside the calls without one and the   *)
(* agents of OatAttestation.                                               *)
(*                                                                         *)
(* A call with a threshold files its row with DO_NOTHING.  It then copies  *)
(* the last result of the host into the row if that is younger than the    *)
(* threshold, and otherwise only now sets SEND_REPORT; if there is no      *)
(* result it leaves a CheckAttestThread behind that writes UN_KNOWN or     *)
(* TIME_OUT, and answers at once.  A threshold of 0 files DO_NOTHING too   *)
(* but takes the branch that waits.                                        *)
(*                                                                         *)
(* Left open: the values of validateTime.  Any result of the host may be   *)
(* the last one, and it may or may not be younger than the threshold.      *)
(***************************************************************************)
EXTENDS OatAttestation

CONSTANT Earlier    \* number of requests answered before the behaviour begins

ASSUME EarlierAssumption == Earlier \in 0 .. MaxRequests

VARIABLES
    wpc, wreq,   \* CheckAttestThread of each request: pc, its copy of the row
    zero,        \* history: requests filed with a threshold of 0
    asked        \* history: how often an agent was told SEND_REPORT for a request

watcher == <<wpc, wreq>>
history == <<zero, asked>>
tvars   == <<vars, watcher, history>>

ThresholdPcs == {"fetch-t", "last", "update-t", "all-t"}
WatcherPcs   == {"none", "sleep", "check", "unknown", "timeout", "all", "ended"}

CallsOK ==
    /\ cpc \in [Clients -> ClientPcs \cup ThresholdPcs]
    /\ cid \in [Clients -> Filed \cup {0}]
    /\ creq \in [Clients -> Rows \cup {NULL}]
    /\ \A c \in Clients : cpc[c] \notin {"idle", "fetch", "fetch-t", "respond"}
                             => cid[c] \in Filed /\ creq[c] \in Rows

WatchersOK ==
    /\ wpc \in [Ids -> WatcherPcs]
    /\ wreq \in [Ids -> Rows \cup {NULL}]
    /\ \A i \in Ids : wpc[i] \in {"check", "unknown", "timeout"} => wreq[i] \in Rows

(* The threads and the calls of either kind are typed, and hold a row       *)
(* wherever they write one back.                                            *)
ThresholdTypeOK ==
    /\ RowsOK /\ AgentsOK /\ HistoryOK /\ CallsOK /\ WatchersOK
    /\ zero \subseteq Filed
    /\ asked \in [Ids -> 0 .. 2]

\* A row whose request was answered: with a verdict, or without a report.
AnsweredRow(i) ==
    [host : Hosts, property : Properties, cert : {TRUE}, nextAction : {"DO_NOTHING"},
     consumed : {TRUE}, auditLog : {r \in Reports : r.about = i},
     result : {"TRUSTED", "UN_TRUSTED"}]
    \cup
    [host : Hosts, property : Properties, cert : {TRUE}, nextAction : {"DO_NOTHING"},
     consumed : {TRUE}, auditLog : {NULL}, result : {"TIME_OUT"}]
    \cup
    [host : Hosts, property : Properties, cert : {FALSE}, nextAction : {"SEND_REPORT"},
     consumed : {FALSE}, auditLog : {NULL}, result : {"UN_KNOWN"}]

TInit ==
    /\ nrows = Earlier
    /\ enrolled \in SUBSET Hosts
    /\ \E f \in [1 .. Earlier -> UNION {AnsweredRow(i) : i \in 1 .. Earlier}] :
          /\ \A i \in 1 .. Earlier :
                /\ f[i] \in AnsweredRow(i)
                /\ f[i].auditLog # NULL => f[i].result = Appraise(f[i], f[i].auditLog, TRUE)
                /\ f[i].cert => f[i].host \in enrolled
          /\ rows = [i \in Ids |-> IF i <= Earlier THEN f[i] ELSE NULL]
          /\ delivered = [i \in Ids |-> IF i <= Earlier /\ f[i].consumed THEN 1 ELSE 0]
          /\ answer = [i \in Ids |-> IF i <= Earlier THEN f[i].result ELSE NULL]
    /\ expired = 1 .. Earlier
    /\ cpc = [c \in Clients |-> "idle"]
    /\ cid = [c \in Clients |-> 0]
    /\ creq = [c \in Clients |-> NULL]
    /\ apc = [h \in Hosts |-> "idle"]
    /\ aid = [h \in Hosts |-> 0]
    /\ arow = [h \in Hosts |-> NULL]
    /\ areport = [h \in Hosts |-> NULL]
    /\ pcr \in [Hosts -> [Interpreted -> [of : {0}, good : BOOLEAN]]]
    /\ wpc = [i \in Ids |-> "none"]
    /\ wreq = [i \in Ids |-> NULL]
    /\ zero = {}
    /\ asked = delivered

------------------------------------------------------------------------------
(* Faulty variants, substituted to confirm that the properties can fail.    *)

\* The row is filed with SEND_REPORT whatever the threshold.
AddAsking(c, h, p, isZero) ==
    /\ cpc[c] = "idle"
    /\ nrows < MaxRequests
    /\ nrows' = nrows + 1
    /\ rows' = [rows EXCEPT ![nrows + 1] =
                  [host |-> h, property |-> p, cert |-> h \in enrolled,
                   nextAction |-> "SEND_REPORT", consumed |-> FALSE,
                   auditLog |-> NULL, result |-> NULL]]
    /\ cpc' = [cpc EXCEPT ![c] = IF isZero THEN "fetch" ELSE "fetch-t"]
    /\ cid' = [cid EXCEPT ![c] = nrows + 1]
    /\ zero' = IF isZero THEN zero \cup {nrows + 1} ELSE zero
    /\ UNCHANGED <<enrolled, expired, creq, agent, delivered, answer, watcher, asked>>

\* The audit log of the last record is not copied.
ObtainResultOnly(c, j) ==
    /\ cpc[c] = "last"
    /\ j \in Filed /\ rows[j].host = creq[c].host /\ rows[j].result # NULL
    /\ creq' = [creq EXCEPT ![c].result = rows[j].result]
    /\ cpc' = [cpc EXCEPT ![c] = "update-t"]
    /\ UNCHANGED <<rows, nrows, enrolled, expired, cid, agent, delivered, answer, watcher,
                   history>>

\* The time used is not looked at.
WatchWithoutTimeout(i) ==
    /\ wpc[i] = "check"
    /\ wpc' = [wpc EXCEPT ![i] =
                  IF rows[i].result = NULL /\ ~wreq[i].cert THEN "unknown" ELSE "all"]
    /\ UNCHANGED <<vars, wreq, history>>

------------------------------------------------------------------------------
(* The call of PollHosts with a threshold.                                  *)

\* addRequests with a threshold, 0 or not: DO_NOTHING.
AddThresholdRequest(c, h, p, isZero) ==
    /\ cpc[c] = "idle"
    /\ nrows < MaxRequests
    /\ nrows' = nrows + 1
    /\ rows' = [rows EXCEPT ![nrows + 1] =
                  [host |-> h, property |-> p, cert |-> h \in enrolled,
                   nextAction |-> "DO_NOTHING", consumed |-> FALSE,
                   auditLog |-> NULL, result |-> NULL]]
    /\ cpc' = [cpc EXCEPT ![c] = IF isZero THEN "fetch" ELSE "fetch-t"]
    /\ cid' = [cid EXCEPT ![c] = nrows + 1]
    /\ zero' = IF isZero THEN zero \cup {nrows + 1} ELSE zero
    /\ UNCHANGED <<enrolled, expired, creq, agent, delivered, answer, watcher, asked>>

\* getRequestsByReqId
FetchThresholdRequest(c) ==
    /\ cpc[c] = "fetch-t"
    /\ creq' = [creq EXCEPT ![c] = rows[cid[c]]]
    /\ cpc' = [cpc EXCEPT ![c] = "last"]
    /\ UNCHANGED <<rows, nrows, enrolled, expired, cid, agent, delivered, answer, watcher,
                   history>>

\* getLastAttestedRequest returns j, validated within the threshold.
ObtainLast(c, j) ==
    /\ cpc[c] = "last"
    /\ j \in Filed /\ rows[j].host = creq[c].host /\ rows[j].result # NULL
    /\ creq' = [creq EXCEPT ![c].auditLog = rows[j].auditLog, ![c].result = rows[j].result]
    /\ cpc' = [cpc EXCEPT ![c] = "update-t"]
    /\ UNCHANGED <<rows, nrows, enrolled, expired, cid, agent, delivered, answer, watcher,
                   history>>

\* There is none, or it is too old: the agent is to be asked.
AskAgent(c) ==
    /\ cpc[c] = "last"
    /\ creq' = [creq EXCEPT ![c].nextAction = "SEND_REPORT", ![c].consumed = FALSE]
    /\ cpc' = [cpc EXCEPT ![c] = "update-t"]
    /\ UNCHANGED <<rows, nrows, enrolled, expired, cid, agent, delivered, answer, watcher,
                   history>>

\* updateRequest of the copy
UpdateThresholdRequest(c) ==
    /\ cpc[c] = "update-t"
    /\ rows' = [rows EXCEPT ![cid[c]] = creq[c]]
    /\ cpc' = [cpc EXCEPT ![c] = "all-t"]
    /\ UNCHANGED <<nrows, enrolled, expired, cid, creq, agent, delivered, answer, watcher,
                   history>>

\* isAllAttested, and the thread for a row without a result
StartWatcher(c) ==
    /\ cpc[c] = "all-t"
    /\ wpc' = IF rows[cid[c]].result = NULL THEN [wpc EXCEPT ![cid[c]] = "sleep"] ELSE wpc
    /\ cpc' = [cpc EXCEPT ![c] = "respond"]
    /\ UNCHANGED <<rows, nrows, enrolled, expired, cid, creq, agent, delivered, answer, wreq,
                   history>>

------------------------------------------------------------------------------
(* CheckAttestThread.                                                       *)

\* The sleep, then getRequestsByReqId.
Wake(i) ==
    /\ wpc[i] = "sleep"
    /\ wreq' = [wreq EXCEPT ![i] = rows[i]]
    /\ wpc' = [wpc EXCEPT ![i] = "check"]
    /\ UNCHANGED <<vars, history>>

\* loadRequest and the tests on it
WatchCheck(i) ==
    /\ wpc[i] = "check"
    /\ wpc' = [wpc EXCEPT ![i] =
                  CASE rows[i].result = NULL /\ ~wreq[i].cert -> "unknown"
                    [] rows[i].result = NULL /\ wreq[i].cert /\ i \in expired -> "timeout"
                    [] OTHER -> "all"]
    /\ UNCHANGED <<vars, wreq, history>>

\* updateRequest of the copy fetched at the beginning of the round
WatchWrite(i) ==
    /\ wpc[i] \in {"unknown", "timeout"}
    /\ rows' = [rows EXCEPT ![i] =
                  [wreq[i] EXCEPT !.result =
                      IF wpc[i] = "unknown" THEN "UN_KNOWN" ELSE "TIME_OUT"]]
    /\ wpc' = [wpc EXCEPT ![i] = "all"]
    /\ UNCHANGED <<nrows, enrolled, expired, client, agent, delivered, answer, wreq, history>>

\* isAllAttested decides whether the thread runs another round.
WatchEnd(i) ==
    /\ wpc[i] = "all"
    /\ wpc' = [wpc EXCEPT ![i] = IF rows[i].result = NULL THEN "sleep" ELSE "ended"]
    /\ wreq' = [wreq EXCEPT ![i] = NULL]
    /\ UNCHANGED <<vars, history>>

------------------------------------------------------------------------------
ThresholdCall(c) ==
    \/ \E h \in Hosts, p \in Properties, isZero \in BOOLEAN :
          AddThresholdRequest(c, h, p, isZero)
    \/ FetchThresholdRequest(c)
    \/ \E j \in Ids : ObtainLast(c, j)
    \/ AskAgent(c)
    \/ UpdateThresholdRequest(c)
    \/ StartWatcher(c)

Watcher(i) == Wake(i) \/ WatchCheck(i) \/ WatchWrite(i) \/ WatchEnd(i)

\* A step of OatAttestation, with what an agent was told.
OatStep ==
    /\ Next
    /\ asked' = [i \in Ids |->
                    IF \E h \in Hosts : /\ apc[h] = "poll" /\ apc'[h] = "told"
                                        /\ aid[h] = i
                    THEN (IF asked[i] = 2 THEN 2 ELSE asked[i] + 1) ELSE asked[i]]
    /\ UNCHANGED <<watcher, zero>>

TNext ==
    \/ OatStep
    \/ \E c \in Clients : ThresholdCall(c)
    \/ \E i \in Ids : Watcher(i)

TSpec == TInit /\ [][TNext]_tvars

\* The threads of the server run, as in OatAttestation; nothing is assumed of
\* the agents.
TFairness ==
    /\ Fairness
    /\ \A c \in Clients :
          WF_tvars(\/ FetchThresholdRequest(c) \/ AskAgent(c)
                   \/ UpdateThresholdRequest(c) \/ StartWatcher(c))
    /\ \A i \in Ids : WF_tvars(Watcher(i))

TFairSpec == TSpec /\ TFairness

------------------------------------------------------------------------------
(* VerdictHasReport of OatAttestation is checked here too: a threshold call *)
(* copies verdicts from row to row, and it and its thread write whole rows  *)
(* that an agent may have consumed or answered.                             *)

(* No agent is asked twice for the same request, although the row of a call *)
(* with a threshold can be consumed before it asks for anything; and none   *)
(* is ever asked for a request with a threshold of 0.                       *)
AskedOnce == \A i \in Ids : asked[i] <= IF i \in zero THEN 0 ELSE 1

(* Every call is answered, whatever its threshold and whatever the agents   *)
(* do.                                                                      *)
CallsReturn == \A c \in Clients : cpc[c] \in {"fetch", "fetch-t"} ~> cpc[c] = "idle"

(* A CheckAttestThread ends, although the results it waits for can be taken *)
(* away again: it is not left looping in the server for ever.               *)
WatchersEnd == \A i \in Ids : wpc[i] = "sleep" ~> wpc[i] = "ended"

==============================================================================
