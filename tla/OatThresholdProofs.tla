------------------------- MODULE OatThresholdProofs -------------------------
(* Theorems about OatThreshold, for any hosts, clients, properties and      *)
(* number of requests.                                                      *)
EXTENDS OatThreshold, OatAttestationProofs

Polling  == {"fetch", "check", "unknown", "timeout", "wait"}
Before   == {"fetch-t", "last", "update-t"}

\* Every call has a request of its own; a thread is left behind by a call with
\* a threshold that is about to answer.
Calls ==
    /\ \A c \in Clients : IF cpc[c] = "idle" THEN cid[c] = 0 ELSE cid[c] \in Filed
    /\ \A c, d \in Clients : cid[c] = cid[d] /\ cid[c] # 0 => c = d
    /\ \A c \in Clients : cid[c] \in zero => cpc[c] \notin ThresholdPcs
    /\ \A i \in Ids : wpc[i] # "none" =>
          i \in Filed \ zero /\ \A c \in Clients : cid[c] = i => cpc[c] = "respond"

\* The request of a call that has still to decide whether to ask the agent, and
\* those a loop or a thread minds, whose reports come from the agent only.
Deciding(i) == \E c \in Clients : cid[c] = i /\ cpc[c] \in Before
Minded(i)   == wpc[i] # "none" \/ \E c \in Clients : cid[c] = i /\ cpc[c] \in Polling

\* A request for which no agent may be asked (yet).
Silent(i) == i \in zero \/ Deciding(i)

Paired(r) == r.auditLog # NULL <=> r.result \in Verdict

RowsFit ==
    \A i \in Filed : Paired(rows[i]) /\ (Silent(i) => rows[i].nextAction = "DO_NOTHING")

\* What an agent's transaction is about to write: the row of its own host, and
\* over a report only if nobody minds it.
AgentFits(h) ==
    apc[h] \in {"poll", "appraised"} =>
        /\ arow[h].host = h /\ rows[aid[h]].host = h
        /\ Silent(aid[h]) => arow[h].nextAction = "DO_NOTHING"
        /\ apc[h] = "poll" =>
              /\ arow[h].auditLog = NULL /\ arow[h].result = NULL
              /\ Minded(aid[h]) => rows[aid[h]].auditLog = NULL
        /\ apc[h] = "appraised" => arow[h].auditLog # NULL /\ arow[h].result \in Verdict

\* The copy r of row i that is written back by a loop: if it has a report, so
\* has the row.
CopyFits(r, i) ==
    r.host = rows[i].host /\ (r.auditLog # NULL => rows[i].auditLog # NULL)

CallFits(c) ==
    /\ cpc[c] \in {"check", "unknown", "timeout", "wait"} =>
          CopyFits(creq[c], cid[c]) /\ (cid[c] \in zero => creq[c].nextAction = "DO_NOTHING")
    /\ cpc[c] \in {"unknown", "timeout"} => creq[c].auditLog = NULL
    /\ cpc[c] \in {"last", "update-t"} => creq[c].host = rows[cid[c]].host /\ Paired(creq[c])

WatcherFits(i) ==
    /\ wpc[i] \in {"check", "unknown", "timeout"} => CopyFits(wreq[i], i)
    /\ wpc[i] \in {"unknown", "timeout"} => wreq[i].auditLog = NULL

\* After an agent was asked, the row is not one to be asked for again.
Told(i) ==
    /\ asked[i] \in {0, 1}
    /\ asked[i] = 1 =>
          /\ i \in Filed /\ ~Silent(i)
          /\ rows[i].consumed \/ rows[i].result # NULL \/ rows[i].nextAction = "DO_NOTHING"
          /\ \A h \in Hosts : apc[h] = "poll" /\ aid[h] = i => arow[h].nextAction = "DO_NOTHING"

ThresholdInv ==
    /\ ThresholdTypeOK /\ Calls /\ RowsFit
    /\ \A h \in Hosts : AgentFits(h)
    /\ \A c \in Clients : CallFits(c)
    /\ \A i \in Ids : WatcherFits(i) /\ Told(i)

------------------------------------------------------------------------------
(* The rows and copies a call with a threshold writes.                      *)

(* The row that addRequests files with a threshold is a row.                *)
LEMMA NewThresholdRow ==
    ASSUME NEW h \in Hosts, NEW p \in Properties, NEW b \in BOOLEAN
    PROVE  [host |-> h, property |-> p, cert |-> b, nextAction |-> "DO_NOTHING",
            consumed |-> FALSE, auditLog |-> NULL, result |-> NULL] \in Rows
BY DEF Rows, Actions

(* The copy that takes over the last result of its host.                    *)
LEMMA CopyOfLast ==
    ASSUME NEW r \in Rows, NEW q \in Rows
    PROVE  LET n == [r EXCEPT !.auditLog = q.auditLog, !.result = q.result]
           IN  n \in Rows /\ n.host = r.host /\ n.auditLog = q.auditLog /\ n.result = q.result
BY DEF Rows

(* The copy that asks the agent.                                            *)
LEMMA CopyAsks ==
    ASSUME NEW r \in Rows
    PROVE  LET n == [r EXCEPT !.nextAction = "SEND_REPORT", !.consumed = FALSE]
           IN  n \in Rows /\ n.host = r.host /\ n.auditLog = r.auditLog /\ n.result = r.result
BY DEF Rows, Actions

(* The result a call or a thread writes changes no other column.            *)
LEMMA ResultWritten ==
    ASSUME NEW r \in Rows, NEW v \in {"UN_KNOWN", "TIME_OUT"}
    PROVE  LET n == [r EXCEPT !.result = v]
           IN  /\ n \in Rows /\ n.host = r.host /\ n.auditLog = r.auditLog
               /\ n.nextAction = r.nextAction /\ n.result = v
BY DEF Rows, Results

------------------------------------------------------------------------------
(* Types.                                                                   *)

(* The parts of the type invariant that a step leaves alone.                *)
LEMMA ServerTypesKept ==
    ASSUME RowsOK, AgentsOK, HistoryOK,
           UNCHANGED <<rows, nrows, enrolled, expired, agent, delivered, answer>>
    PROVE  (RowsOK /\ AgentsOK /\ HistoryOK)'
BY DEF RowsOK, AgentsOK, HistoryOK, Filed, agent

\* A step that leaves agents and history alone.
LEMMA AgentTypesKept ==
    ASSUME AgentsOK, HistoryOK, UNCHANGED <<nrows, agent, delivered, answer>>
    PROVE  (AgentsOK /\ HistoryOK)'
BY DEF AgentsOK, HistoryOK, Filed, agent

\* A step that leaves the calls alone.
LEMMA CallTypesKept ==
    ASSUME CallsOK, UNCHANGED <<nrows, client>>
    PROVE  CallsOK'
BY DEF CallsOK, Filed, client

\* A step that leaves the threads alone.
LEMMA WatcherTypesKept ==
    ASSUME WatchersOK, UNCHANGED watcher
    PROVE  WatchersOK'
BY DEF WatchersOK, watcher

(* A filed row can be named by its id.                                      *)
LEMMA FiledIds ==
    ASSUME RowsOK
    PROVE  nrows \in Nat /\ \A i \in Filed : i \in Ids /\ rows[i] \in Rows
BY MaxRequestsAssumption DEF RowsOK, Filed, Ids

(* Filing a row keeps the table, the agents and the calls typed.            *)
LEMMA FiledTypes ==
    ASSUME ThresholdTypeOK, NEW c \in Clients, NEW r \in Rows, nrows < MaxRequests,
           NEW q \in {"fetch", "fetch-t"},
           nrows' = nrows + 1, rows' = [rows EXCEPT ![nrows + 1] = r],
           cpc' = [cpc EXCEPT ![c] = q], cid' = [cid EXCEPT ![c] = nrows + 1],
           UNCHANGED <<enrolled, expired, creq, agent, delivered, answer>>
    PROVE  /\ (RowsOK /\ AgentsOK /\ HistoryOK /\ CallsOK)'
           /\ nrows + 1 \in Ids /\ nrows + 1 \notin Filed
           /\ Filed' = Filed \cup {nrows + 1}
           /\ rows'[nrows + 1] = r /\ \A i \in Filed : rows'[i] = rows[i]
<1>1. nrows \in Nat /\ nrows + 1 \in Ids /\ Filed' = Filed \cup {nrows + 1} /\ Filed' \subseteq Ids
  BY MaxRequestsAssumption DEF ThresholdTypeOK, RowsOK, Ids, Filed
<1>2. nrows' \in 0 .. MaxRequests /\ nrows + 1 \notin Filed
  BY <1>1, MaxRequestsAssumption DEF ThresholdTypeOK, RowsOK, Filed
<1>3. rows'[nrows + 1] = r /\ \A i \in Filed : rows'[i] = rows[i]
  BY <1>1, <1>2 DEF ThresholdTypeOK, RowsOK
<1>4. RowsOK'
  BY <1>1, <1>2, <1>3 DEF ThresholdTypeOK, RowsOK
<1>5. AgentsOK' /\ HistoryOK'
  BY <1>1 DEF ThresholdTypeOK, AgentsOK, HistoryOK, agent
<1>6. CallsOK'
  BY <1>1 DEF ThresholdTypeOK, CallsOK, ClientPcs, ThresholdPcs
<1> QED
  BY <1>1, <1>2, <1>3, <1>4, <1>5, <1>6

(* A step of a call that moves on, with a copy of a row or none.            *)
LEMMA MovedTypes ==
    ASSUME CallsOK, NEW c \in Clients, NEW q \in ClientPcs \cup ThresholdPcs,
           NEW r \in Rows \cup {NULL},
           cpc' = [cpc EXCEPT ![c] = q], creq' = [creq EXCEPT ![c] = r],
           UNCHANGED <<nrows, cid>>,
           q \notin {"idle", "fetch", "fetch-t", "respond"} => cid[c] \in Filed /\ r \in Rows
    PROVE  CallsOK'
BY DEF CallsOK, Filed

------------------------------------------------------------------------------
(* What a step must respect that leaves a row, an agent, a call, a thread   *)
(* or the count of a request as it was.                                     *)

\* The table is as it was, and no request becomes silent.
LEMMA RowsStay ==
    ASSUME RowsFit, UNCHANGED <<rows, nrows>>, \A i \in Filed : Silent(i)' => Silent(i)
    PROVE  RowsFit'
BY DEF RowsFit, Filed, Paired

\* An agent that does not move, whose row is changed as it may be.
LEMMA AgentStays ==
    ASSUME AgentsOK, NEW h \in Hosts, AgentFits(h),
           apc'[h] = apc[h], aid'[h] = aid[h], arow'[h] = arow[h],
           \A i \in Filed : i = aid[h] =>
              /\ rows'[i].host = rows[i].host
              /\ Silent(i)' => Silent(i)
              /\ Minded(i)' => \/ rows'[i].auditLog = NULL
                               \/ Minded(i) /\ rows'[i].auditLog = rows[i].auditLog
    PROVE  AgentFits(h)'
<1> SUFFICES ASSUME apc[h] \in {"poll", "appraised"}
             PROVE  AgentFits(h)'
  BY DEF AgentFits
<1> DEFINE i == aid[h]
<1>1. i \in Filed
  BY DEF AgentsOK
<1>2. (Silent(aid[h]))' => Silent(i)
  BY <1>1
<1>3. (Minded(aid[h]))' => \/ rows'[i].auditLog = NULL
                           \/ Minded(i) /\ rows'[i].auditLog = rows[i].auditLog
  BY <1>1
<1> QED
  BY <1>1, <1>2, <1>3 DEF AgentFits

\* A call that does not move, whose row is changed as it may be.
LEMMA CallStays ==
    ASSUME CallsOK, NEW c \in Clients, CallFits(c),
           cpc'[c] = cpc[c], cid'[c] = cid[c], creq'[c] = creq[c],
           \A i \in Filed : i = cid[c] =>
              /\ rows'[i].host = rows[i].host
              /\ i \in zero' => i \in zero
              /\ rows[i].auditLog # NULL /\ cpc[c] \in Polling => rows'[i].auditLog # NULL
    PROVE  CallFits(c)'
<1>1. CASE cpc[c] \in {"idle", "fetch", "fetch-t", "respond"}
  BY <1>1 DEF CallFits
<1>2. CASE cpc[c] \notin {"idle", "fetch", "fetch-t", "respond"}
  <2>1. cid[c] \in Filed
    BY <1>2 DEF CallsOK
  <2> QED
    BY <1>2, <2>1 DEF CallFits, CopyFits, Polling, Paired
<1> QED
  BY <1>1, <1>2

\* A thread that does not move, whose row is changed as it may be.
LEMMA WatcherStays ==
    ASSUME NEW i \in Ids, WatcherFits(i), wpc'[i] = wpc[i], wreq'[i] = wreq[i],
           wpc[i] # "none" => /\ rows'[i].host = rows[i].host
                              /\ rows[i].auditLog # NULL => rows'[i].auditLog # NULL
    PROVE  WatcherFits(i)'
BY DEF WatcherFits, CopyFits

\* A request whose number of askings stays.
LEMMA ToldStays ==
    ASSUME NEW i \in Ids, Told(i), asked'[i] = asked[i], Filed \subseteq Filed',
           i \in Filed =>
              /\ Silent(i)' => Silent(i)
              /\ \/ rows'[i] = rows[i]
                 \/ rows'[i].consumed \/ rows'[i].result # NULL
                 \/ rows'[i].nextAction = "DO_NOTHING",
           \A h \in Hosts : apc'[h] = "poll" /\ aid'[h] = i =>
              \/ apc[h] = "poll" /\ aid[h] = i /\ arow'[h] = arow[h]
              \/ asked[i] = 1 => arow'[h].nextAction = "DO_NOTHING"
    PROVE  Told(i)'
BY DEF Told

(* The requests that are silent or minded change only with the calls and    *)
(* the threads.                                                             *)
LEMMA SameSilence ==
    ASSUME UNCHANGED <<cpc, cid, zero>>
    PROVE  \A i \in Ids : Silent(i)' <=> Silent(i)
BY DEF Silent, Deciding

\* Who polls a request depends on calls and threads only.
LEMMA SameMinds ==
    ASSUME UNCHANGED <<cpc, cid, wpc>>
    PROVE  \A i \in Ids : Minded(i)' <=> Minded(i)
BY DEF Minded

\* A call that moves on silences no request.
LEMMA MovedSilence ==
    ASSUME CallsOK, NEW c \in Clients, NEW q, cpc' = [cpc EXCEPT ![c] = q],
           UNCHANGED <<cid, zero>>, q \in Before => cpc[c] \in Before
    PROVE  \A i \in Ids : Silent(i)' => Silent(i)
BY DEF Silent, Deciding, CallsOK

\* A call that moves on minds no other request.
LEMMA MovedMinds ==
    ASSUME CallsOK, NEW c \in Clients, NEW q, cpc' = [cpc EXCEPT ![c] = q],
           UNCHANGED <<cid, wpc>>, q \in Polling => cpc[c] \in Polling
    PROVE  \A i \in Ids : Minded(i)' => Minded(i)
BY DEF Minded, CallsOK

\* A step that leaves the calls where they are.
LEMMA SameCalls ==
    ASSUME Calls, UNCHANGED <<cpc, cid, zero, nrows>>,
           \A i \in Ids : wpc'[i] # "none" => wpc[i] # "none"
    PROVE  Calls'
BY DEF Calls, Filed

(* An agent that is not told SEND_REPORT is not counted.                    *)
LEMMA NobodyTold ==
    ASSUME OatStep, asked \in [Ids -> 0 .. 2],
           \A h \in Hosts : apc[h] = "poll" => apc'[h] # "told"
    PROVE  asked' = asked
BY DEF OatStep

------------------------------------------------------------------------------
(* The steps of the calls.                                                  *)

(* A call moves on without writing its row; what it then holds must fit.    *)
LEMMA CallMoves ==
    ASSUME ThresholdInv, NEW c \in Clients, NEW q \in ClientPcs \cup ThresholdPcs,
           NEW r \in Rows \cup {NULL},
           cpc' = [cpc EXCEPT ![c] = q], creq' = [creq EXCEPT ![c] = r],
           UNCHANGED <<rows, nrows, enrolled, expired, cid, agent, delivered, answer, watcher,
                       history>>,
           cpc[c] \notin {"idle", "respond"}, q # "idle",
           q \in Before => cpc[c] \in Before,
           q \in Polling => cpc[c] \in Polling,
           q \in ThresholdPcs => cpc[c] \in ThresholdPcs,
           q \notin {"idle", "fetch", "fetch-t", "respond"} => r \in Rows,
           CallFits(c)'
    PROVE  ThresholdInv'
<1>1. ThresholdTypeOK /\ Calls /\ RowsFit
  BY DEF ThresholdInv
<1>2. RowsOK /\ AgentsOK /\ HistoryOK /\ CallsOK /\ WatchersOK
  BY <1>1 DEF ThresholdTypeOK
<1>3. cid[c] \in Filed
  BY <1>1 DEF Calls
<1>4. \A d \in Clients : d # c => cpc'[d] = cpc[d] /\ creq'[d] = creq[d]
  BY <1>2 DEF CallsOK
<1>5. cpc'[c] = q
  BY <1>2 DEF CallsOK
<1>6. UNCHANGED <<apc, aid, arow, wpc, wreq, zero, asked>>
  BY DEF agent, watcher, history
<1>7. Filed' = Filed /\ \A i \in Filed : i \in Ids
  BY <1>2, FiledIds DEF Filed
<1>8. \A i \in Ids : (Silent(i)' => Silent(i)) /\ (Minded(i)' => Minded(i))
  BY <1>2, <1>6, MovedSilence, MovedMinds
<1>t. ThresholdTypeOK'
  <2>1. (RowsOK /\ AgentsOK /\ HistoryOK)'
    BY <1>2, ServerTypesKept
  <2>2. CallsOK'
    BY <1>2, <1>3, MovedTypes
  <2>3. WatchersOK'
    BY <1>2, WatcherTypesKept
  <2> QED
    BY <1>1, <1>6, <1>7, <2>1, <2>2, <2>3 DEF ThresholdTypeOK
<1>c. Calls'
  <2>1. \A d \in Clients : IF cpc'[d] = "idle" THEN cid[d] = 0 ELSE cid[d] \in Filed
    BY <1>1, <1>3, <1>4, <1>5 DEF Calls
  <2>2. \A d \in Clients : cid[d] \in zero => cpc'[d] \notin ThresholdPcs
    BY <1>1, <1>4, <1>5 DEF Calls
  <2>3. \A i \in Ids, d \in Clients : wpc[i] # "none" /\ cid[d] = i => cpc'[d] = "respond"
    BY <1>1, <1>4, <1>5 DEF Calls
  <2> QED
    BY <1>1, <1>6, <1>7, <2>1, <2>2, <2>3 DEF Calls
<1>r. RowsFit'
  BY <1>1, <1>7, <1>8, RowsStay
<1>a. ASSUME NEW h \in Hosts PROVE AgentFits(h)'
  <2>1. AgentFits(h)
    BY DEF ThresholdInv
  <2> QED
    BY <1>2, <1>6, <1>7, <1>8, <2>1, AgentStays
<1>d. ASSUME NEW d \in Clients PROVE CallFits(d)'
  <2>1. CallFits(d)
    BY DEF ThresholdInv
  <2>2. CASE d # c
    BY <1>2, <1>4, <1>6, <2>1, <2>2, CallStays
  <2> QED
    BY <2>2
<1>w. ASSUME NEW i \in Ids PROVE WatcherFits(i)' /\ Told(i)'
  <2>1. WatcherFits(i) /\ Told(i)
    BY DEF ThresholdInv
  <2>2. WatcherFits(i)'
    BY <1>6, <2>1, WatcherStays
  <2>3. Told(i)'
    BY <1>6, <1>7, <1>8, <2>1, ToldStays
  <2> QED
    BY <2>2, <2>3
<1> QED
  BY <1>t, <1>c, <1>r, <1>a, <1>d, <1>w DEF ThresholdInv

(* getRequestsByReqId of either kind of call, and what it decides on: the   *)
(* copy is the row itself.                                                  *)
LEMMA FetchStep ==
    ASSUME ThresholdInv, NEW c \in Clients,
           (OatStep /\ FetchRequest(c)) \/ FetchThresholdRequest(c)
    PROVE  ThresholdInv'
<1>1. ThresholdTypeOK /\ Calls /\ RowsFit
  BY DEF ThresholdInv
<1>2. RowsOK /\ CallsOK /\ asked \in [Ids -> 0 .. 2]
  BY <1>1 DEF ThresholdTypeOK
<1>3. cid[c] \in Filed
  BY <1>1 DEF Calls, FetchRequest, FetchThresholdRequest
<1>4. rows[cid[c]] \in Rows
  BY <1>2, <1>3, FiledIds
<1>5. CASE OatStep /\ FetchRequest(c)
  <2>1. UNCHANGED <<rows, nrows, enrolled, expired, cid, agent, delivered, answer, watcher, history>>
    <3>1. asked' = asked
      BY <1>2, <1>5, NobodyTold DEF FetchRequest, agent
    <3> QED
      BY <1>5, <3>1 DEF FetchRequest, OatStep, history
  <2>2. creq'[c] = rows[cid[c]] /\ cpc'[c] = "check"
    BY <1>2, <1>5 DEF FetchRequest, CallsOK
  <2>3. cid[c] \in zero => rows[cid[c]].nextAction = "DO_NOTHING"
    BY <1>1, <1>3 DEF RowsFit, Silent
  <2>4. CallFits(c)'
    BY <2>1, <2>2, <2>3 DEF CallFits, CopyFits, history
  <2> QED
    BY <1>4, <1>5, <2>1, <2>4, CallMoves DEF FetchRequest, ClientPcs, Before, Polling, ThresholdPcs
<1>6. CASE FetchThresholdRequest(c)
  <2>1. creq'[c] = rows[cid[c]] /\ cpc'[c] = "last"
    BY <1>2, <1>6 DEF FetchThresholdRequest, CallsOK
  <2>2. Paired(rows[cid[c]])
    BY <1>1, <1>3 DEF RowsFit
  <2>3. CallFits(c)'
    BY <1>6, <2>1, <2>2 DEF CallFits, FetchThresholdRequest, Paired
  <2> QED
    BY <1>4, <1>6, <2>3, CallMoves
       DEF FetchThresholdRequest, ClientPcs, Before, Polling, ThresholdPcs
<1> QED
  BY <1>5, <1>6

(* The tests of the loop: a result is only written over a copy without a    *)
(* report, because the row without a result has none.                       *)
LEMMA LoopStep ==
    ASSUME ThresholdInv, NEW c \in Clients, OatStep, CheckRequest(c) \/ IsAllAttested(c)
    PROVE  ThresholdInv'
<1>1. ThresholdTypeOK /\ Calls /\ RowsFit /\ CallFits(c)
  BY DEF ThresholdInv
<1>2. RowsOK /\ CallsOK /\ asked \in [Ids -> 0 .. 2]
  BY <1>1 DEF ThresholdTypeOK
<1>3. cpc[c] \in {"check", "wait"}
  BY DEF CheckRequest, IsAllAttested
<1>4. cid[c] \in Filed /\ creq[c] \in Rows
  BY <1>2, <1>3 DEF CallsOK
<1>5. UNCHANGED <<rows, nrows, enrolled, expired, cid, creq, agent, delivered, answer, watcher,
                  history>>
  <2>1. UNCHANGED <<rows, nrows, enrolled, expired, cid, creq, agent, delivered, answer>>
    BY DEF CheckRequest, IsAllAttested
  <2>2. asked' = asked
    BY <1>2, <2>1, NobodyTold DEF agent
  <2> QED
    BY <2>1, <2>2 DEF OatStep, history
<1>6. PICK q \in {"check", "unknown", "timeout", "wait", "respond"} :
         /\ cpc' = [cpc EXCEPT ![c] = q]
         /\ q \in {"unknown", "timeout"} => rows[cid[c]].result = NULL
  <2>1. CASE CheckRequest(c)
    BY <2>1 DEF CheckRequest
  <2>2. CASE IsAllAttested(c)
    BY <2>2 DEF IsAllAttested
  <2> QED
    BY <2>1, <2>2
<1>7. cpc'[c] = q /\ creq' = [creq EXCEPT ![c] = creq[c]]
  BY <1>2, <1>5, <1>6 DEF CallsOK
<1>8. rows[cid[c]].result = NULL => rows[cid[c]].auditLog = NULL
  BY <1>1, <1>4, OatNullAssumption DEF RowsFit, Paired, Verdict, Results
<1>9. CallFits(c)'
  BY <1>1, <1>3, <1>5, <1>6, <1>7, <1>8 DEF CallFits, CopyFits, history
<1> QED
  BY <1>3, <1>4, <1>5, <1>6, <1>7, <1>9, CallMoves DEF ClientPcs, Before, Polling, ThresholdPcs

(* The call with a threshold takes over the last result of its host, or     *)
(* decides to ask.                                                          *)
LEMMA DecideStep ==
    ASSUME ThresholdInv, NEW c \in Clients, AskAgent(c) \/ \E j \in Ids : ObtainLast(c, j)
    PROVE  ThresholdInv'
<1>1. ThresholdTypeOK /\ Calls /\ RowsFit /\ CallFits(c)
  BY DEF ThresholdInv
<1>2. RowsOK /\ CallsOK
  BY <1>1 DEF ThresholdTypeOK
<1>3. cpc[c] = "last" /\ cpc' = [cpc EXCEPT ![c] = "update-t"]
  BY DEF AskAgent, ObtainLast
<1>4. cid[c] \in Filed /\ creq[c] \in Rows
  BY <1>2, <1>3 DEF CallsOK
<1>5. UNCHANGED <<rows, nrows, enrolled, expired, cid, agent, delivered, answer, watcher, history>>
  BY DEF AskAgent, ObtainLast
<1>6. creq[c].host = rows[cid[c]].host /\ Paired(creq[c])
  BY <1>1, <1>3 DEF CallFits
<1>7. PICK r \in Rows : /\ creq' = [creq EXCEPT ![c] = r]
                        /\ r.host = creq[c].host
                        /\ Paired(r)
  <2>1. CASE AskAgent(c)
    <3>1. creq' = [creq EXCEPT ![c] = [creq[c] EXCEPT !.nextAction = "SEND_REPORT",
                                                      !.consumed = FALSE]]
      BY <1>2, <2>1 DEF AskAgent, CallsOK
    <3> QED
      BY <1>4, <1>6, <3>1, CopyAsks DEF Paired
  <2>2. ASSUME NEW j \in Ids, ObtainLast(c, j)
        PROVE  \E r \in Rows : /\ creq' = [creq EXCEPT ![c] = r]
                               /\ r.host = creq[c].host
                               /\ Paired(r)
    <3>1. creq' = [creq EXCEPT ![c] = [creq[c] EXCEPT !.auditLog = rows[j].auditLog,
                                                      !.result = rows[j].result]]
      BY <1>2, <2>2 DEF ObtainLast, CallsOK
    <3>2. rows[j] \in Rows /\ Paired(rows[j])
      BY <1>1, <1>2, <2>2, FiledIds DEF ObtainLast, RowsFit
    <3> DEFINE n == [creq[c] EXCEPT !.auditLog = rows[j].auditLog, !.result = rows[j].result]
    <3>3. /\ n \in Rows /\ n.host = creq[c].host
          /\ n.auditLog = rows[j].auditLog /\ n.result = rows[j].result
      BY <1>4, <3>2, CopyOfLast
    <3>4. Paired(n)
      BY <3>2, <3>3 DEF Paired
    <3> QED
      BY <3>1, <3>3, <3>4
  <2> QED
    BY <2>1, <2>2
<1>8. cpc'[c] = "update-t" /\ creq'[c] = r
  BY <1>2, <1>3, <1>7 DEF CallsOK
<1>9. CallFits(c)'
  BY <1>5, <1>6, <1>7, <1>8 DEF CallFits, Paired
<1> QED
  BY <1>3, <1>5, <1>7, <1>9, CallMoves DEF ClientPcs, Before, Polling, ThresholdPcs

(* The answer: the request of the call is left to the agents, and to the    *)
(* thread if there is one.                                                  *)
LEMMA RespondStep ==
    ASSUME ThresholdInv, NEW c \in Clients, OatStep, Respond(c)
    PROVE  ThresholdInv'
<1>1. ThresholdTypeOK /\ Calls /\ RowsFit
  BY DEF ThresholdInv
<1>2. /\ RowsOK /\ AgentsOK /\ HistoryOK /\ CallsOK /\ WatchersOK
      /\ asked \in [Ids -> 0 .. 2] /\ zero \subseteq Filed
  BY <1>1 DEF ThresholdTypeOK
<1>3. UNCHANGED <<apc, aid, arow, wpc, wreq, zero, asked, rows, nrows, enrolled, expired, agent,
                  watcher, delivered>>
  <2>1. UNCHANGED <<apc, aid, arow, rows, nrows, enrolled, expired, agent, delivered>>
    BY DEF Respond, agent
  <2>2. asked' = asked
    BY <1>2, <2>1, NobodyTold
  <2> QED
    BY <2>1, <2>2 DEF OatStep, watcher
<1>4. /\ cpc[c] = "respond" /\ cpc'[c] = "idle" /\ cid'[c] = 0 /\ creq'[c] = NULL
      /\ \A d \in Clients : d # c => cpc'[d] = cpc[d] /\ cid'[d] = cid[d] /\ creq'[d] = creq[d]
  BY <1>2 DEF Respond, CallsOK
<1>5. /\ Filed' = Filed /\ \A i \in Filed : i \in Ids /\ rows[i] \in Rows
      /\ cid[c] \in Filed /\ 0 \notin Ids
  BY <1>1, <1>2, <1>3, <1>4, FiledIds DEF Calls, Filed, Ids
<1>6. \A i \in Ids : (Silent(i)' => Silent(i)) /\ (Minded(i)' => Minded(i))
  <2>1. \A i \in Ids : Silent(i)' => Silent(i)
    BY <1>3, <1>4 DEF Silent, Deciding, Before
  <2>2. \A i \in Ids : Minded(i)' => Minded(i)
    BY <1>3, <1>4 DEF Minded, Polling
  <2> QED
    BY <2>1, <2>2
<1>t. ThresholdTypeOK'
  <2>1. RowsOK' /\ AgentsOK'
    BY <1>2, <1>3 DEF RowsOK, AgentsOK, Filed, agent
  <2>2. rows[cid[c]].result \in Results \cup {NULL}
    BY <1>5 DEF Rows
  <2>3. HistoryOK'
    BY <1>2, <1>5, <2>2 DEF HistoryOK, Respond
  <2>4. CallsOK'
    BY <1>2, <1>4, <1>5 DEF CallsOK, Respond, ClientPcs
  <2>5. WatchersOK'
    BY <1>2, <1>3, WatcherTypesKept
  <2> QED
    BY <1>2, <1>3, <1>5, <2>1, <2>3, <2>4, <2>5 DEF ThresholdTypeOK
<1>c. Calls'
  <2>1. \A d \in Clients : IF cpc'[d] = "idle" THEN cid'[d] = 0 ELSE cid'[d] \in Filed
    BY <1>1, <1>4 DEF Calls
  <2>2. \A d, e \in Clients : cid'[d] = cid'[e] /\ cid'[d] # 0 => d = e
    BY <1>1, <1>4 DEF Calls
  <2>3. \A d \in Clients : cid'[d] \in zero => cpc'[d] \notin ThresholdPcs
    BY <1>1, <1>4 DEF Calls, ThresholdPcs
  <2>4. \A i \in Ids, d \in Clients : wpc[i] # "none" /\ cid'[d] = i => cpc'[d] = "respond"
    BY <1>1, <1>4, <1>5 DEF Calls
  <2> QED
    BY <1>1, <1>3, <1>5, <2>1, <2>2, <2>3, <2>4 DEF Calls
<1>r. RowsFit'
  BY <1>1, <1>3, <1>5, <1>6, RowsStay
<1>a. ASSUME NEW h \in Hosts PROVE AgentFits(h)'
  <2>1. AgentFits(h)
    BY DEF ThresholdInv
  <2> QED
    BY <1>2, <1>3, <1>5, <1>6, <2>1, AgentStays
<1>d. ASSUME NEW d \in Clients PROVE CallFits(d)'
  <2>1. CallFits(d)
    BY DEF ThresholdInv
  <2>2. CASE d # c
    BY <1>2, <1>3, <1>4, <2>1, <2>2, CallStays
  <2>3. CASE d = c
    BY <1>4, <2>3 DEF CallFits
  <2> QED
    BY <2>2, <2>3
<1>w. ASSUME NEW i \in Ids PROVE WatcherFits(i)' /\ Told(i)'
  <2>1. WatcherFits(i) /\ Told(i)
    BY DEF ThresholdInv
  <2>2. WatcherFits(i)'
    BY <1>3, <2>1, WatcherStays
  <2>3. Told(i)'
    BY <1>3, <1>5, <1>6, <2>1, ToldStays
  <2> QED
    BY <2>2, <2>3
<1> QED
  BY <1>t, <1>c, <1>r, <1>a, <1>d, <1>w DEF ThresholdInv

(* A thread is started for a row without a result, which has no report.     *)
LEMMA StartWatcherStep ==
    ASSUME ThresholdInv, NEW c \in Clients, StartWatcher(c)
    PROVE  ThresholdInv'
<1>1. ThresholdTypeOK /\ Calls /\ RowsFit
  BY DEF ThresholdInv
<1>2. /\ RowsOK /\ AgentsOK /\ HistoryOK /\ CallsOK /\ WatchersOK
      /\ asked \in [Ids -> 0 .. 2] /\ zero \subseteq Filed
  BY <1>1 DEF ThresholdTypeOK
<1>3. UNCHANGED <<apc, aid, arow, wreq, zero, asked, rows, nrows, enrolled, expired, cid, creq,
                  agent, delivered, answer>>
  BY DEF StartWatcher, agent, history
<1>4. /\ cpc[c] = "all-t" /\ cpc'[c] = "respond"
      /\ \A d \in Clients : d # c => cpc'[d] = cpc[d]
  BY <1>2 DEF StartWatcher, CallsOK
<1>5. /\ Filed' = Filed /\ \A i \in Filed : i \in Ids /\ rows[i] \in Rows
      /\ cid[c] \in Filed \ zero
  BY <1>1, <1>2, <1>3, <1>4, FiledIds DEF Calls, Filed, ThresholdPcs
<1>6. \A i \in Ids : \/ wpc'[i] = wpc[i]
                     \/ i = cid[c] /\ wpc'[i] = "sleep" /\ rows[i].result = NULL
  BY <1>2, <1>5 DEF StartWatcher, WatchersOK
<1>7. rows[cid[c]].result = NULL => rows[cid[c]].auditLog = NULL
  BY <1>1, <1>5, OatNullAssumption DEF RowsFit, Paired, Verdict, Results
<1>8. \A i \in Ids : Silent(i)' => Silent(i)
  BY <1>3, <1>4 DEF Silent, Deciding, Before
<1>9. \A i \in Ids : Minded(i)' => Minded(i) \/ rows[i].auditLog = NULL
  BY <1>3, <1>4, <1>6, <1>7 DEF Minded, Polling
<1>t. ThresholdTypeOK'
  <2>1. (RowsOK /\ AgentsOK /\ HistoryOK)'
    BY <1>2, <1>3, ServerTypesKept
  <2>2. CallsOK'
    BY <1>2, <1>3, <1>4, <1>5 DEF CallsOK, StartWatcher, ClientPcs
  <2>3. WatchersOK'
    BY <1>2, <1>3, <1>5 DEF WatchersOK, StartWatcher, WatcherPcs
  <2> QED
    BY <1>2, <1>3, <1>5, <2>1, <2>2, <2>3 DEF ThresholdTypeOK
<1>c. Calls'
  <2>1. \A d \in Clients : IF cpc'[d] = "idle" THEN cid[d] = 0 ELSE cid[d] \in Filed
    BY <1>1, <1>4 DEF Calls
  <2>2. \A d \in Clients : cid[d] \in zero => cpc'[d] \notin ThresholdPcs
    BY <1>1, <1>4 DEF Calls, ThresholdPcs
  <2>3. \A i \in Ids : wpc'[i] # "none" =>
           i \in Filed \ zero /\ \A d \in Clients : cid[d] = i => cpc'[d] = "respond"
    <3>1. \A d \in Clients : cid[d] = cid[c] => d = c
      BY <1>1, <1>2, <1>5 DEF Calls, Filed
    <3> QED
      BY <1>1, <1>4, <1>5, <1>6, <3>1 DEF Calls
  <2> QED
    BY <1>1, <1>3, <1>5, <2>1, <2>2, <2>3 DEF Calls
<1>r. RowsFit'
  BY <1>1, <1>3, <1>5, <1>8, RowsStay
<1>a. ASSUME NEW h \in Hosts PROVE AgentFits(h)'
  <2>1. AgentFits(h)
    BY DEF ThresholdInv
  <2> QED
    BY <1>2, <1>3, <1>5, <1>8, <1>9, <2>1, AgentStays
<1>d. ASSUME NEW d \in Clients PROVE CallFits(d)'
  <2>1. CallFits(d)
    BY DEF ThresholdInv
  <2>2. CASE d # c
    BY <1>2, <1>3, <1>4, <2>1, <2>2, CallStays
  <2>3. CASE d = c
    BY <1>4, <2>3 DEF CallFits
  <2> QED
    BY <2>2, <2>3
<1>w. ASSUME NEW i \in Ids PROVE WatcherFits(i)' /\ Told(i)'
  <2>1. WatcherFits(i) /\ Told(i)
    BY DEF ThresholdInv
  <2>2. WatcherFits(i)'
    BY <1>3, <1>6, <2>1 DEF WatcherFits, CopyFits
  <2>3. Told(i)'
    BY <1>3, <1>5, <1>8, <2>1, ToldStays
  <2> QED
    BY <2>2, <2>3
<1> QED
  BY <1>t, <1>c, <1>r, <1>a, <1>d, <1>w DEF ThresholdInv

(* A row is filed: nobody else knows of it yet.                             *)
LEMMA FileStep ==
    ASSUME ThresholdInv, NEW c \in Clients, NEW r \in Rows, NEW q \in {"fetch", "fetch-t"},
           cpc[c] = "idle", nrows < MaxRequests,
           nrows' = nrows + 1, rows' = [rows EXCEPT ![nrows + 1] = r],
           cpc' = [cpc EXCEPT ![c] = q], cid' = [cid EXCEPT ![c] = nrows + 1],
           zero' = zero \/ (zero' = zero \cup {nrows + 1} /\ q = "fetch"),
           zero' # zero \/ q = "fetch-t" => r.nextAction = "DO_NOTHING",
           r.auditLog = NULL, r.result = NULL,
           UNCHANGED <<enrolled, expired, creq, agent, delivered, answer, watcher, asked>>
    PROVE  ThresholdInv'
<1>0. PICK i : i = nrows + 1
  OBVIOUS
<1>1. ThresholdTypeOK /\ Calls /\ RowsFit
  BY DEF ThresholdInv
<1>2. /\ RowsOK /\ AgentsOK /\ HistoryOK /\ CallsOK /\ WatchersOK
      /\ asked \in [Ids -> 0 .. 2] /\ zero \subseteq Filed
  BY <1>1 DEF ThresholdTypeOK
<1>3. /\ (RowsOK /\ AgentsOK /\ HistoryOK /\ CallsOK)'
      /\ i \in Ids /\ i \notin Filed /\ Filed' = Filed \cup {i}
      /\ rows'[i] = r /\ \A j \in Filed : rows'[j] = rows[j]
  BY <1>0, <1>1, FiledTypes
<1>4. UNCHANGED <<apc, aid, arow, wpc, wreq>>
  BY DEF agent, watcher
<1>5. /\ cpc'[c] = q /\ cid'[c] = i /\ creq'[c] = creq[c] /\ cid[c] = 0
      /\ \A d \in Clients : d # c => cpc'[d] = cpc[d] /\ cid'[d] = cid[d]
  BY <1>0, <1>1, <1>2 DEF CallsOK, Calls
<1>6. /\ \A d \in Clients : cid[d] # i
      /\ wpc[i] = "none"
      /\ i # 0 /\ i \notin zero
  BY <1>1, <1>2, <1>3 DEF Calls, CallsOK, Ids
<1>7. \A j \in Filed : j \in Ids /\ j # i
  BY <1>2, <1>3, FiledIds
<1>8. \A j \in Filed : (Silent(j)' => Silent(j)) /\ (Minded(j)' => Minded(j))
  <2>1. \A j \in Filed : Silent(j)' => Silent(j)
    BY <1>0, <1>5, <1>7 DEF Silent, Deciding
  <2>2. \A j \in Filed : Minded(j)' => Minded(j)
    BY <1>4, <1>5, <1>7 DEF Minded
  <2> QED
    BY <2>1, <2>2
<1>t. ThresholdTypeOK'
  <2>1. WatchersOK'
    BY <1>2, WatcherTypesKept
  <2>2. zero' \subseteq Filed'
    BY <1>0, <1>2, <1>3
  <2> QED
    BY <1>2, <1>3, <2>1, <2>2 DEF ThresholdTypeOK
<1>c. Calls'
  <2>1. \A d \in Clients : IF cpc'[d] = "idle" THEN cid'[d] = 0 ELSE cid'[d] \in Filed'
    BY <1>1, <1>3, <1>5 DEF Calls
  <2>2. \A d, e \in Clients : cid'[d] = cid'[e] /\ cid'[d] # 0 => d = e
    BY <1>1, <1>5, <1>6 DEF Calls
  <2>3. \A d \in Clients : cid'[d] \in zero' => cpc'[d] \notin ThresholdPcs
    BY <1>0, <1>1, <1>5, <1>6 DEF Calls, ThresholdPcs
  <2>4. \A j \in Ids : wpc[j] # "none" => j \in Filed' \ zero'
    BY <1>0, <1>1, <1>3, <1>6 DEF Calls
  <2>5. \A j \in Ids, d \in Clients : wpc[j] # "none" /\ cid'[d] = j => cpc'[d] = "respond"
    BY <1>1, <1>5, <1>6 DEF Calls
  <2> QED
    BY <1>4, <2>1, <2>2, <2>3, <2>4, <2>5 DEF Calls
<1>r. RowsFit'
  <2>1. Paired(r)
    BY OatNullAssumption DEF Paired, Verdict, Results
  <2>2. Silent(i)' => r.nextAction = "DO_NOTHING"
    BY <1>0, <1>5, <1>6 DEF Silent, Deciding, Before
  <2>3. \A j \in Filed : Paired(rows[j]) /\ (Silent(j)' => rows[j].nextAction = "DO_NOTHING")
    BY <1>1, <1>8 DEF RowsFit
  <2>4. \A j \in Filed' : Paired(rows'[j]) /\ (Silent(j)' => rows'[j].nextAction = "DO_NOTHING")
    BY <1>3, <2>1, <2>2, <2>3
  <2> QED
    BY <2>4 DEF RowsFit, Paired
<1>a. ASSUME NEW h \in Hosts PROVE AgentFits(h)'
  <2>1. AgentFits(h)
    BY DEF ThresholdInv
  <2> QED
    BY <1>2, <1>3, <1>4, <1>8, <2>1, AgentStays
<1>d. ASSUME NEW d \in Clients PROVE CallFits(d)'
  <2>1. CallFits(d)
    BY DEF ThresholdInv
  <2>2. CASE d # c
    BY <1>0, <1>2, <1>3, <1>5, <2>1, <2>2, CallStays
  <2>3. CASE d = c
    BY <1>5, <2>3 DEF CallFits
  <2> QED
    BY <2>2, <2>3
<1>w. ASSUME NEW j \in Ids PROVE WatcherFits(j)' /\ Told(j)'
  <2>1. WatcherFits(j) /\ Told(j)
    BY DEF ThresholdInv
  <2>2. wpc[j] # "none" => rows'[j] = rows[j]
    BY <1>1, <1>3 DEF Calls
  <2>3. WatcherFits(j)'
    BY <1>4, <2>1, <2>2, WatcherStays
  <2>4. Told(j)'
    BY <1>3, <1>4, <1>8, <2>1, ToldStays
  <2> QED
    BY <2>3, <2>4
<1> QED
  BY <1>t, <1>c, <1>r, <1>a, <1>d, <1>w DEF ThresholdInv

(* addRequests without a threshold, ...                                     *)
LEMMA AddRequestStep ==
    ASSUME ThresholdInv, NEW c \in Clients, NEW h \in Hosts, NEW p \in Properties,
           OatStep, AddRequest(c, h, p)
    PROVE  ThresholdInv'
<1>1. (h \in enrolled) \in BOOLEAN
  OBVIOUS
<1>2. PICK r \in Rows : /\ rows' = [rows EXCEPT ![nrows + 1] = r]
                        /\ r.auditLog = NULL /\ r.result = NULL
  BY <1>1, NewRow DEF AddRequest
<1>3. asked \in [Ids -> 0 .. 2]
  BY DEF ThresholdInv, ThresholdTypeOK
<1>4. asked' = asked
  BY <1>3, NobodyTold DEF AddRequest, agent
<1> QED
  BY <1>2, <1>4, FileStep DEF AddRequest, OatStep

(* ... and with one, of 0 or not.                                           *)
LEMMA AddThresholdRequestStep ==
    ASSUME ThresholdInv, NEW c \in Clients, NEW h \in Hosts, NEW p \in Properties,
           NEW isZero \in BOOLEAN, AddThresholdRequest(c, h, p, isZero)
    PROVE  ThresholdInv'
<1>1. (h \in enrolled) \in BOOLEAN
  OBVIOUS
<1>2. PICK r \in Rows : /\ rows' = [rows EXCEPT ![nrows + 1] = r]
                        /\ r.auditLog = NULL /\ r.result = NULL
                        /\ r.nextAction = "DO_NOTHING"
  BY <1>1, NewThresholdRow DEF AddThresholdRequest
<1>3. CASE isZero
  BY <1>2, <1>3, FileStep DEF AddThresholdRequest
<1>4. CASE ~isZero
  BY <1>2, <1>4, FileStep DEF AddThresholdRequest
<1> QED
  BY <1>3, <1>4

------------------------------------------------------------------------------
(* The steps that write a row.                                              *)

(* What an UPDATE by whole row does, when the row keeps its host.           *)
LEMMA RowWritten ==
    ASSUME RowsOK, RowsFit, NEW i \in Filed, NEW r \in Rows,
           rows' = [rows EXCEPT ![i] = r], UNCHANGED <<nrows, enrolled, expired>>,
           r.host = rows[i].host, Paired(r),
           Silent(i)' => r.nextAction = "DO_NOTHING",
           \A j \in Ids : Silent(j)' => Silent(j)
    PROVE  /\ RowsOK' /\ RowsFit'
           /\ Filed' = Filed /\ \A j \in Filed : j \in Ids
           /\ rows'[i] = r /\ \A j \in Filed : j # i => rows'[j] = rows[j]
           /\ \A j \in Filed : rows'[j].host = rows[j].host
<1>1. RowsOK' /\ rows'[i] = r /\ \A j \in Filed : j # i => rows'[j] = rows[j]
  BY UpdateRequest
<1>2. Filed' = Filed /\ \A j \in Filed : j \in Ids
  BY FiledIds DEF Filed
<1>3. \A j \in Filed' : Paired(rows'[j]) /\ (Silent(j)' => rows'[j].nextAction = "DO_NOTHING")
  BY <1>1, <1>2 DEF RowsFit
<1>4. RowsFit'
  BY <1>3 DEF RowsFit, Paired
<1> QED
  BY <1>1, <1>2, <1>4

(* The loop of a call writes UN_KNOWN or TIME_OUT over a row that may have  *)
(* a report by now.                                                         *)
LEMMA WriteResultStep ==
    ASSUME ThresholdInv, NEW c \in Clients, OatStep, WriteResult(c)
    PROVE  ThresholdInv'
<1>1. ThresholdTypeOK /\ Calls /\ RowsFit /\ CallFits(c)
  BY DEF ThresholdInv
<1>2. /\ RowsOK /\ AgentsOK /\ HistoryOK /\ CallsOK /\ WatchersOK
      /\ asked \in [Ids -> 0 .. 2] /\ zero \subseteq Filed
  BY <1>1 DEF ThresholdTypeOK
<1>3. UNCHANGED <<apc, aid, arow, wpc, wreq, zero, asked, nrows, enrolled, expired, cid, agent,
                  watcher, delivered, answer>>
  <2>1. UNCHANGED <<apc, aid, arow, nrows, enrolled, expired, cid, agent, delivered, answer>>
    BY DEF WriteResult, agent
  <2>2. asked' = asked
    BY <1>2, <2>1, NobodyTold
  <2> QED
    BY <2>1, <2>2 DEF OatStep, watcher
<1>4. PICK i : i = cid[c]
  OBVIOUS
<1>5. cpc[c] \in {"unknown", "timeout"} /\ cpc' = [cpc EXCEPT ![c] = "wait"]
  BY DEF WriteResult
<1>6. i \in Filed /\ creq[c] \in Rows
  BY <1>2, <1>4, <1>5 DEF CallsOK
<1>7. PICK r \in Rows : /\ creq' = [creq EXCEPT ![c] = r]
                        /\ rows' = [rows EXCEPT ![i] = r]
                        /\ r.host = creq[c].host /\ r.auditLog = creq[c].auditLog
                        /\ r.nextAction = creq[c].nextAction
                        /\ r.result \in {"UN_KNOWN", "TIME_OUT"}
  <2>1. PICK v \in {"UN_KNOWN", "TIME_OUT"} :
           /\ creq' = [creq EXCEPT ![c] = [creq[c] EXCEPT !.result = v]]
           /\ rows' = [rows EXCEPT ![cid[c]] = [creq[c] EXCEPT !.result = v]]
    BY DEF WriteResult
  <2> QED
    BY <1>4, <1>6, <2>1, ResultWritten
<1>8. r.host = rows[i].host /\ r.auditLog = NULL /\ (i \in zero => r.nextAction = "DO_NOTHING")
  BY <1>1, <1>4, <1>5, <1>7 DEF CallFits, CopyFits
<1>9. r.result # NULL /\ Paired(r)
  BY <1>7, <1>8, OatNullAssumption DEF Paired, Verdict, Results
<1>10. /\ \A d \in Clients : d # c => cid[d] # i
       /\ wpc[i] = "none"
  BY <1>1, <1>2, <1>4, <1>5, <1>6, FiledIds DEF Calls, Ids
<1>11. /\ cpc'[c] = "wait" /\ creq'[c] = r
       /\ \A d \in Clients : d # c => cpc'[d] = cpc[d] /\ creq'[d] = creq[d]
  BY <1>2, <1>5, <1>7 DEF CallsOK
<1>12. \A j \in Ids : (Silent(j)' => Silent(j)) /\ (Minded(j)' => Minded(j))
  BY <1>2, <1>3, <1>5, MovedSilence, MovedMinds DEF Before, Polling
<1>13. Silent(i)' => r.nextAction = "DO_NOTHING"
  BY <1>3, <1>8, <1>10, <1>11 DEF Silent, Deciding, Before
<1>14. /\ RowsOK' /\ RowsFit'
       /\ Filed' = Filed /\ \A j \in Filed : j \in Ids
       /\ rows'[i] = r /\ \A j \in Filed : j # i => rows'[j] = rows[j]
       /\ \A j \in Filed : rows'[j].host = rows[j].host
  BY <1>1, <1>2, <1>3, <1>6, <1>7, <1>8, <1>9, <1>12, <1>13, RowWritten
<1>t. ThresholdTypeOK'
  <2>1. CallsOK'
    BY <1>2, <1>3, <1>4, <1>5, <1>6, <1>7, MovedTypes DEF ClientPcs
  <2> QED
    BY <1>2, <1>3, <1>14, <2>1, AgentTypesKept, WatcherTypesKept DEF ThresholdTypeOK
<1>c. Calls'
  <2>1. \A d \in Clients : IF cpc'[d] = "idle" THEN cid[d] = 0 ELSE cid[d] \in Filed
    BY <1>1, <1>4, <1>6, <1>11 DEF Calls
  <2>2. \A d \in Clients : cid[d] \in zero => cpc'[d] \notin ThresholdPcs
    BY <1>1, <1>11 DEF Calls, ThresholdPcs
  <2>3. \A j \in Ids, d \in Clients : wpc[j] # "none" /\ cid[d] = j => cpc'[d] = "respond"
    BY <1>1, <1>4, <1>10, <1>11 DEF Calls
  <2> QED
    BY <1>1, <1>3, <1>14, <2>1, <2>2, <2>3 DEF Calls
<1>a. ASSUME NEW h \in Hosts PROVE AgentFits(h)'
  <2>1. AgentFits(h)
    BY DEF ThresholdInv
  <2> QED
    BY <1>2, <1>3, <1>8, <1>12, <1>14, <2>1, AgentStays
<1>d. ASSUME NEW d \in Clients PROVE CallFits(d)'
  <2>1. CallFits(d)
    BY DEF ThresholdInv
  <2>2. CASE d # c
    BY <1>2, <1>3, <1>10, <1>11, <1>14, <2>1, <2>2, CallStays
  <2>3. CASE d = c
    BY <1>3, <1>4, <1>8, <1>11, <1>14, <2>3 DEF CallFits, CopyFits
  <2> QED
    BY <2>2, <2>3
<1>w. ASSUME NEW j \in Ids PROVE WatcherFits(j)' /\ Told(j)'
  <2>1. WatcherFits(j) /\ Told(j)
    BY DEF ThresholdInv
  <2>2. wpc[j] # "none" => rows'[j] = rows[j]
    BY <1>1, <1>10, <1>14 DEF Calls
  <2>3. WatcherFits(j)'
    BY <1>3, <2>1, <2>2, WatcherStays
  <2>4. Told(j)'
    BY <1>3, <1>9, <1>12, <1>14, <2>1, ToldStays
  <2> QED
    BY <2>3, <2>4
<1> QED
  BY <1>t, <1>c, <1>14, <1>a, <1>d, <1>w DEF ThresholdInv

(* The call with a threshold writes its copy: no agent was asked for the    *)
(* request before, and no loop or thread holds a copy of it.                *)
LEMMA UpdateThresholdStep ==
    ASSUME ThresholdInv, NEW c \in Clients, UpdateThresholdRequest(c)
    PROVE  ThresholdInv'
<1>1. ThresholdTypeOK /\ Calls /\ RowsFit /\ CallFits(c)
  BY DEF ThresholdInv
<1>2. /\ RowsOK /\ AgentsOK /\ HistoryOK /\ CallsOK /\ WatchersOK
      /\ asked \in [Ids -> 0 .. 2] /\ zero \subseteq Filed
  BY <1>1 DEF ThresholdTypeOK
<1>3. UNCHANGED <<apc, aid, arow, wpc, wreq, zero, asked, nrows, enrolled, expired, cid, creq,
                  agent, watcher, delivered, answer>>
  BY DEF UpdateThresholdRequest, agent, watcher, history
<1>4. PICK i : i = cid[c]
  OBVIOUS
<1>5. cpc[c] = "update-t" /\ cpc' = [cpc EXCEPT ![c] = "all-t"]
  BY DEF UpdateThresholdRequest
<1>6. i \in Filed /\ creq[c] \in Rows
  BY <1>2, <1>4, <1>5 DEF CallsOK
<1>7. PICK r \in Rows : r = creq[c] /\ rows' = [rows EXCEPT ![i] = r]
  BY <1>4, <1>6 DEF UpdateThresholdRequest
<1>8. r.host = rows[i].host /\ Paired(r)
  BY <1>1, <1>4, <1>5, <1>7 DEF CallFits
<1>9. /\ \A d \in Clients : d # c => cid[d] # i
      /\ wpc[i] = "none" /\ i \notin zero
  BY <1>1, <1>2, <1>4, <1>5, <1>6, FiledIds DEF Calls, Ids, ThresholdPcs
<1>10. cpc'[c] = "all-t" /\ \A d \in Clients : d # c => cpc'[d] = cpc[d]
  BY <1>2, <1>5 DEF CallsOK
<1>11. \A j \in Ids : (Silent(j)' => Silent(j)) /\ (Minded(j)' => Minded(j))
  BY <1>2, <1>3, <1>5, MovedSilence, MovedMinds DEF Before, Polling
<1>12. Silent(i) /\ ~Silent(i)' /\ ~Minded(i)'
  <2>1. Silent(i)
    BY <1>4, <1>5 DEF Silent, Deciding, Before
  <2>2. ~Silent(i)'
    BY <1>3, <1>9, <1>10 DEF Silent, Deciding, Before
  <2>3. ~Minded(i)'
    BY <1>3, <1>9, <1>10 DEF Minded, Polling
  <2> QED
    BY <2>1, <2>2, <2>3
<1>14. /\ RowsOK' /\ RowsFit'
       /\ Filed' = Filed /\ \A j \in Filed : j \in Ids
       /\ rows'[i] = r /\ \A j \in Filed : j # i => rows'[j] = rows[j]
       /\ \A j \in Filed : rows'[j].host = rows[j].host
  BY <1>1, <1>2, <1>3, <1>6, <1>7, <1>8, <1>11, <1>12, RowWritten
<1>t. ThresholdTypeOK'
  <2>1. CallsOK'
    BY <1>2, <1>3, <1>4, <1>5, <1>6, <1>14 DEF CallsOK, ThresholdPcs
  <2> QED
    BY <1>2, <1>3, <1>14, <2>1, AgentTypesKept, WatcherTypesKept DEF ThresholdTypeOK
<1>c. Calls'
  <2>1. \A d \in Clients : IF cpc'[d] = "idle" THEN cid[d] = 0 ELSE cid[d] \in Filed
    BY <1>1, <1>4, <1>6, <1>10 DEF Calls
  <2>2. \A d \in Clients : cid[d] \in zero => cpc'[d] \notin ThresholdPcs
    BY <1>1, <1>4, <1>9, <1>10 DEF Calls
  <2>3. \A j \in Ids, d \in Clients : wpc[j] # "none" /\ cid[d] = j => cpc'[d] = "respond"
    BY <1>1, <1>4, <1>9, <1>10 DEF Calls
  <2> QED
    BY <1>1, <1>3, <1>14, <2>1, <2>2, <2>3 DEF Calls
<1>a. ASSUME NEW h \in Hosts PROVE AgentFits(h)'
  <2>1. AgentFits(h)
    BY DEF ThresholdInv
  <2> QED
    BY <1>2, <1>3, <1>11, <1>12, <1>14, <2>1, AgentStays
<1>d. ASSUME NEW d \in Clients PROVE CallFits(d)'
  <2>1. CallFits(d)
    BY DEF ThresholdInv
  <2>2. CASE d # c
    BY <1>2, <1>3, <1>9, <1>10, <1>14, <2>1, <2>2, CallStays
  <2>3. CASE d = c
    BY <1>10, <2>3 DEF CallFits
  <2> QED
    BY <2>2, <2>3
<1>w. ASSUME NEW j \in Ids PROVE WatcherFits(j)' /\ Told(j)'
  <2>1. WatcherFits(j) /\ Told(j)
    BY DEF ThresholdInv
  <2>2. wpc[j] # "none" => rows'[j] = rows[j]
    BY <1>1, <1>9, <1>14 DEF Calls
  <2>3. WatcherFits(j)'
    BY <1>3, <2>1, <2>2, WatcherStays
  <2>4. CASE j # i
    BY <1>3, <1>11, <1>14, <2>1, <2>3, <2>4, ToldStays
  <2>5. CASE j = i
    BY <1>3, <1>12, <2>1, <2>3, <2>5 DEF Told
  <2> QED
    BY <2>3, <2>4, <2>5
<1> QED
  BY <1>t, <1>c, <1>14, <1>a, <1>d, <1>w DEF ThresholdInv

------------------------------------------------------------------------------
(* The steps of CheckAttestThread.                                          *)

(* The rounds of the thread but for its UPDATE.  A result is only written   *)
(* over a copy without a report, as in the loop of a call.                  *)
LEMMA WatchRoundStep ==
    ASSUME ThresholdInv, NEW i \in Ids, Wake(i) \/ WatchCheck(i) \/ WatchEnd(i)
    PROVE  ThresholdInv'
<1>1. ThresholdTypeOK /\ Calls /\ RowsFit
  BY DEF ThresholdInv
<1>2. /\ RowsOK /\ AgentsOK /\ HistoryOK /\ CallsOK /\ WatchersOK
      /\ asked \in [Ids -> 0 .. 2] /\ zero \subseteq Filed
  BY <1>1 DEF ThresholdTypeOK
<1>3. UNCHANGED <<rows, nrows, enrolled, expired, client, cpc, cid, creq, agent, apc, aid, arow,
                  delivered, answer, zero, asked>>
  BY DEF Wake, WatchCheck, WatchEnd, vars, client, agent, history
<1>4. wpc[i] # "none"
  BY DEF Wake, WatchCheck, WatchEnd
<1>5. i \in Filed /\ rows[i] \in Rows
  BY <1>1, <1>2, <1>4, FiledIds DEF Calls
<1>6. \A j \in Ids : j # i => wpc'[j] = wpc[j] /\ wreq'[j] = wreq[j]
  BY <1>2 DEF Wake, WatchCheck, WatchEnd, WatchersOK
<1>7. Filed' = Filed /\ \A j \in Filed : j \in Ids
  BY <1>2, <1>3, FiledIds DEF Filed
<1>8. \A j \in Ids : (Silent(j)' => Silent(j)) /\ (Minded(j)' => Minded(j))
  <2>1. \A j \in Ids : Silent(j)' => Silent(j)
    BY <1>3, SameSilence
  <2>2. \A j \in Ids : Minded(j)' => Minded(j)
    BY <1>3, <1>4, <1>6 DEF Minded
  <2> QED
    BY <2>1, <2>2
<1>t. ThresholdTypeOK'
  <2>1. WatchersOK'
    <3>1. CASE Wake(i)
      BY <1>2, <1>5, <3>1 DEF WatchersOK, Wake, WatcherPcs
    <3>2. CASE WatchCheck(i)
      BY <1>2, <3>2 DEF WatchersOK, WatchCheck, WatcherPcs
    <3>3. CASE WatchEnd(i)
      BY <1>2, <3>3 DEF WatchersOK, WatchEnd, WatcherPcs
    <3> QED
      BY <3>1, <3>2, <3>3
  <2> QED
    BY <1>2, <1>3, <1>7, <2>1, ServerTypesKept, CallTypesKept DEF ThresholdTypeOK
<1>c. Calls'
  BY <1>1, <1>3, <1>4, <1>6, SameCalls
<1>r. RowsFit'
  BY <1>1, <1>3, <1>7, <1>8, RowsStay
<1>a. ASSUME NEW h \in Hosts PROVE AgentFits(h)'
  <2>1. AgentFits(h)
    BY DEF ThresholdInv
  <2> QED
    BY <1>2, <1>3, <1>7, <1>8, <2>1, AgentStays
<1>d. ASSUME NEW d \in Clients PROVE CallFits(d)'
  <2>1. CallFits(d)
    BY DEF ThresholdInv
  <2> QED
    BY <1>2, <1>3, <2>1, CallStays
<1>w. ASSUME NEW j \in Ids PROVE WatcherFits(j)' /\ Told(j)'
  <2>1. WatcherFits(j) /\ Told(j)
    BY DEF ThresholdInv
  <2>2. Told(j)'
    BY <1>3, <1>7, <1>8, <2>1, ToldStays
  <2>3. CASE j # i
    BY <1>3, <1>6, <2>1, <2>2, <2>3, WatcherStays
  <2>4. CASE j = i
    <3>1. CASE Wake(i)
      <4>1. wpc'[i] = "check" /\ wreq'[i] = rows[i]
        BY <1>2, <3>1 DEF Wake, WatchersOK
      <4> QED
        BY <1>3, <2>2, <2>4, <4>1 DEF WatcherFits, CopyFits
    <3>2. CASE WatchCheck(i)
      <4>1. rows[i].result = NULL => rows[i].auditLog = NULL
        BY <1>1, <1>5, OatNullAssumption DEF RowsFit, Paired, Verdict, Results
      <4>2. /\ wpc[i] = "check" /\ wreq'[i] = wreq[i]
            /\ wpc'[i] \in {"unknown", "timeout"} => rows[i].result = NULL
            /\ wpc'[i] \in {"unknown", "timeout", "all"}
        BY <1>2, <3>2 DEF WatchCheck, WatchersOK
      <4>3. wreq[i].auditLog # NULL => rows[i].auditLog # NULL
        BY <2>1, <2>4, <4>2 DEF WatcherFits, CopyFits
      <4> QED
        BY <1>3, <2>1, <2>2, <2>4, <4>1, <4>2, <4>3 DEF WatcherFits, CopyFits
    <3>3. CASE WatchEnd(i)
      <4>1. wpc'[i] \in {"sleep", "ended"}
        BY <1>2, <3>3 DEF WatchEnd, WatchersOK
      <4> QED
        BY <2>2, <2>4, <4>1 DEF WatcherFits
    <3> QED
      BY <3>1, <3>2, <3>3
  <2> QED
    BY <2>3, <2>4
<1> QED
  BY <1>t, <1>c, <1>r, <1>a, <1>d, <1>w DEF ThresholdInv

(* The thread writes UN_KNOWN or TIME_OUT: the call it was left behind by   *)
(* is about to answer or has answered, and holds no copy any more.          *)
LEMMA WatchWriteStep ==
    ASSUME ThresholdInv, NEW i \in Ids, WatchWrite(i)
    PROVE  ThresholdInv'
<1>1. ThresholdTypeOK /\ Calls /\ RowsFit /\ WatcherFits(i)
  BY DEF ThresholdInv
<1>2. /\ RowsOK /\ AgentsOK /\ HistoryOK /\ CallsOK /\ WatchersOK
      /\ asked \in [Ids -> 0 .. 2] /\ zero \subseteq Filed
  BY <1>1 DEF ThresholdTypeOK
<1>3. UNCHANGED <<nrows, enrolled, expired, client, cpc, cid, creq, agent, apc, aid, arow,
                  delivered, answer, zero, asked, wreq>>
  BY DEF WatchWrite, client, agent, history
<1>4. /\ wpc[i] \in {"unknown", "timeout"} /\ wpc'[i] = "all"
      /\ \A j \in Ids : j # i => wpc'[j] = wpc[j]
  BY <1>2 DEF WatchWrite, WatchersOK
<1>5. i \in Filed \ zero /\ \A d \in Clients : cid[d] = i => cpc[d] = "respond"
  BY <1>1, <1>4 DEF Calls
<1>6. wreq[i] \in Rows
  BY <1>2, <1>4 DEF WatchersOK
<1>7. PICK r \in Rows : /\ rows' = [rows EXCEPT ![i] = r]
                        /\ r.host = wreq[i].host /\ r.auditLog = wreq[i].auditLog
                        /\ r.result \in {"UN_KNOWN", "TIME_OUT"}
  <2>1. PICK v \in {"UN_KNOWN", "TIME_OUT"} :
           rows' = [rows EXCEPT ![i] = [wreq[i] EXCEPT !.result = v]]
    BY DEF WatchWrite
  <2> QED
    BY <1>6, <2>1, ResultWritten
<1>8. r.host = rows[i].host /\ r.auditLog = NULL
  BY <1>1, <1>4, <1>7 DEF WatcherFits, CopyFits
<1>9. r.result # NULL /\ Paired(r)
  BY <1>7, <1>8, OatNullAssumption DEF Paired, Verdict, Results
<1>10. \A j \in Ids : Silent(j)' <=> Silent(j)
  BY <1>3, SameSilence
<1>11. \A j \in Ids : Minded(j)' => Minded(j)
  BY <1>3, <1>4 DEF Minded
<1>12. ~Silent(i)
  BY <1>5 DEF Silent, Deciding, Before
<1>14. /\ RowsOK' /\ RowsFit'
       /\ Filed' = Filed /\ \A j \in Filed : j \in Ids
       /\ rows'[i] = r /\ \A j \in Filed : j # i => rows'[j] = rows[j]
       /\ \A j \in Filed : rows'[j].host = rows[j].host
  BY <1>1, <1>2, <1>3, <1>5, <1>7, <1>8, <1>9, <1>10, <1>12, RowWritten
<1>t. ThresholdTypeOK'
  <2>1. WatchersOK'
    BY <1>2 DEF WatchersOK, WatchWrite, WatcherPcs
  <2> QED
    BY <1>2, <1>3, <1>14, <2>1, AgentTypesKept, CallTypesKept DEF ThresholdTypeOK
<1>c. Calls'
  BY <1>1, <1>3, <1>4, SameCalls
<1>a. ASSUME NEW h \in Hosts PROVE AgentFits(h)'
  <2>1. AgentFits(h)
    BY DEF ThresholdInv
  <2> QED
    BY <1>2, <1>3, <1>8, <1>10, <1>11, <1>14, <2>1, AgentStays
<1>d. ASSUME NEW d \in Clients PROVE CallFits(d)'
  <2>1. CallFits(d)
    BY DEF ThresholdInv
  <2>2. cid[d] = i => cpc[d] \notin Polling
    BY <1>5 DEF Polling
  <2> QED
    BY <1>2, <1>3, <1>14, <2>1, <2>2, CallStays
<1>w. ASSUME NEW j \in Ids PROVE WatcherFits(j)' /\ Told(j)'
  <2>1. WatcherFits(j) /\ Told(j)
    BY DEF ThresholdInv
  <2>2. Told(j)'
    BY <1>3, <1>9, <1>10, <1>14, <2>1, ToldStays
  <2>3. CASE j # i
    <3>1. wpc[j] # "none" => rows'[j] = rows[j]
      BY <1>1, <1>14, <2>3 DEF Calls
    <3> QED
      BY <1>3, <1>4, <2>1, <2>2, <2>3, <3>1, WatcherStays
  <2>4. CASE j = i
    BY <1>4, <2>2, <2>4 DEF WatcherFits
  <2> QED
    BY <2>3, <2>4
<1> QED
  BY <1>t, <1>c, <1>14, <1>a, <1>d, <1>w DEF ThresholdInv

------------------------------------------------------------------------------
(* The steps of the agents.                                                 *)

(* What a step of an agent leaves alone, and that only ConsumeRequest tells *)
(* it SEND_REPORT.                                                          *)
LEMMA AgentFrame ==
    ASSUME ThresholdTypeOK, NEW h \in Hosts, OatStep, Agent(h) \/ Enroll(h)
    PROVE  /\ (RowsOK /\ AgentsOK /\ HistoryOK)'
           /\ UNCHANGED <<nrows, expired, client, cpc, cid, creq, watcher, wpc, wreq, zero>>
           /\ \A g \in Hosts \ {h} : apc'[g] = apc[g] /\ aid'[g] = aid[g] /\ arow'[g] = arow[g]
           /\ ~ConsumeRequest(h) => asked' = asked
<1>1. RowsOK /\ AgentsOK /\ HistoryOK /\ asked \in [Ids -> 0 .. 2]
  BY DEF ThresholdTypeOK
<1>2. (RowsOK /\ AgentsOK /\ HistoryOK)'
  BY <1>1, AgentTypeStep
<1>3. UNCHANGED <<nrows, expired, client, watcher, zero>>
  BY DEF OatStep, Agent, DoNothing, GetFirstRequest, ConsumeRequest, GetNonce, Measure,
     MeasureFails, Quote, AgentFails, SubmitUnasked, SubmitReport, StoreVerdict, Enroll, vars
<1>4. \A g \in Hosts \ {h} : apc'[g] = apc[g] /\ aid'[g] = aid[g] /\ arow'[g] = arow[g]
  BY <1>1 DEF AgentsOK, Agent, DoNothing, GetFirstRequest, ConsumeRequest, GetNonce, Measure,
     MeasureFails, Quote, AgentFails, SubmitUnasked, SubmitReport, StoreVerdict, Enroll, vars, agent
<1>5. ASSUME ~ConsumeRequest(h) PROVE asked' = asked
  <2>1. apc[h] = "poll" => apc'[h] # "told"
    BY <1>5 DEF Agent, DoNothing, GetFirstRequest, GetNonce, Measure, MeasureFails,
       Quote, AgentFails, SubmitUnasked, SubmitReport, StoreVerdict, Enroll, agent
  <2>2. \A g \in Hosts : apc[g] = "poll" => apc'[g] # "told"
    BY <1>4, <2>1
  <2> QED
    BY <1>1, <2>2, NobodyTold
<1> QED
  BY <1>2, <1>3, <1>4, <1>5 DEF client, watcher

(* An agent that writes no row.                                             *)
LEMMA AgentMoves ==
    ASSUME ThresholdInv, NEW h \in Hosts, OatStep, Agent(h) \/ Enroll(h), ~ConsumeRequest(h),
           UNCHANGED rows, AgentFits(h)',
           apc'[h] = "poll" => \/ apc[h] = "poll" /\ aid'[h] = aid[h] /\ arow'[h] = arow[h]
                               \/ asked[aid'[h]] = 1 => arow'[h].nextAction = "DO_NOTHING"
    PROVE  ThresholdInv'
<1>1. ThresholdTypeOK /\ Calls /\ RowsFit
  BY DEF ThresholdInv
<1>2. /\ RowsOK /\ AgentsOK /\ HistoryOK /\ CallsOK /\ WatchersOK
      /\ asked \in [Ids -> 0 .. 2] /\ zero \subseteq Filed
  BY <1>1 DEF ThresholdTypeOK
<1>3. /\ (RowsOK /\ AgentsOK /\ HistoryOK)'
      /\ UNCHANGED <<rows, nrows, expired, client, cpc, cid, creq, watcher, wpc, wreq, zero, asked>>
      /\ \A g \in Hosts \ {h} : apc'[g] = apc[g] /\ aid'[g] = aid[g] /\ arow'[g] = arow[g]
  BY <1>1, AgentFrame
<1>4. Filed' = Filed /\ \A i \in Filed : i \in Ids
  BY <1>2, <1>3, FiledIds DEF Filed
<1>5. \A i \in Ids : (Silent(i)' <=> Silent(i)) /\ (Minded(i)' <=> Minded(i))
  BY <1>3, SameSilence, SameMinds
<1>t. ThresholdTypeOK'
  BY <1>2, <1>3, <1>4, CallTypesKept, WatcherTypesKept DEF ThresholdTypeOK
<1>c. Calls'
  BY <1>1, <1>3, SameCalls
<1>r. RowsFit'
  BY <1>1, <1>3, <1>4, <1>5, RowsStay
<1>a. ASSUME NEW g \in Hosts PROVE AgentFits(g)'
  <2>1. AgentFits(g)
    BY DEF ThresholdInv
  <2>2. CASE g # h
    BY <1>2, <1>3, <1>4, <1>5, <2>1, <2>2, AgentStays
  <2> QED
    BY <2>2
<1>d. ASSUME NEW d \in Clients PROVE CallFits(d)'
  <2>1. CallFits(d)
    BY DEF ThresholdInv
  <2> QED
    BY <1>2, <1>3, <2>1, CallStays
<1>w. ASSUME NEW i \in Ids PROVE WatcherFits(i)' /\ Told(i)'
  <2>1. WatcherFits(i) /\ Told(i)
    BY DEF ThresholdInv
  <2>2. WatcherFits(i)'
    BY <1>3, <2>1, WatcherStays
  <2>3. \A g \in Hosts : apc'[g] = "poll" /\ aid'[g] = i =>
              \/ apc[g] = "poll" /\ aid[g] = i /\ arow'[g] = arow[g]
              \/ asked[i] = 1 => arow'[g].nextAction = "DO_NOTHING"
    BY <1>3
  <2>4. Told(i)'
    BY <1>3, <1>4, <1>5, <2>1, <2>3, ToldStays
  <2> QED
    BY <2>2, <2>4
<1> QED
  BY <1>t, <1>c, <1>r, <1>a, <1>d, <1>w DEF ThresholdInv

(* The transactions that read a row, and the steps between them.            *)
LEMMA AgentReadStep ==
    ASSUME ThresholdInv, NEW h \in Hosts, OatStep, Agent(h) \/ Enroll(h),
           ~ConsumeRequest(h), ~StoreVerdict(h)
    PROVE  ThresholdInv'
<1>1. ThresholdTypeOK /\ Calls /\ RowsFit /\ AgentFits(h)
  BY DEF ThresholdInv
<1>2. /\ RowsOK /\ AgentsOK /\ HistoryOK /\ CallsOK /\ WatchersOK
      /\ asked \in [Ids -> 0 .. 2] /\ zero \subseteq Filed
  BY <1>1 DEF ThresholdTypeOK
<1>3. UNCHANGED <<rows, cpc, cid, wpc, zero>>
  <2>1. UNCHANGED rows
    BY DEF Agent, DoNothing, GetFirstRequest, GetNonce, Measure, MeasureFails,
       Quote, AgentFails, SubmitUnasked, SubmitReport, Enroll, vars
  <2> QED
    BY <1>1, <2>1, AgentFrame
<1>4. \A i \in Ids : (Silent(i)' <=> Silent(i)) /\ (Minded(i)' <=> Minded(i))
  BY <1>3, SameSilence, SameMinds
<1>5. ASSUME NEW i \in Ids, GetFirstRequest(h, i)
      PROVE  ThresholdInv'
  <2>1. /\ apc'[h] = "poll" /\ aid'[h] = i /\ arow'[h] = rows[i]
    BY <1>2, <1>5 DEF GetFirstRequest, AgentsOK
  <2>2. /\ i \in Filed /\ rows[i].host = h /\ rows[i].consumed = FALSE
        /\ rows[i].auditLog = NULL /\ rows[i].result = NULL
    BY <1>5 DEF GetFirstRequest, IsFirst, Unattested
  <2>3. Silent(i)' => rows[i].nextAction = "DO_NOTHING"
    BY <1>1, <1>4, <2>2 DEF RowsFit
  <2>4. AgentFits(h)'
    BY <1>3, <2>1, <2>2, <2>3 DEF AgentFits
  <2>5. Told(i)
    BY DEF ThresholdInv
  <2>6. asked[i] = 1 => rows[i].nextAction = "DO_NOTHING"
    BY <2>2, <2>5 DEF Told
  <2> QED
    BY <1>3, <2>1, <2>4, <2>6, AgentMoves
<1>6. ASSUME NEW i \in Ids, SubmitReport(h, i)
      PROVE  ThresholdInv'
  <2>1. i \in Filed /\ rows[i] \in Rows /\ rows[i].host = h /\ areport[h] \in Reports
    BY <1>2, <1>6 DEF SubmitReport, IsFirst, Unattested, RowsOK, AgentsOK
  <2>2. Appraise(rows[i], areport[h], h \in enrolled) \in {"TRUSTED", "UN_TRUSTED"}
    BY DEF Appraise
  <2>3. PICK r \in Rows : /\ arow' = [arow EXCEPT ![h] = r]
                          /\ r.host = rows[i].host /\ r.nextAction = rows[i].nextAction
                          /\ r.auditLog = areport[h]
                          /\ r.result \in {"TRUSTED", "UN_TRUSTED"}
    <3>1. PICK v \in {"TRUSTED", "UN_TRUSTED"} :
             arow' = [arow EXCEPT ![h] = [rows[i] EXCEPT !.auditLog = areport[h], !.result = v]]
      BY <1>6, <2>2 DEF SubmitReport
    <3> DEFINE n == [rows[i] EXCEPT !.auditLog = areport[h], !.result = v]
    <3>2. /\ n \in Rows /\ n.host = rows[i].host /\ n.nextAction = rows[i].nextAction
          /\ n.auditLog = areport[h] /\ n.result = v
      BY <2>1 DEF Rows, Results
    <3> QED
      BY <3>1, <3>2
  <2>4. apc'[h] = "appraised" /\ aid'[h] = i /\ arow'[h] = r
    BY <1>2, <1>6, <2>3 DEF SubmitReport, AgentsOK
  <2>5. Silent(i)' => r.nextAction = "DO_NOTHING"
    BY <1>1, <1>4, <2>1, <2>3 DEF RowsFit
  <2>6. r.auditLog # NULL
    BY <2>1, <2>3, OatNullAssumption
  <2>7. AgentFits(h)'
    BY <1>3, <2>1, <2>3, <2>4, <2>5, <2>6 DEF AgentFits, Verdict
  <2> QED
    BY <1>3, <2>4, <2>7, AgentMoves
<1>7. CASE DoNothing(h) \/ Enroll(h)
  <2>1. UNCHANGED <<apc, aid, arow>>
    BY <1>7 DEF DoNothing, Enroll, vars, agent
  <2>2. AgentFits(h)'
    BY <1>1, <1>2, <1>3, <1>4, <2>1, AgentStays, FiledIds
  <2> QED
    BY <1>3, <2>1, <2>2, AgentMoves
<1>8. CASE \/ GetNonce(h) \/ \E good \in BOOLEAN : Measure(h, good)
           \/ MeasureFails(h) \/ \E valid, white \in BOOLEAN : Quote(h, valid, white)
           \/ AgentFails(h) \/ SubmitUnasked(h)
  <2>1. apc'[h] \notin {"poll", "appraised"}
    BY <1>2, <1>8 DEF AgentsOK, GetNonce, Measure, MeasureFails, Quote, AgentFails, SubmitUnasked
  <2>2. AgentFits(h)'
    BY <2>1 DEF AgentFits
  <2> QED
    BY <1>3, <2>1, <2>2, AgentMoves
<1> QED
  BY <1>5, <1>6, <1>7, <1>8 DEF Agent

(* The transactions that write a row: it is one of the agent's own host, so *)
(* no other agent is at work on it.                                         *)
LEMMA AgentWrites ==
    ASSUME ThresholdInv, NEW h \in Hosts, OatStep, Agent(h), NEW i \in Filed, NEW r \in Rows,
           apc[h] \in {"poll", "appraised"}, i = aid[h],
           rows' = [rows EXCEPT ![i] = r], UNCHANGED enrolled,
           apc'[h] \notin {"poll", "appraised"},
           r.host = h, Paired(r),
           Silent(i) => r.nextAction = "DO_NOTHING",
           Minded(i) => (rows[i].auditLog # NULL => r.auditLog # NULL),
           r.consumed \/ r.result # NULL \/ r.nextAction = "DO_NOTHING",
           asked'[i] = asked[i] \/ (asked'[i] = 1 /\ ~Silent(i)),
           asked' \in [Ids -> 0 .. 2],
           \A j \in Ids : j # i => asked'[j] = asked[j]
    PROVE  ThresholdInv'
<1>1. ThresholdTypeOK /\ Calls /\ RowsFit /\ AgentFits(h)
  BY DEF ThresholdInv
<1>2. /\ RowsOK /\ AgentsOK /\ HistoryOK /\ CallsOK /\ WatchersOK
      /\ asked \in [Ids -> 0 .. 2] /\ zero \subseteq Filed
  BY <1>1 DEF ThresholdTypeOK
<1>3. /\ (RowsOK /\ AgentsOK /\ HistoryOK)'
      /\ UNCHANGED <<nrows, expired, client, cpc, cid, creq, watcher, wpc, wreq, zero>>
      /\ \A g \in Hosts \ {h} : apc'[g] = apc[g] /\ aid'[g] = aid[g] /\ arow'[g] = arow[g]
  BY <1>1, AgentFrame
<1>4. rows[i].host = h
  BY <1>1 DEF AgentFits
<1>5. \A j \in Ids : (Silent(j)' <=> Silent(j)) /\ (Minded(j)' <=> Minded(j))
  BY <1>3, SameSilence, SameMinds
<1>6. i \in Ids
  BY <1>2, FiledIds
<1>7. Silent(i)' => r.nextAction = "DO_NOTHING"
  BY <1>5, <1>6
<1>8. r.host = rows[i].host /\ UNCHANGED <<nrows, enrolled, expired>>
  BY <1>3, <1>4
<1>9. \A j \in Ids : Silent(j)' => Silent(j)
  BY <1>5
<1>14. /\ RowsOK' /\ RowsFit'
       /\ Filed' = Filed /\ \A j \in Filed : j \in Ids
       /\ rows'[i] = r /\ \A j \in Filed : j # i => rows'[j] = rows[j]
       /\ \A j \in Filed : rows'[j].host = rows[j].host
  BY <1>1, <1>2, <1>7, <1>8, <1>9, RowWritten
<1>15. \A g \in Hosts \ {h} : apc[g] \in {"poll", "appraised"} => aid[g] # i
  <2> SUFFICES ASSUME NEW g \in Hosts \ {h}, apc[g] \in {"poll", "appraised"}
               PROVE  aid[g] # i
    OBVIOUS
  <2>1. AgentFits(g)
    BY DEF ThresholdInv
  <2> QED
    BY <1>4, <2>1 DEF AgentFits
<1>t. ThresholdTypeOK'
  BY <1>2, <1>3, <1>14, CallTypesKept, WatcherTypesKept DEF ThresholdTypeOK
<1>c. Calls'
  BY <1>1, <1>3, SameCalls
<1>a. ASSUME NEW g \in Hosts PROVE AgentFits(g)'
  <2>1. AgentFits(g)
    BY DEF ThresholdInv
  <2>2. CASE g # h /\ apc[g] \in {"poll", "appraised"}
    BY <1>2, <1>3, <1>5, <1>14, <1>15, <2>1, <2>2, AgentStays
  <2>3. CASE g # h /\ apc[g] \notin {"poll", "appraised"}
    BY <1>3, <2>3 DEF AgentFits
  <2>4. CASE g = h
    BY <2>4 DEF AgentFits
  <2> QED
    BY <2>2, <2>3, <2>4
<1>d. ASSUME NEW d \in Clients PROVE CallFits(d)'
  <2>1. CallFits(d)
    BY DEF ThresholdInv
  <2>2. cid[d] = i /\ cpc[d] \in Polling => Minded(i)
    BY DEF Minded
  <2> QED
    BY <1>2, <1>3, <1>14, <2>1, <2>2, CallStays
<1>w. ASSUME NEW j \in Ids PROVE WatcherFits(j)' /\ Told(j)'
  <2>1. WatcherFits(j) /\ Told(j)
    BY DEF ThresholdInv
  <2>2. wpc[j] # "none" => j \in Filed /\ Minded(j)
    BY <1>1 DEF Calls, Minded
  <2>3. WatcherFits(j)'
    BY <1>3, <1>14, <2>1, <2>2, WatcherStays
  <2>4. \A g \in Hosts : apc'[g] = "poll" =>
              apc[g] = "poll" /\ aid'[g] = aid[g] /\ arow'[g] = arow[g] /\ aid[g] # i
    BY <1>3, <1>15
  <2>5. CASE asked'[j] = asked[j]
    BY <1>3, <1>5, <1>14, <2>1, <2>3, <2>4, <2>5, ToldStays
  <2>6. CASE asked'[j] # asked[j]
    <3>1. j = i /\ asked'[j] = 1 /\ ~Silent(i)'
      BY <1>5, <1>6, <2>6
    <3> QED
      BY <1>14, <2>3, <2>4, <3>1 DEF Told
  <2> QED
    BY <2>5, <2>6
<1> QED
  BY <1>t, <1>c, <1>14, <1>a, <1>d, <1>w DEF ThresholdInv

(* getNextAction commits.  The agent is told SEND_REPORT only if it was     *)
(* never told before.                                                       *)
LEMMA ConsumeStep ==
    ASSUME ThresholdInv, NEW h \in Hosts, OatStep, ConsumeRequest(h)
    PROVE  ThresholdInv'
<1>1. ThresholdTypeOK /\ RowsFit /\ AgentFits(h)
  BY DEF ThresholdInv
<1>2. RowsOK /\ AgentsOK /\ asked \in [Ids -> 0 .. 2]
  BY <1>1 DEF ThresholdTypeOK
<1>3. apc[h] = "poll" /\ arow[h] \in Rows /\ aid[h] \in Filed
  BY <1>2 DEF ConsumeRequest, AgentsOK
<1>4. PICK i \in Filed : i = aid[h]
  BY <1>3
<1>5. i \in Ids
  BY <1>2, FiledIds
<1>6. PICK r \in Rows : /\ rows' = [rows EXCEPT ![i] = r]
                        /\ r.host = arow[h].host /\ r.nextAction = "DO_NOTHING"
                        /\ r.auditLog = arow[h].auditLog /\ r.result = arow[h].result
  BY <1>3, <1>4, RowConsumed DEF ConsumeRequest
<1>7. r.host = h /\ r.auditLog = NULL /\ r.result = NULL
  BY <1>1, <1>3, <1>6 DEF AgentFits
<1>8. Paired(r)
  BY <1>7, OatNullAssumption DEF Paired, Verdict, Results
<1>9. Minded(i) => rows[i].auditLog = NULL
  BY <1>1, <1>3, <1>4 DEF AgentFits
<1>10. /\ apc'[h] = (IF arow[h].nextAction = "SEND_REPORT" THEN "told" ELSE "idle")
       /\ \A g \in Hosts \ {h} : apc'[g] = apc[g]
  BY <1>2 DEF ConsumeRequest, AgentsOK
<1>11. \A j \in Ids : asked'[j] =
          IF j = i /\ arow[h].nextAction = "SEND_REPORT"
          THEN (IF asked[j] = 2 THEN 2 ELSE asked[j] + 1) ELSE asked[j]
  BY <1>3, <1>4, <1>10 DEF OatStep
<1>12. asked' \in [Ids -> 0 .. 2]
  BY <1>2 DEF OatStep
<1>13. Told(i)
  BY <1>5 DEF ThresholdInv
<1>14. arow[h].nextAction = "SEND_REPORT" => asked[i] = 0 /\ ~Silent(i)
  BY <1>1, <1>3, <1>4, <1>13 DEF Told, AgentFits
<1>15. asked'[i] = asked[i] \/ (asked'[i] = 1 /\ ~Silent(i))
  BY <1>5, <1>11, <1>14
<1>16. \A j \in Ids : j # i => asked'[j] = asked[j]
  BY <1>11
<1>17. Agent(h) /\ UNCHANGED enrolled /\ apc'[h] \notin {"poll", "appraised"}
  BY <1>10 DEF ConsumeRequest, Agent
<1> QED
  BY <1>3, <1>4, <1>6, <1>7, <1>8, <1>9, <1>12, <1>15, <1>16, <1>17, AgentWrites

(* submitReport commits the verdict with its report.                        *)
LEMMA StoreVerdictStep ==
    ASSUME ThresholdInv, NEW h \in Hosts, OatStep, StoreVerdict(h)
    PROVE  ThresholdInv'
<1>1. ThresholdTypeOK /\ RowsFit /\ AgentFits(h)
  BY DEF ThresholdInv
<1>2. RowsOK /\ AgentsOK /\ asked \in [Ids -> 0 .. 2]
  BY <1>1 DEF ThresholdTypeOK
<1>3. apc[h] = "appraised" /\ arow[h] \in Rows /\ aid[h] \in Filed
  BY <1>2 DEF StoreVerdict, AgentsOK
<1>4. PICK i \in Filed : i = aid[h]
  BY <1>3
<1>5. PICK r \in Rows : rows' = [rows EXCEPT ![i] = r] /\ r = arow[h]
  BY <1>3, <1>4 DEF StoreVerdict
<1>6. /\ r.host = h /\ r.auditLog # NULL /\ r.result \in Verdict
      /\ Silent(i) => r.nextAction = "DO_NOTHING"
  BY <1>1, <1>3, <1>4, <1>5 DEF AgentFits
<1>7. Paired(r) /\ r.result # NULL
  BY <1>6, OatNullAssumption DEF Paired, Verdict, Results
<1>8. Agent(h) /\ UNCHANGED enrolled /\ apc'[h] \notin {"poll", "appraised"} /\ ~ConsumeRequest(h)
  BY <1>2 DEF StoreVerdict, Agent, AgentsOK, ConsumeRequest
<1>9. asked' = asked
  BY <1>1, <1>8, AgentFrame
<1> QED
  BY <1>2, <1>3, <1>4, <1>5, <1>6, <1>7, <1>8, <1>9, AgentWrites

(* The timeout of a request passes.                                         *)
LEMMA ExpireStep ==
    ASSUME ThresholdInv, NEW i \in Ids, OatStep, Expire(i)
    PROVE  ThresholdInv'
<1>1. ThresholdTypeOK /\ Calls /\ RowsFit
  BY DEF ThresholdInv
<1>2. /\ RowsOK /\ AgentsOK /\ HistoryOK /\ CallsOK /\ WatchersOK
      /\ asked \in [Ids -> 0 .. 2] /\ zero \subseteq Filed
  BY <1>1 DEF ThresholdTypeOK
<1>3. UNCHANGED <<rows, nrows, enrolled, client, cpc, cid, creq, agent, apc, aid, arow,
                  delivered, answer, zero, asked, watcher, wpc, wreq>>
  <2>1. UNCHANGED <<rows, nrows, enrolled, client, cpc, cid, creq, agent, apc, aid, arow,
                    delivered, answer>>
    BY DEF Expire, client, agent
  <2>2. asked' = asked
    BY <1>2, <2>1, NobodyTold
  <2> QED
    BY <2>1, <2>2 DEF OatStep, watcher
<1>4. Filed' = Filed /\ \A j \in Filed : j \in Ids
  BY <1>2, <1>3, FiledIds DEF Filed
<1>5. \A j \in Ids : (Silent(j)' <=> Silent(j)) /\ (Minded(j)' <=> Minded(j))
  BY <1>3, SameSilence, SameMinds
<1>t. ThresholdTypeOK'
  <2>1. RowsOK'
    BY <1>2, <1>3 DEF RowsOK, Expire, Filed
  <2> QED
    BY <1>2, <1>3, <1>4, <2>1, AgentTypesKept, CallTypesKept, WatcherTypesKept
       DEF ThresholdTypeOK
<1>c. Calls'
  BY <1>1, <1>3, SameCalls
<1>r. RowsFit'
  BY <1>1, <1>3, <1>4, <1>5, RowsStay
<1>a. ASSUME NEW h \in Hosts PROVE AgentFits(h)'
  <2>1. AgentFits(h)
    BY DEF ThresholdInv
  <2> QED
    BY <1>2, <1>3, <1>4, <1>5, <2>1, AgentStays
<1>d. ASSUME NEW d \in Clients PROVE CallFits(d)'
  <2>1. CallFits(d)
    BY DEF ThresholdInv
  <2> QED
    BY <1>2, <1>3, <2>1, CallStays
<1>w. ASSUME NEW j \in Ids PROVE WatcherFits(j)' /\ Told(j)'
  <2>1. WatcherFits(j) /\ Told(j)
    BY DEF ThresholdInv
  <2>2. WatcherFits(j)'
    BY <1>3, <2>1, WatcherStays
  <2>3. Told(j)'
    BY <1>3, <1>4, <1>5, <2>1, ToldStays
  <2> QED
    BY <2>2, <2>3
<1> QED
  BY <1>t, <1>c, <1>r, <1>a, <1>d, <1>w DEF ThresholdInv

------------------------------------------------------------------------------
(* A row answered before the behaviour begins.                              *)
LEMMA AnsweredRows ==
    ASSUME NEW i \in Ids, NEW r \in AnsweredRow(i)
    PROVE  /\ r \in Rows /\ Paired(r) /\ r.result \in Results
           /\ r.consumed \in BOOLEAN
<1>1. CASE r \in [host : Hosts, property : Properties, cert : {TRUE}, nextAction : {"DO_NOTHING"},
                  consumed : {TRUE}, auditLog : {a \in Reports : a.about = i},
                  result : {"TRUSTED", "UN_TRUSTED"}]
  <2>1. r \in Rows /\ r.auditLog \in Reports /\ r.result \in Verdict /\ r.consumed = TRUE
    BY <1>1 DEF Rows, Actions, Results, Verdict
  <2> QED
    BY <2>1, OatNullAssumption DEF Paired, Verdict, Results
<1>2. CASE r \in [host : Hosts, property : Properties, cert : {TRUE}, nextAction : {"DO_NOTHING"},
                  consumed : {TRUE}, auditLog : {NULL}, result : {"TIME_OUT"}]
  BY <1>2 DEF Rows, Actions, Results, Paired, Verdict
<1>3. CASE r \in [host : Hosts, property : Properties, cert : {FALSE},
                  nextAction : {"SEND_REPORT"}, consumed : {FALSE}, auditLog : {NULL},
                  result : {"UN_KNOWN"}]
  BY <1>3 DEF Rows, Actions, Results, Paired, Verdict
<1> QED
  BY <1>1, <1>2, <1>3 DEF AnsweredRow

(* The invariant holds when the server starts with answered requests.       *)
LEMMA ThresholdInit == TInit => ThresholdInv
<1> SUFFICES ASSUME TInit PROVE ThresholdInv
  OBVIOUS
<1>1. nrows = Earlier /\ Filed = 1 .. Earlier /\ Filed \subseteq Ids /\ Earlier \in 0 .. MaxRequests
  BY EarlierAssumption, MaxRequestsAssumption DEF TInit, Filed, Ids
<1>2. PICK f : /\ \A i \in Filed : f[i] \in AnsweredRow(i)
               /\ rows = [i \in Ids |-> IF i <= Earlier THEN f[i] ELSE NULL]
               /\ delivered = [i \in Ids |-> IF i <= Earlier /\ f[i].consumed THEN 1 ELSE 0]
               /\ answer = [i \in Ids |-> IF i <= Earlier THEN f[i].result ELSE NULL]
  BY <1>1 DEF TInit
<1>3. \A i \in Ids : i <= Earlier <=> i \in Filed
  BY <1>1, MaxRequestsAssumption DEF Ids
<1>4. \A i \in Filed : /\ rows[i] = f[i] /\ f[i] \in Rows /\ Paired(f[i])
                       /\ f[i].result \in Results /\ f[i].consumed \in BOOLEAN
  BY <1>1, <1>2, <1>3, AnsweredRows
<1>5. RowsOK
  BY <1>1, <1>2, <1>3, <1>4 DEF TInit, RowsOK
<1>6. AgentsOK
  BY <1>1, MaxRequestsAssumption DEF TInit, AgentsOK, AgentPcs, Measurements
<1>7. HistoryOK
  BY <1>2, <1>3, <1>4 DEF HistoryOK
<1>8. CallsOK /\ WatchersOK
  BY DEF TInit, CallsOK, WatchersOK, ClientPcs, WatcherPcs
<1>9. asked = delivered /\ zero = {}
  BY DEF TInit
<1>10. asked \in [Ids -> 0 .. 2] /\ \A i \in Ids : asked[i] \in {0, 1}
  BY <1>2, <1>9
<1>11. ThresholdTypeOK
  BY <1>5, <1>6, <1>7, <1>8, <1>9, <1>10 DEF ThresholdTypeOK
<1>12. Calls
  BY DEF TInit, Calls
<1>13. \A i \in Ids : ~Silent(i)
  BY DEF TInit, Silent, Deciding, Before
<1>14. RowsFit
  BY <1>1, <1>4, <1>13 DEF RowsFit
<1>15. \A h \in Hosts : AgentFits(h)
  BY DEF TInit, AgentFits
<1>16. \A c \in Clients : CallFits(c)
  BY DEF TInit, CallFits
<1>17. \A i \in Ids : WatcherFits(i)
  BY DEF TInit, WatcherFits
<1>18. \A i \in Ids : asked[i] = 1 => i \in Filed /\ rows[i].consumed
  BY <1>2, <1>3, <1>4, <1>9
<1>19. \A h \in Hosts : apc[h] # "poll"
  BY DEF TInit
<1>20. \A i \in Ids : Told(i)
  BY <1>10, <1>13, <1>18, <1>19 DEF Told
<1> QED
  BY <1>11, <1>12, <1>14, <1>15, <1>16, <1>17, <1>20 DEF ThresholdInv

(* A step that changes nothing keeps it.                                    *)
LEMMA ThresholdStutter == ThresholdInv /\ UNCHANGED tvars => ThresholdInv'
BY DEF ThresholdInv, ThresholdTypeOK, RowsOK, AgentsOK, HistoryOK, CallsOK, WatchersOK, Calls,
       RowsFit, Paired, AgentFits, CallFits, CopyFits, WatcherFits, Told, Silent, Deciding,
       Minded, Filed, tvars, vars, client, agent, watcher, history

(* The invariant of the table, the calls, the threads and the agents is     *)
(* inductive: what each of them holds, however old, fits the row it will be *)
(* written over.                                                            *)
THEOREM ThresholdInvariant == TSpec => []ThresholdInv
<1>1. ThresholdInv /\ [TNext]_tvars => ThresholdInv'
  <2> SUFFICES ASSUME ThresholdInv, [TNext]_tvars PROVE ThresholdInv'
    OBVIOUS
  <2>1. ASSUME OatStep, NEW c \in Clients, PollHosts(c) PROVE ThresholdInv'
    BY <2>1, AddRequestStep, FetchStep, LoopStep, WriteResultStep, RespondStep DEF PollHosts
  <2>2. ASSUME OatStep, NEW h \in Hosts, Agent(h) \/ Enroll(h) PROVE ThresholdInv'
    BY <2>2, AgentReadStep, ConsumeStep, StoreVerdictStep
  <2>3. ASSUME OatStep, NEW i \in Ids, Expire(i) PROVE ThresholdInv'
    BY <2>3, ExpireStep
  <2>4. CASE OatStep
    BY <2>1, <2>2, <2>3, <2>4 DEF OatStep, Next
  <2>5. ASSUME NEW c \in Clients, ThresholdCall(c) PROVE ThresholdInv'
    BY <2>5, AddThresholdRequestStep, FetchStep, DecideStep, UpdateThresholdStep,
       StartWatcherStep DEF ThresholdCall
  <2>6. ASSUME NEW i \in Ids, Watcher(i) PROVE ThresholdInv'
    BY <2>6, WatchRoundStep, WatchWriteStep DEF Watcher
  <2>7. CASE UNCHANGED tvars
    BY <2>7, ThresholdStutter
  <2> QED
    BY <2>4, <2>5, <2>6, <2>7 DEF TNext
<1> QED
  BY <1>1, ThresholdInit, PTL DEF TSpec

(* The calls of either kind and the threads stay typed, and hold a row      *)
(* wherever they write one back.                                            *)
THEOREM ThresholdTypeCorrect == TSpec => []ThresholdTypeOK
<1>1. ThresholdInv => ThresholdTypeOK
  BY DEF ThresholdInv
<1> QED
  BY <1>1, ThresholdInvariant, PTL

(* With calls that copy the last result of a host and threads that write    *)
(* rows after the call has answered, a verdict still stands only beside the *)
(* report that was appraised.                                               *)
THEOREM ThresholdVerdictsHaveReports == TSpec => []VerdictHasReport
<1>1. ThresholdInv => VerdictHasReport
  BY DEF ThresholdInv, RowsFit, Paired, Verdict, VerdictHasReport
<1> QED
  BY <1>1, ThresholdInvariant, PTL

(* No agent is told SEND_REPORT twice for a request, and none for a request *)
(* with a threshold of 0.                                                   *)
THEOREM AgentsAskedOnce == TSpec => []AskedOnce
<1>1. ThresholdInv => AskedOnce
  BY DEF ThresholdInv, Told, Silent, AskedOnce
<1> QED
  BY <1>1, ThresholdInvariant, PTL

==============================================================================
