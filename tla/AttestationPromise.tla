-------------------------- MODULE AttestationPromise --------------------------
(***************************************************************************)
(* What a client of PollHosts may rely on, without rows, copies, agents or *)
(* transactions.  Requests are filed one after another.  A request is      *)
(* handed to an agent at most once, and only then can it be decided.  A    *)
(* verdict may be overruled by a timeout, but only while the client still  *)
(* waits; a request that was answered without a verdict may still be       *)
(* decided late, one that was answered with a verdict is settled.          *)
(***************************************************************************)
EXTENDS Integers

CONSTANTS MaxRequests, NULL

VARIABLES filed, told, verdict, answer

pvars == <<filed, told, verdict, answer>>

Numbers  == 1 .. MaxRequests
Verdicts == {"TRUSTED", "UN_TRUSTED"}
Excuses  == {"UN_KNOWN", "TIME_OUT", "PENDING"}

Init ==
    /\ filed = 0
    /\ told = {}
    /\ verdict = [i \in Numbers |-> NULL]
    /\ answer = [i \in Numbers |-> NULL]

File ==
    /\ filed < MaxRequests
    /\ filed' = filed + 1
    /\ UNCHANGED <<told, verdict, answer>>

HandOut(i) ==
    /\ i \in (1 .. filed) \ told
    /\ told' = told \cup {i}
    /\ UNCHANGED <<filed, verdict, answer>>

Decide(i, v) ==
    /\ i \in told
    /\ verdict[i] = NULL
    /\ answer[i] \notin Verdicts
    /\ verdict' = [verdict EXCEPT ![i] = v]
    /\ UNCHANGED <<filed, told, answer>>

Overrule(i) ==
    /\ verdict[i] # NULL
    /\ answer[i] = NULL
    /\ verdict' = [verdict EXCEPT ![i] = NULL]
    /\ UNCHANGED <<filed, told, answer>>

Answer(i, r) ==
    /\ i \in 1 .. filed
    /\ answer[i] = NULL
    /\ IF verdict[i] = NULL THEN r \in Excuses ELSE r = verdict[i]
    /\ answer' = [answer EXCEPT ![i] = r]
    /\ UNCHANGED <<filed, told, verdict>>

Next ==
    \/ File
    \/ \E i \in Numbers :
          \/ HandOut(i)
          \/ \E v \in Verdicts : Decide(i, v)
          \/ Overrule(i)
          \/ \E r \in Verdicts \cup Excuses : Answer(i, r)

Spec == Init /\ [][Next]_pvars

==============================================================================
