---------------------------- MODULE OatRefinement ----------------------------
(* OatAttestation implements AttestationPromise: the verdict of a request   *)
(* is the one its row holds, and it was handed out if getNextAction         *)
(* consumed it.                                                             *)
EXTENDS OatAttestation

StoredVerdict ==
    [i \in Ids |-> IF i \in Filed /\ rows[i].result \in {"TRUSTED", "UN_TRUSTED"}
                   THEN rows[i].result ELSE NULL]

ToldRequests == {i \in Filed : delivered[i] # 0}

Promise == INSTANCE AttestationPromise
           WITH filed <- nrows, told <- ToldRequests, verdict <- StoredVerdict

(* Every step of the calls, the web services and the agents, whatever stale *)
(* row it writes back, is one the clients were promised: a request is       *)
(* handed out once, decided only after that, overruled only while its call  *)
(* still waits, and answered once, with the verdict its row then holds.     *)
KeepsPromise == Promise!Spec

==============================================================================
