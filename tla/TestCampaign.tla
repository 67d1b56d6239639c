---------------------------- MODULE TestCampaign -----------------------------
(***************************************************************************)
(* What a run of test.py promises its user, with no threads and no queues: *)
(* tests are asked for, each of them gets one verdict that never changes,  *)
(* and the run reports success only when every test it asked for passed or *)
(* was skipped.  A run that an exception ends reports nothing.             *)
(***************************************************************************)
CONSTANT Tests
Verdicts == {"PASS", "FAIL", "VALGR", "CRASH", "SKIP", "BREAK"}

VARIABLES asked, verdict, outcome
vars == <<asked, verdict, outcome>>

Good(v) == v \in {"PASS", "SKIP"}

Init == asked = {} /\ verdict = [t \in Tests |-> "none"] /\ outcome = "open"

(* A test is asked for before the first verdict is given.                  *)
Ask(t) ==
  /\ outcome = "open" /\ t \notin asked /\ \A u \in Tests: verdict[u] = "none"
  /\ asked' = asked \cup {t}
  /\ UNCHANGED <<verdict, outcome>>

Judge(t, v) ==
  /\ outcome = "open" /\ t \in asked /\ verdict[t] = "none"
  /\ verdict' = [verdict EXCEPT ![t] = v]
  /\ UNCHANGED <<asked, outcome>>

Conclude ==
  /\ outcome = "open" /\ \A t \in asked: verdict[t] # "none"
  /\ outcome' = IF \A t \in asked: Good(verdict[t]) THEN "success" ELSE "failure"
  /\ UNCHANGED <<asked, verdict>>

Abort ==
  /\ outcome = "open" /\ outcome' = "aborted"
  /\ UNCHANGED <<asked, verdict>>

Next ==
  \/ \E t \in Tests: Ask(t) \/ \E v \in Verdicts: Judge(t, v)
  \/ Conclude \/ Abort

Spec == Init /\ [][Next]_vars
=============================================================================
