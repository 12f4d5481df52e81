-------------------------- MODULE MCScopedHandler --------------------------
(* Instances of ScopedHandler for TLC.                                      *)
EXTENDS ScopedHandler

CONSTANTS w1, w2, s1, o1, o2, o3, o4, draft, nudge, followup

NoOne == {}
OneWorker == {w1}
TwoWorkers == {w1, w2}
OneSender == {s1}
OneOffice == {o1}
FourOffices == {o1, o2, o3, o4}
Drafts == {draft}
Nudges == {nudge}
Handled == {nudge, followup}

\* The dispatch endpoint runs its batches in the API server, beside the
\* routes; the worker process runs them in a program of its own.
Programs == {"api", "worker"}
InOne == [p \in Process |-> "api"]
InTwo == [p \in Process |-> IF p = w1 THEN "worker" ELSE "api"]
=============================================================================
