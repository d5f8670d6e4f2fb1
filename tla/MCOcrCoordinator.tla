-------------------------- MODULE MCOcrCoordinator --------------------------
(***************************************************************************)
(* Instances of OcrCoordinator for TLC.  A scenario allows the environment *)
(* events one question is about and forbids the others.                    *)
(***************************************************************************)
EXTENDS OcrCoordinator, TLC

Allow(f) == f @@ [e \in Events |-> 0]

\* Two workers against an expiring lease and a result call that times out.
Stale == Allow([createJob |-> 1, expire |-> 2, timeout |-> 1])
\* Staff requests: processing that meets database errors, one of them in its clean-up; processing cancelled, then
\* retried; a job created beside the one that processing the material creates; a
\* created job cancelled and queued again.
Refused == Allow([process |-> 1, dbError |-> 2])
Retried == Allow([process |-> 1, cancel |-> 1, retryMaterial |-> 1])
Doubled == Allow([process |-> 1, createJob |-> 1])
Cancelled == Allow([createJob |-> 1, cancel |-> 1, retryJob |-> 1])
\* A sweep that starts while another one settles the job or adopts it.
Overlap == Allow([process |-> 1, overlap |-> 1])
LeaseScenarios == {Stale, Refused, Retried, Doubled, Cancelled, Overlap}

\* One adopted job: through crashes of both processes and a failing extraction, and
\* retried or with a worker disabled; with an expiring lease and a failing extraction;
\* cancelled and queued again.
Recovered == Allow([createJob |-> 1, retryJob |-> 1, fault |-> 1, apiCrash |-> 1, workerCrash |-> 1])
Disabled == Allow([createJob |-> 1, fault |-> 1, apiCrash |-> 1, workerCrash |-> 1, toggle |-> 1])
Expiring == Allow([createJob |-> 1, expire |-> 1, fault |-> 1])
SettleScenarios == {Recovered, Disabled, Expiring, Cancelled}

\* One adopted job, cancelled while it may be settling.
CancelScenarios == {Allow([createJob |-> 1, cancel |-> 1, fault |-> 1])}
\* One adopted job and one crash of the API.
CrashScenarios == {Allow([createJob |-> 1, apiCrash |-> 1])}

Symmetry == Permutations(Workers) \cup Permutations(Sweepers)
=============================================================================
