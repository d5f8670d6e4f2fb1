----------------------------- MODULE MCAttempts -----------------------------
(***************************************************************************)
(* Instances of Attempts for TLC.                                          *)
(***************************************************************************)
EXTENDS Attempts, TLC

CONSTANTS q1, q2, x, y

Row(status, links, duration, endsAt) ==
  [status |-> status, links |-> links, duration |-> duration, startsAt |-> Null, endsAt |-> endsAt]

\* A paper that its window closes; the teacher lifts the limit.
Windowed == Row("ACTIVE", q1 :> 2, Null, 0)
Untimed == Row("ACTIVE", q1 :> 2, Null, Null)
OneQuestion == {Windowed, Untimed}

\* A timed paper of two questions, taken back to draft with one of them left.
Timed == Row("PUBLISHED", q1 :> 2 @@ q2 :> 1, 1, Null)
Draft == Row("DRAFT", q2 :> 1, 1, Null)
TwoQuestions == {Timed, Draft}

\* The key of one question is corrected.
Corrected == {q1 :> x @@ q2 :> x, q1 :> y @@ q2 :> x}

Interchangeable == Permutations(Requests) \cup Permutations(AttemptIds)
=============================================================================
