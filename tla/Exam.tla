-------------------------------- MODULE Exam --------------------------------
(***************************************************************************)
(* What an examination promises a student: an exam is begun with a paper   *)
(* that never changes, takes answers until its deadline, and is closed     *)
(* once, graded from its own paper.  There are no requests, no races, no   *)
(* question bank and no teacher here; Attempts implements this.            *)
(***************************************************************************)
EXTENDS Integers

CONSTANTS
  Answers,
  Marks(_, _),    \* the marks a set of questions is worth on a paper
  Null

VARIABLES
  now,            \* the time
  exams           \* exams begun, by name

vars == <<now, exams>>

Open(e) == e.status = "IN_PROGRESS"
Right(e) == {q \in DOMAIN e.answers : e.answers[q] = e.paper[q].key}
Closed(e, status) == [e EXCEPT !.status = status, !.score = Marks(e.paper, Right(e))]

With(answers, q, answer) ==
  [p \in DOMAIN answers \cup {q} |-> IF p = q THEN answer ELSE answers[p]]

Init == exams = [x \in {} |-> Null]

\* An exam starts open, unanswered and without a score, and only when the
\* student has no other one open on the same assessment.
Begin(a) ==
  /\ a \notin DOMAIN exams
  /\ DOMAIN exams' = DOMAIN exams \cup {a}
  /\ \A b \in DOMAIN exams : exams'[b] = exams[b]
  /\ Open(exams'[a]) /\ DOMAIN exams'[a].answers = {} /\ exams'[a].score = Null
  /\ \A b \in DOMAIN exams :
       Open(exams[b]) => \/ exams[b].student # exams'[a].student
                         \/ exams[b].assessment # exams'[a].assessment
  /\ UNCHANGED now

Answer(a, q, answer) ==
  /\ Open(exams[a]) /\ q \in DOMAIN exams[a].paper
  /\ exams[a].deadline # Null => now <= exams[a].deadline
  /\ exams' = [exams EXCEPT ![a].answers = With(@, q, answer)]
  /\ UNCHANGED now

\* A student may hand in at any time, also after the deadline if nobody has
\* closed the exam yet.
HandIn(a) ==
  /\ Open(exams[a])
  /\ exams' = [exams EXCEPT ![a] = Closed(@, "SUBMITTED")]
  /\ UNCHANGED now

Expire(a) ==
  /\ Open(exams[a]) /\ exams[a].deadline # Null /\ now > exams[a].deadline
  /\ exams' = [exams EXCEPT ![a] = Closed(@, "EXPIRED")]
  /\ UNCHANGED now

Tick == now' > now /\ UNCHANGED exams

Next ==
  \/ \E a \in DOMAIN exams' : Begin(a)
  \/ \E a \in DOMAIN exams :
       \/ \E q \in DOMAIN exams[a].paper, answer \in Answers : Answer(a, q, answer)
       \/ HandIn(a)
       \/ Expire(a)
  \/ Tick

Spec == Init /\ [][Next]_vars
=============================================================================
