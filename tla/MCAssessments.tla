--------------------------- MODULE MCAssessments ---------------------------
(***************************************************************************)
(* Instances of Assessments for TLC.                                       *)
(***************************************************************************)
EXTENDS Assessments

CONSTANTS q1, q2, q3, ch1, ch2, r1, r2

Rule(section, type, count, attempt, weights) ==
  [section |-> section, type |-> type, count |-> count, marks |-> 2, total |-> 0,
   compulsory |-> attempt = 0, attempt |-> attempt, weights |-> weights]
OnQuestions(a, b, c) == q1 :> a @@ q2 :> b @@ q3 :> c

Mcq(count, weights) == Rule("A", "MCQ", count, 0, weights)
Even == <<34, 33, 33>>
\* Three questions of one type at three levels, and rules that compete for them: evenly
\* spread, all easy, two rules of one label, one whose marks are a total to divide, one with
\* no count, an optional one, weights that add up to less or more than 100 and none at all.
Spread == OnQuestions(1, 2, 3)
AllMcq == OnQuestions("MCQ", "MCQ", "MCQ")
TwoTypes == OnQuestions("MCQ", "MCQ", "SA")
Chapter1 == OnQuestions(ch1, ch1, ch2)
Setting1(present, type, rules, clients, bounds) ==
  [present |-> present, type |-> type, level |-> Spread, chapter |-> Chapter1, rules |-> rules,
   clients |-> clients] @@ bounds
Bounds(changes, sorts, dates, scopes) == [edits |-> changes, sorts |-> sorts, dates |-> dates, scopes |-> scopes]

Patterns == {
  <<Mcq(2, Even), Rule("B", "MCQ", 1, 0, <<100, 0, 0>>)>>,
  <<Mcq(1, Null), Mcq(2, <<50, 50, 0>>)>>,
  <<[Mcq(3, <<50, 25, 25>>) EXCEPT !.marks = 0, !.total = 2]>>,
  <<Rule("B", "SA", 2, 1, Null), Mcq(0, Null), Rule("C", Null, 1, 0, Null)>>,
  <<Mcq(1, <<0, 0, 0>>), Rule("B", "MCQ", 2, 0, <<30, 0, 20>>)>>,
  <<Mcq(2, <<100, 50, 100>>), Rule("B", "MCQ", 2, 3, <<0, 0, 0>>)>>}
Selections ==
  {Setting1({q1, q2, q3}, type, rules, {r1}, Bounds(1, 0, 0, {"subject"})) :
     type \in {AllMcq, TwoTypes}, rules \in Patterns}
\* Questions added by hand, in two scopes; every schedule; two requests at once.
ByHand == Setting1({q1, q3}, AllMcq, <<Mcq(1, Null)>>, {r1}, Bounds(2, 3, 0, {"subject", ch1}))
Scheduled == Setting1({q1}, AllMcq, <<Mcq(1, Null)>>, {r1}, Bounds(0, 1, 2, {"subject"}))
Racing == Setting1({q1, q2}, AllMcq, <<Mcq(1, Null)>>, {r1, r2}, Bounds(0, 2, 0, {"subject"}))
All == Selections \cup {ByHand, Scheduled, Racing}
=============================================================================
