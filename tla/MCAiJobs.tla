------------------------------ MODULE MCAiJobs ------------------------------
(***************************************************************************)
(* Instances of AiJobs for TLC.                                            *)
(***************************************************************************)
EXTENDS AiJobs, TLC

CONSTANTS j1, j2, book, notes, unit

Spec1(kind, source, target, parts) ==
  [kind |-> kind, source |-> source, target |-> target, parts |-> parts]
Load(n, f, retried, faulty, edited) ==
  [threads |-> n, specs |-> f, retries |-> retried, faults |-> faulty, edits |-> edited]

Questions1 == Spec1("questions", unit, unit, {})
NoteOf(source) == Spec1("content", source, unit, {"note"})
Package == Spec1("content", book, unit, {"note", "summary"})
Answer == Spec1("answer", unit, unit, {})
Starter == Spec1("starter", unit, unit, {"content"})
Syllabus == Spec1("syllabus", unit, unit, {})
Blueprint == Spec1("blueprint", book, unit, {})

\* One job and its reruns, in one thread and in two.
Single(spec) == {Load(1, j1 :> spec, 1, 1, 1), Load(2, j1 :> spec, 1, 0, 1)}
Lone == Single(Questions1) \cup Single(Answer) \cup Single(Syllabus) \cup Single(Blueprint)
\* A note or a package alone; then with a note of the same topic, asked for from another source.
Packages == {Load(1, j1 :> NoteOf(book), 1, 1, 1), Load(1, j1 :> Package, 0, 1, 0), Load(1, j1 :> Package, 1, 0, 1)}
Shared == {Load(1, j1 :> Package @@ j2 :> NoteOf(notes), 0, 1, 0),
           Load(2, j1 :> NoteOf(book) @@ j2 :> NoteOf(notes), 0, 0, 1)}
\* A starter material and its dependent.
Dependent == {Load(1, j1 :> Starter @@ j2 :> NoteOf(unit), 0, 1, 0), Load(2, j1 :> Starter @@ j2 :> NoteOf(unit), 0, 0, 0)}
All == Lone \cup Packages \cup Shared \cup Dependent
=============================================================================
