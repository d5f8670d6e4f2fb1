---------------------------- MODULE MCSweptJobs -----------------------------
(***************************************************************************)
(* Instances of SweptJobs for TLC.                                         *)
(***************************************************************************)
EXTENDS SweptJobs

CONSTANTS s1, s2, r1, r2, i1, i2

Setting(kind, overlap, file, bounds) ==
  [kind |-> kind, overlap |-> overlap, file |-> file, jobs |-> bounds[1], changes |-> bounds[2],
   calls |-> bounds[3], crashes |-> bounds[4], expiries |-> bounds[5], reviews |-> bounds[6]]

\* Bounds: jobs, changes, calls, crashes, expiries, reviews.
Enhancing == {Setting("enhance", FALSE, FALSE, <<2, 3, 1, 1, 0, 0>>), Setting("enhance", TRUE, FALSE, <<2, 2, 0, 0, 1, 0>>)}
Extracting == {Setting("extract", FALSE, FALSE, <<1, 0, 1, 1, 0, 2>>), Setting("extract", TRUE, FALSE, <<1, 0, 0, 0, 1, 1>>)}
Papers == {Setting("paper", FALSE, FALSE, <<2, 0, 2, 1, 0, 1>>), Setting("paper", FALSE, TRUE, <<1, 0, 2, 1, 0, 0>>)}
Patterns == {Setting("pattern", FALSE, FALSE, <<2, 0, 2, 1, 0, 1>>), Setting("pattern", FALSE, TRUE, <<1, 0, 2, 1, 0, 2>>)}
All == Enhancing \cup Extracting \cup Papers \cup Patterns
OneText == {Setting("enhance", FALSE, FALSE, <<1, 2, 0, 0, 0, 0>>)}
OnePaper == {Setting("paper", FALSE, FALSE, <<1, 0, 1, 1, 0, 1>>)}
=============================================================================
