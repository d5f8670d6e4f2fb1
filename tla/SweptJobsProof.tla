---------------------------- MODULE SweptJobsProof ---------------------------
(***************************************************************************)
(* Proofs about SweptJobs: for every number of jobs, sweeps, requests and  *)
(* questions, however often the API crashes, leases expire and sweeps      *)
(* overlap.                                                                *)
(***************************************************************************)
EXTENDS SweptJobs, FiniteSetTheorems, TLAPS

Kind == setting.kind
Last == versions[Len(versions)]

\* A sweep at work is in a stage of its kind of job.  An enhancement about to be made is of a
\* text the material has had, not of the one the newest version was made of; unless sweeps
\* overlap, not of an older one either.
IsWork(w) ==
  /\ {"stage", "todo", "job", "seen"} \subseteq DOMAIN w
  /\ w.stage \in Stages \ {"pick"}
  /\ w.stage = "drop" => setting.file
  /\ w.stage = "latest" => Kind = "enhance"
  /\ w.stage = "purge" => Kind = "extract"
  /\ w.stage \in {"select", "unlink", "delete"} => Kind = "paper"
  /\ w.stage \in {"existing", "placeholder", "fill", "create"} => Kind = "pattern"
  /\ Kind = "enhance" /\ w.stage \in {"latest", "insert"} =>
       /\ w.seen \in 0..source
       /\ setting.overlap \/ versions = <<>> \/ Last <= w.seen
  /\ Kind = "enhance" /\ w.stage = "insert" =>
       /\ w.version \in 1..Len(versions) + 1
       /\ w.version = Len(versions) + 1 => versions = <<>> \/ Last # w.seen

IsPick(w) == {"stage", "todo"} \subseteq DOMAIN w /\ w.stage = "pick"
SweepOK(w) == w = Off \/ IsPick(w) \/ IsWork(w)

IInv ==
  /\ setting \in Settings
  /\ source \in Nat /\ versions \in Seq(0..source)
  /\ sweeps = [s \in Sweepers |-> sweeps[s]]
  /\ \A s \in Sweepers : SweepOK(sweeps[s])
  /\ setting.overlap \/ \A s, t \in Sweepers : sweeps[s] # Off /\ sweeps[t] # Off => s = t
  /\ VersionsAdvance

-----------------------------------------------------------------------------
(* Steps by what they change.                                              *)

LEMMA WorkStages ==
  ASSUME NEW s \in Sweepers, SweepOK(sweeps[s])
  PROVE  /\ In(s, "off") <=> sweeps[s] = Off
         /\ In(s, "pick") <=> IsPick(sweeps[s])
         /\ ~In(s, "off") /\ ~In(s, "pick") => IsWork(sweeps[s])
BY DEF SweepOK, IsPick, IsWork, In, Off, Stages

\* One sweep goes on and no version is made.
LEMMA SweepKeeps ==
  ASSUME IInv, NEW s \in Sweepers, NEW next, Put(s, next), SweepOK(next),
         UNCHANGED <<setting, source, versions>>,
         next = Off \/ sweeps[s] # Off \/ setting.overlap \/ \A t \in Sweepers : sweeps[t] = Off
  PROVE  IInv'
<1>1. sweeps' = [t \in Sweepers |-> sweeps'[t]] /\ sweeps'[s] = next
  BY DEF IInv, Put
<1>2. \A t \in Sweepers \ {s} : sweeps'[t] = sweeps[t]
  BY DEF IInv, Put
<1>3. ASSUME NEW t \in Sweepers PROVE SweepOK(sweeps[t])'
  <2>1. CASE t = s
    BY <1>1, <2>1 DEF SweepOK, IsPick, IsWork, Kind, Last
  <2>2. CASE t # s
    <3>1. SweepOK(sweeps[t]) /\ sweeps'[t] = sweeps[t]
      BY <1>2, <2>2 DEF IInv
    <3> QED
      BY <3>1 DEF SweepOK, IsPick, IsWork, Kind, Last
  <2> QED
    BY <2>1, <2>2
<1>4. (setting.overlap \/ \A p, t \in Sweepers : sweeps[p] # Off /\ sweeps[t] # Off => p = t)'
  BY <1>1, <1>2 DEF IInv
<1>5. VersionsAdvance'
  BY DEF IInv, VersionsAdvance
<1> QED
  BY <1>1, <1>3, <1>4, <1>5 DEF IInv

\* Nothing a sweep or a version depends on changes.
LEMMA RestKeeps ==
  ASSUME IInv, UNCHANGED <<setting, source, versions, sweeps>>
  PROVE  IInv'
BY DEF IInv, VersionsAdvance, SweepOK, IsPick, IsWork, Kind, Last

\* The source changes: what has been read of it is of the past.
LEMMA SourceKeeps ==
  ASSUME IInv, source' = source + 1, UNCHANGED <<setting, versions, sweeps>>
  PROVE  IInv'
<1>1. source' \in Nat /\ 0..source \subseteq 0..source'
  BY DEF IInv
<1>2. versions' \in Seq(0..source')
  BY <1>1 DEF IInv
<1>3. \A s \in Sweepers : SweepOK(sweeps[s])'
  <2> SUFFICES ASSUME NEW s \in Sweepers PROVE SweepOK(sweeps[s])'
    OBVIOUS
  <2>1. SweepOK(sweeps[s])
    BY DEF IInv
  <2> QED
    BY <1>1, <2>1 DEF SweepOK, IsPick, IsWork, Kind, Last
<1> QED
  BY <1>1, <1>2, <1>3 DEF IInv, VersionsAdvance

-----------------------------------------------------------------------------
(* Every step.                                                             *)

\* A sweep in the middle of its work moves on to a stage with nothing more to know, ...
LEMMA MovesOn ==
  ASSUME IInv, NEW s \in Sweepers, NEW stage, GoOn(s, stage),
         ~In(s, "off"), ~In(s, "pick"), UNCHANGED <<setting, source, versions>>,
         stage \in Stages \ {"pick"},
         stage \notin {"drop", "latest", "purge", "select", "unlink", "delete", "existing", "placeholder", "fill", "create"},
         stage = "insert" => Kind # "enhance"
  PROVE  IInv'
<1> DEFINE next == [sweeps[s] EXCEPT !.stage = stage]
<1>1. IsWork(sweeps[s])
  BY WorkStages DEF IInv
<1>2. DOMAIN next = DOMAIN sweeps[s] /\ next.stage = stage
  BY <1>1 DEF IsWork
<1>3. IsWork(next)
  BY <1>1, <1>2 DEF IsWork
<1> QED
  BY <1>3, SweepKeeps DEF GoOn, SweepOK, In, Off

\* ... or leaves behind what it has read.
LEMMA Forgets ==
  ASSUME IInv, NEW s \in Sweepers, NEW stage, Forget(s, stage),
         ~In(s, "off"), ~In(s, "pick"), UNCHANGED <<setting, source, versions>>,
         stage = "fail" \/ (stage = "insert" /\ Kind # "enhance")
  PROVE  IInv'
<1> DEFINE next == [stage |-> stage, todo |-> sweeps[s].todo, job |-> sweeps[s].job, seen |-> Null]
<1>1. IsWork(next)
  BY DEF IsWork, Stages
<1> QED
  BY <1>1, SweepKeeps DEF Forget, SweepOK, In, Off

\* What a stage says of the kind of job.
LEMMA AtWork ==
  ASSUME IInv, NEW s \in Sweepers, ~In(s, "off"), ~In(s, "pick")
  PROVE  IsWork(sweeps[s]) /\ sweeps[s] # Off /\ sweeps[s].stage \in Stages
BY WorkStages DEF IInv, In, IsWork, Off, Stages

LEMMA BeginStep ==
  ASSUME IInv, NEW s \in Sweepers, SweepBegin(s)
  PROVE  IInv'
<1> DEFINE todo == {j \in Rows : Adoptable(j)}
           next == [stage |-> "pick", todo |-> todo]
<1>1. SweepOK(next) /\ Put(s, next) /\ UNCHANGED <<setting, source, versions>>
  BY DEF SweepBegin, SweepOK, IsPick, results
<1>2. setting.overlap \/ \A t \in Sweepers : sweeps[t] = Off
  BY WorkStages DEF SweepBegin, IInv
<1> QED
  BY <1>1, <1>2, SweepKeeps

LEMMA MarkStep ==
  ASSUME IInv, NEW s \in Sweepers, NEW j, SweepMark(s, j)
  PROVE  IInv'
<1> DEFINE next == [stage |-> "source", todo |-> sweeps[s].todo \ {j}, job |-> j, seen |-> Null]
<1>1. SweepOK(next) /\ Put(s, next) /\ UNCHANGED <<setting, source, versions>>
  BY DEF SweepMark, SweepOK, IsWork, Stages, results
<1>2. sweeps[s] # Off
  BY DEF SweepMark, In, Off
<1> QED
  BY <1>1, <1>2, SweepKeeps

\* A job whose marking fails is left to fail, ...
LEMMA MarkFailsStep ==
  ASSUME IInv, NEW s \in Sweepers, NEW j, MarkFails(s, j), UNCHANGED <<setting, source, versions>>
  PROVE  IInv'
<1> DEFINE next == [stage |-> "fail", todo |-> sweeps[s].todo \ {j}, job |-> j, seen |-> Null]
<1>1. SweepOK(next) /\ Put(s, next)
  BY DEF MarkFails, SweepOK, IsWork, Stages
<1>2. sweeps[s] # Off
  BY DEF MarkFails, In, Off
<1> QED
  BY <1>1, <1>2, SweepKeeps

\* ... and so is one whose work fails.
LEMMA FailsStep ==
  ASSUME IInv, NEW s \in Sweepers, StepFails(s)
  PROVE  IInv'
<1>1. UNCHANGED <<setting, source, versions>>
  BY DEF StepFails, results
<1>2. ASSUME WorkFails(s) PROVE IInv'
  BY <1>1, <1>2, Forgets DEF WorkFails
<1> QED
  BY <1>1, <1>2, MarkFailsStep DEF StepFails

\* The source read is the present one, which no version is ahead of.
LEMMA ReadSourceStep ==
  ASSUME IInv, NEW s \in Sweepers, ReadSource(s)
  PROVE  IInv'
<1> DEFINE stage == IF ~setting.file THEN FromSource ELSE IF stored THEN "drop" ELSE "fail"
           next == [sweeps[s] EXCEPT !.stage = stage, !.seen = source]
<1>1. IsWork(sweeps[s]) /\ sweeps[s] # Off /\ Put(s, next) /\ UNCHANGED <<setting, source, versions>>
  BY AtWork DEF ReadSource, In, results
<1>2. DOMAIN next = DOMAIN sweeps[s] /\ next.stage = stage /\ next.seen = source
  BY <1>1 DEF IsWork
<1>3. Kind \in Kinds /\ (setting.file => Kind \in {"paper", "pattern"})
  BY SweptJobsAssumption DEF IInv, IsSetting, Kind
<1>4. versions = <<>> \/ Last \in 0..source
  BY DEF IInv, Last
<1>5. IsWork(next)
  <2>1. stage \in {"drop", "fail", "latest", "purge", "select", "existing"}
    BY <1>3 DEF FromSource, Kinds, Kind
  <2>2. /\ stage = "drop" => setting.file
        /\ stage = "latest" => Kind = "enhance"
        /\ stage = "purge" => Kind = "extract"
        /\ stage = "select" => Kind = "paper"
        /\ stage = "existing" => Kind = "pattern"
    BY <1>3 DEF FromSource, Kinds, Kind
  <2>3. source \in 0..source /\ (versions = <<>> \/ Last <= source)
    BY <1>4 DEF IInv
  <2> QED
    BY <1>1, <1>2, <2>1, <2>2, <2>3 DEF IsWork, Stages
<1> QED
  BY <1>1, <1>5, SweepKeeps DEF SweepOK

LEMMA DropFileStep ==
  ASSUME IInv, NEW s \in Sweepers, DropFile(s)
  PROVE  IInv'
<1> DEFINE next == [sweeps[s] EXCEPT !.stage = FromSource]
<1>1. IsWork(sweeps[s]) /\ sweeps[s] # Off /\ Put(s, next) /\ UNCHANGED <<setting, source, versions>>
  BY AtWork DEF DropFile, GoOn, In, results
<1>2. DOMAIN next = DOMAIN sweeps[s] /\ next.stage = FromSource
  BY <1>1 DEF IsWork
<1>3. Kind \in {"paper", "pattern"}
  BY <1>1, SweptJobsAssumption DEF IInv, IsSetting, Kind, IsWork, DropFile, In
<1>4. FromSource \in {"select", "existing"} /\ (FromSource = "select" <=> Kind = "paper")
  BY <1>3 DEF FromSource, Kind
<1>5. IsWork(next)
  BY <1>1, <1>2, <1>3, <1>4 DEF IsWork, Stages
<1> QED
  BY <1>1, <1>5, SweepKeeps DEF SweepOK

\* The newest version is not of the text that was read, or nothing is made.
LEMMA ReadLatestStep ==
  ASSUME IInv, NEW s \in Sweepers, ReadLatest(s)
  PROVE  IInv'
<1> DEFINE stage == IF Unchanged(sweeps[s].seen) THEN "complete" ELSE "insert"
           next == [stage |-> stage, todo |-> sweeps[s].todo, job |-> sweeps[s].job,
                    seen |-> sweeps[s].seen, version |-> Len(versions) + 1]
<1>1. /\ IsWork(sweeps[s]) /\ sweeps[s] # Off /\ sweeps[s].stage = "latest"
      /\ Put(s, next) /\ UNCHANGED <<setting, source, versions>>
  BY AtWork DEF ReadLatest, In, results
<1>2. Len(versions) \in Nat
  BY DEF IInv
<1>3. stage = "insert" => versions = <<>> \/ Last # sweeps[s].seen
  BY DEF Unchanged, Last
<1>4. IsWork(next)
  BY <1>1, <1>2, <1>3 DEF IsWork, Stages
<1> QED
  BY <1>1, <1>4, SweepKeeps DEF SweepOK

\* The version that is made follows the newest one and is of another text, of a later one
\* unless sweeps overlap.  What another sweep is about to make is refused from now on.
LEMMA InsertEnhancementStep ==
  ASSUME IInv, NEW s \in Sweepers, InsertEnhancement(s)
  PROVE  IInv'
<1>1. /\ IsWork(sweeps[s]) /\ sweeps[s] # Off /\ sweeps[s].stage = "insert" /\ Kind = "enhance"
      /\ ~In(s, "off") /\ ~In(s, "pick") /\ UNCHANGED <<setting, source>>
  BY AtWork DEF InsertEnhancement, On, In, Kind
<1> DEFINE n == Len(versions)
           seen == sweeps[s].seen
           next == [sweeps[s] EXCEPT !.stage = "complete"]
<1>2. CASE sweeps[s].version # n + 1
  <2>1. Forget(s, "fail") /\ UNCHANGED versions
    BY <1>2 DEF InsertEnhancement
  <2> QED
    BY <1>1, <2>1, Forgets
<1>3. CASE sweeps[s].version = n + 1
  <2>1. versions' = Append(versions, seen) /\ Put(s, next)
    BY <1>3 DEF InsertEnhancement, GoOn
  <2>2. /\ seen \in 0..source
        /\ setting.overlap \/ versions = <<>> \/ Last <= seen
        /\ versions = <<>> \/ Last # seen
    BY <1>1, <1>3 DEF IsWork
  <2>3. /\ versions \in Seq(0..source) /\ n \in Nat
        /\ versions' \in Seq(0..source) /\ Len(versions') = n + 1
        /\ \A k \in 1..n : versions'[k] = versions[k]
        /\ versions'[n + 1] = seen
    BY <2>1, <2>2 DEF IInv
  <2>4. VersionsAdvance'
    <3> SUFFICES ASSUME NEW k \in 1..n
                 PROVE  versions'[k] # versions'[k + 1] /\ (setting.overlap \/ versions'[k] < versions'[k + 1])
      BY <1>1, <2>3 DEF VersionsAdvance
    <3>1. CASE k = n
      <4>1. versions # <<>> /\ versions'[k] = Last /\ versions'[k + 1] = seen /\ Last \in 0..source
        <5>1. n \in 1..n /\ n > 0
          BY <3>1
        <5>2. versions # <<>>
          BY <2>3, <5>1
        <5>3. Last = versions[n]
          BY DEF Last
        <5>4. versions = <<>> \/ Last \in 0..source
          BY DEF IInv, Last
        <5>5. versions'[n] = versions[n] /\ versions'[k + 1] = seen
          BY <2>3, <3>1, <5>1
        <5> QED
          BY <3>1, <5>2, <5>3, <5>4, <5>5
      <4> QED
        BY <2>2, <4>1
    <3>2. CASE k # n
      <4>1. k \in 1..n - 1 /\ versions'[k] = versions[k] /\ versions'[k + 1] = versions[k + 1]
        BY <2>3, <3>2
      <4> QED
        BY <4>1 DEF IInv, VersionsAdvance
    <3> QED
      BY <3>1, <3>2
  <2>5. DOMAIN next = DOMAIN sweeps[s] /\ next.stage = "complete"
    BY <1>1 DEF IsWork
  <2>6. sweeps' = [t \in Sweepers |-> sweeps'[t]] /\ sweeps'[s] = next
        /\ \A t \in Sweepers \ {s} : sweeps'[t] = sweeps[t]
    BY <2>1 DEF IInv, Put
  <2>7. ASSUME NEW t \in Sweepers PROVE SweepOK(sweeps[t])'
    <3>1. CASE t = s
      <4>1. IsWork(sweeps[t])'
        BY <1>1, <2>5, <2>6, <3>1 DEF IsWork, Stages, Kind
      <4> QED
        BY <4>1 DEF SweepOK
    <3>2. CASE t # s
      <4>1. SweepOK(sweeps[t]) /\ sweeps'[t] = sweeps[t]
        BY <2>6, <3>2 DEF IInv
      <4>2. sweeps[t] = Off \/ setting.overlap
        BY <1>1, <3>2 DEF IInv
      <4>3. CASE IsWork(sweeps[t]) /\ setting.overlap
        <5>1. Kind = "enhance" /\ sweeps[t].stage = "insert" =>
                sweeps[t].version \in 1..n + 2 /\ sweeps[t].version # n + 2
          BY <2>3, <4>3 DEF IsWork
        <5>2. IsWork(sweeps[t])'
          BY <1>1, <2>3, <4>1, <4>3, <5>1 DEF IsWork, Kind
        <5> QED
          BY <5>2 DEF SweepOK
      <4> QED
        BY <4>1, <4>2, <4>3 DEF SweepOK, IsPick
    <3> QED
      BY <3>1, <3>2
  <2>8. (setting.overlap \/ \A p, t \in Sweepers : sweeps[p] # Off /\ sweeps[t] # Off => p = t)'
    BY <1>1, <2>6 DEF IInv
  <2> QED
    BY <1>1, <2>3, <2>4, <2>6, <2>7, <2>8 DEF IInv
<1> QED
  BY <1>2, <1>3

\* The steps of the other kinds of job touch no version.
LEMMA PlainStep ==
  ASSUME IInv, NEW s \in Sweepers,
         Purge(s) \/ DeleteStale(s) \/ InsertRows(s) \/ FillPattern(s) \/ CreatePattern(s)
  PROVE  IInv'
<1>1. ~In(s, "off") /\ ~In(s, "pick") /\ UNCHANGED <<setting, source, versions>>
  BY DEF Purge, DeleteStale, InsertRows, FillPattern, CreatePattern, In, results
<1>2. IsWork(sweeps[s])
  BY <1>1, AtWork
<1>3. CASE Purge(s)
  <2>1. GoOn(s, "insert") /\ Kind # "enhance"
    BY <1>2, <1>3 DEF Purge, In, IsWork
  <2> QED
    BY <1>1, <2>1, MovesOn DEF Stages
<1>4. CASE DeleteStale(s)
  <2>1. Forget(s, "insert") /\ Kind # "enhance"
    BY <1>2, <1>4 DEF DeleteStale, In, IsWork
  <2> QED
    BY <1>1, <2>1, Forgets
<1>5. CASE InsertRows(s) \/ FillPattern(s) \/ CreatePattern(s)
  <2>1. GoOn(s, "complete")
    BY <1>5 DEF InsertRows, FillPattern, CreatePattern
  <2> QED
    BY <1>1, <2>1, MovesOn DEF Stages
<1> QED
  BY <1>3, <1>4, <1>5

LEMMA StaleSteps ==
  ASSUME IInv, NEW s \in Sweepers, SelectStale(s) \/ Unlink(s) \/ ReadPatterns(s) \/ ReadPlaceholder(s)
  PROVE  IInv'
<1>1. /\ ~In(s, "off") /\ ~In(s, "pick") /\ UNCHANGED <<setting, source, versions>>
      /\ sweeps[s].stage \in {"select", "unlink", "existing", "placeholder"}
  BY DEF SelectStale, Unlink, ReadPatterns, ReadPlaceholder, In, results
<1>2. IsWork(sweeps[s]) /\ sweeps[s] # Off
  BY <1>1, AtWork
<1>3. CASE SelectStale(s)
  <2> DEFINE ids == {Id(row) : row \in Stale(sweeps[s].job)}
             stage == IF ids = {} THEN "insert" ELSE "unlink"
             next == [sweeps[s] EXCEPT !.stage = stage, !.seen = ids]
  <2>1. Put(s, next) /\ Kind = "paper"
    BY <1>2, <1>3 DEF SelectStale, In, IsWork
  <2>2. DOMAIN next = DOMAIN sweeps[s] /\ next.stage = stage /\ stage \in {"insert", "unlink"}
    BY <1>2 DEF IsWork
  <2>3. IsWork(next)
    BY <1>2, <2>1, <2>2 DEF IsWork, Stages
  <2> QED
    BY <1>1, <1>2, <2>1, <2>3, SweepKeeps DEF SweepOK
<1>4. CASE Unlink(s)
  <2> DEFINE next == [sweeps[s] EXCEPT !.stage = "delete"]
  <2>1. Put(s, next) /\ Kind = "paper"
    BY <1>2, <1>4 DEF Unlink, GoOn, In, IsWork
  <2>2. DOMAIN next = DOMAIN sweeps[s] /\ next.stage = "delete"
    BY <1>2 DEF IsWork
  <2>3. IsWork(next)
    BY <1>2, <2>1, <2>2 DEF IsWork, Stages
  <2> QED
    BY <1>1, <1>2, <2>1, <2>3, SweepKeeps DEF SweepOK
<1>5. CASE ReadPatterns(s) \/ ReadPlaceholder(s)
  <2>0. PICK stage \in {"complete", "placeholder", "fill", "create"} : GoOn(s, stage)
    BY <1>5 DEF ReadPatterns, ReadPlaceholder
  <2> DEFINE next == [sweeps[s] EXCEPT !.stage = stage]
  <2>1. Put(s, next) /\ Kind = "pattern"
    BY <1>2, <1>5, <2>0 DEF ReadPatterns, ReadPlaceholder, GoOn, In, IsWork
  <2>2. DOMAIN next = DOMAIN sweeps[s] /\ next.stage = stage
    BY <1>2 DEF IsWork
  <2>3. IsWork(next)
    BY <1>2, <2>0, <2>1, <2>2 DEF IsWork, Stages
  <2> QED
    BY <1>1, <1>2, <2>1, <2>3, SweepKeeps DEF SweepOK
<1> QED
  BY <1>3, <1>4, <1>5

LEMMA SettleStep ==
  ASSUME IInv, NEW s \in Sweepers, Settle(s)
  PROVE  IInv'
<1>1. SweepOK(NextJob(s))
  BY DEF NextJob, SweepOK, IsPick
<1>2. sweeps[s] # Off
  BY DEF Settle, In, Off
<1>3. Put(s, NextJob(s)) /\ UNCHANGED <<setting, source, versions>>
  BY DEF Settle, results
<1> QED
  BY <1>1, <1>2, <1>3, SweepKeeps

LEMMA CrashStep ==
  ASSUME IInv, Crash
  PROVE  IInv'
<1>1. UNCHANGED <<setting, source, versions>> /\ sweeps' = [s \in Sweepers |-> Off]
  BY DEF Crash, results
<1> QED
  BY <1>1 DEF IInv, SweepOK, VersionsAdvance

\* What a request, a teacher or time does.
LEMMA OutsideStep ==
  ASSUME IInv, (\E r \in Requests : Request(r)) \/ Teacher \/ (\E j \in Rows : Expire(j))
  PROVE  IInv'
<1>1. CASE \E r \in Requests : Request(r)
  <2> PICK r \in Requests : Request(r)
    BY <1>1
  <2>1. CASE ChangeSource(r)
    BY <2>1, SourceKeeps DEF ChangeSource, results
  <2>2. CASE ~ChangeSource(r)
    BY <2>2, RestKeeps DEF Request, Ask, AskCheck, AskSave, AskRecheck, AskFails, AskDrop, AskResource,
       AskInsert, StatusRead, StatusWrite, results
  <2> QED
    BY <2>1, <2>2
<1>2. CASE Teacher
  BY <1>2, RestKeeps DEF Teacher, EditRow, AcceptRow, DiscardRow, Rewrite, TypePattern, DeletePattern
<1>3. CASE \E j \in Rows : Expire(j)
  BY <1>3, RestKeeps DEF Expire, results
<1> QED
  BY <1>1, <1>2, <1>3

LEMMA Initially == Init => IInv
<1> SUFFICES ASSUME Init PROVE IInv
  OBVIOUS
<1>1. versions = <<>> /\ source = 0 /\ sweeps = [s \in Sweepers |-> Off]
  BY DEF Init
<1> QED
  BY <1>1 DEF Init, IInv, SweepOK, VersionsAdvance

LEMMA NextStep == IInv /\ [Next]_vars => IInv'
<1> SUFFICES ASSUME IInv, [Next]_vars PROVE IInv'
  OBVIOUS
<1>1. ASSUME NEW s \in Sweepers, SweepBegin(s) \/ SweepWork(s) \/ StepFails(s) PROVE IInv'
  BY <1>1, BeginStep, MarkStep, ReadSourceStep, DropFileStep, ReadLatestStep, InsertEnhancementStep,
     PlainStep, FailsStep, StaleSteps, SettleStep DEF SweepWork
<1>2. CASE UNCHANGED vars
  BY <1>2, RestKeeps DEF vars, results
<1> QED
  BY <1>1, <1>2, OutsideStep, CrashStep DEF Next

LEMMA Invariance == Spec => []IInv
BY Initially, NextStep, PTL DEF Spec

-----------------------------------------------------------------------------

\* The versions of an enhancement always move on with the material, whatever is swept twice,
\* interrupted, cancelled or retried: UNIQUE (material_id, version) and the comparison with the
\* newest fingerprint are enough, even for sweeps that overlap.
THEOREM VersionsAlwaysAdvance == Spec => []VersionsAdvance
<1>1. IInv => VersionsAdvance
  BY DEF IInv
<1> QED
  BY <1>1, Invariance, PTL

\* The rows that PurgeSparesTouched is about, in a step.
Spared ==
  setting.kind = "extract" /\ sweeps' # sweeps =>
    \A row \in rows : row.status = "ACTIVE" \/ row.editor = "other" => row \in rows'

LEMMA SparingStep == IInv /\ [Next]_vars => Spared
<1> SUFFICES ASSUME IInv, [Next]_vars, Kind = "extract", sweeps' # sweeps,
                    NEW row \in rows, row.status = "ACTIVE" \/ row.editor = "other"
             PROVE  row \in rows'
  BY DEF Spared, Kind
<1>1. CASE \E s \in Sweepers : Purge(s)
  BY <1>1 DEF Purge, Stale
<1>2. CASE \E s \in Sweepers : Unlink(s) \/ DeleteStale(s)
  <2> PICK s \in Sweepers : Unlink(s) \/ DeleteStale(s)
    BY <1>2
  <2>1. sweeps[s].stage \in {"unlink", "delete"}
    BY DEF Unlink, DeleteStale, In
  <2>2. IsWork(sweeps[s])
    BY <2>1, AtWork DEF In
  <2> QED
    BY <2>1, <2>2 DEF IsWork
<1>3. CASE \E s \in Sweepers : InsertRows(s)
  BY <1>3 DEF InsertRows
<1>4. ASSUME NEW s \in Sweepers, SweepBegin(s) \/ SweepWork(s) \/ StepFails(s),
             ~Purge(s), ~Unlink(s), ~DeleteStale(s), ~InsertRows(s)
      PROVE  rows' = rows
  BY <1>4 DEF SweepBegin, SweepWork, StepFails, SweepMark, ReadSource, DropFile, ReadLatest,
     InsertEnhancement, SelectStale, ReadPatterns, ReadPlaceholder, FillPattern, CreatePattern, Settle, results
<1>5. CASE Crash
  BY <1>5 DEF Crash, results
<1>6. CASE \E r \in Requests : Request(r)
  BY <1>6 DEF Request, ChangeSource, Ask, AskCheck, AskSave, AskRecheck, AskFails, AskDrop, AskResource,
     AskInsert, StatusRead, StatusWrite, results
<1>7. CASE Teacher \/ UNCHANGED vars \/ \E j \in Rows : Expire(j)
  BY <1>7 DEF Teacher, EditRow, AcceptRow, DiscardRow, Rewrite, TypePattern, DeletePattern, Expire, vars
<1> QED
  BY <1>1, <1>2, <1>3, <1>4, <1>5, <1>6, <1>7 DEF Next

\* The extraction of a material never purges an accepted question nor one another teacher than
\* its owner has edited: its purge is one statement, whose condition the database evaluates as
\* it deletes.
THEOREM PurgeAlwaysSpares == Spec => PurgeSparesTouched
<1>1. IInv /\ [Next]_vars => [Spared]_vars
  BY SparingStep
<1> QED
  BY <1>1, Invariance, PTL DEF Spec, PurgeSparesTouched, Spared

-----------------------------------------------------------------------------
(* Types.                                                                  *)

JobRow == [status : Statuses, lease : {"none", "fresh", "stale"}, pattern : DOMAIN patterns \cup {Null}]
Row == [batch : 1..made, job : Rows, item : Items, status : {"REVIEW", "ACTIVE"},
        editor : Editors, linked : BOOLEAN]
PatternStatus == {"empty", "filled", "typed", "gone"}
Budgets == {"calls", "crashes", "expiries", "reviews"}
Answers == [given : 0..source, sound : 0..source]
AskStages == {"check", "save", "recheck", "drop", "resource", "insert"}

\* A sweep's list and its job are of the jobs there are.
WorkOK(w) ==
  \/ w = Off
  \/ /\ w.stage \in Stages /\ w.todo \subseteq Rows
     /\ w.stage # "pick" => w.job \in Rows \ w.todo
     /\ w.stage = "pick" => w.todo # {}

AskOK(q) ==
  \/ q = Idle
  \/ /\ {"op", "stage", "pattern"} \subseteq DOMAIN q /\ q.op = "ask"
     /\ q.stage \in AskStages /\ q.pattern \in DOMAIN patterns \cup {Null}
     /\ Kind = "enhance" => q.stage \in {"check", "insert"}
  \/ /\ q.op = "status"
     /\ q.job \in Rows /\ q.next \in Statuses \ {"completed"}

JobsOK == jobs \in Seq(JobRow)
WorksOK == \A s \in Sweepers : WorkOK(sweeps[s])
AsksOK == requests = [r \in Requests |-> requests[r]] /\ \A r \in Requests : AskOK(requests[r])
SourceOK == source \in 0..setting.changes /\ stored \in BOOLEAN /\ answers \in Answers
RowsOK == made \in Nat /\ rows \subseteq Row /\ handled \subseteq Items
PatternsOK == patterns \in Seq(PatternStatus)
SpentOK == spent = [what \in Budgets |-> spent[what]] /\ \A what \in Budgets : spent[what] \in 0..setting[what]

TInv == JobsOK /\ WorksOK /\ AsksOK /\ SourceOK /\ RowsOK /\ PatternsOK /\ SpentOK

LEMMA SeqUpdate ==
  ASSUME NEW S, NEW seq \in Seq(S), NEW i \in DOMAIN seq, NEW new, new \in S, NEW next, next = [seq EXCEPT ![i] = new]
  PROVE  next \in Seq(S) /\ DOMAIN next = DOMAIN seq
OBVIOUS

LEMMA SeqAppend ==
  ASSUME NEW S, NEW seq \in Seq(S), NEW new \in S, NEW next, next = Append(seq, new)
  PROVE  /\ next \in Seq(S) /\ DOMAIN seq \subseteq DOMAIN next /\ Len(seq) + 1 \in DOMAIN next
         /\ next[Len(seq) + 1] = new /\ \A i \in DOMAIN seq : next[i] = seq[i]
         /\ DOMAIN next = DOMAIN seq \cup {Len(seq) + 1} /\ Len(seq) + 1 \notin DOMAIN seq
OBVIOUS

LEMMA SeqWider ==
  ASSUME NEW S, NEW T, S \subseteq T, NEW seq \in Seq(S)
  PROVE  seq \in Seq(T) /\ \A i \in DOMAIN seq : seq[i] \in S
OBVIOUS

LEMMA SettingFacts ==
  ASSUME setting \in Settings
  PROVE  /\ Kind \in Kinds /\ (setting.file => Kind \in {"paper", "pattern"})
         /\ setting.changes \in Nat /\ \A what \in Budgets : setting[what] \in Nat
BY SweptJobsAssumption DEF IsSetting, Kind, Budgets

\* A call that is spent stays within its bound.
LEMMA SpendKeeps ==
  ASSUME setting \in Settings, setting' = setting, SpentOK, NEW what \in Budgets, Spend(what) \/ UNCHANGED spent
  PROVE  SpentOK'
<1>1. setting[what] \in Nat
  BY SettingFacts
<1> QED
  BY <1>1 DEF SpentOK, Spend

LEMMA SpentStep ==
  ASSUME IInv, TInv, [Next]_vars
  PROVE  SpentOK' /\ setting' = setting
<1>0. setting \in Settings /\ SpentOK
  BY DEF IInv, TInv
<1>1. setting' = setting
  BY DEF Next, Request, ChangeSource, Ask, AskCheck, AskSave, AskRecheck, AskFails, AskDrop, AskResource,
     AskInsert, StatusRead, StatusWrite, SweepBegin, SweepWork, StepFails, SweepMark, ReadSource, DropFile,
     ReadLatest, InsertEnhancement, Purge, SelectStale, Unlink, DeleteStale, InsertRows, ReadPatterns, ReadPlaceholder,
     FillPattern, CreatePattern, Settle, Teacher, EditRow, AcceptRow, DiscardRow, Rewrite, TypePattern,
     DeletePattern, Expire, Crash, vars
<1>2. \/ UNCHANGED spent
      \/ \E what \in Budgets : Spend(what)
  BY DEF Next, Request, ChangeSource, Ask, AskCheck, AskSave, AskRecheck, AskFails, AskDrop, AskResource,
     AskInsert, StatusRead, StatusWrite, SweepBegin, SweepWork, StepFails, SweepMark, ReadSource, DropFile,
     ReadLatest, InsertEnhancement, Purge, SelectStale, Unlink, DeleteStale, InsertRows, ReadPatterns, ReadPlaceholder,
     FillPattern, CreatePattern, Settle, Teacher, EditRow, AcceptRow, DiscardRow, Rewrite, TypePattern,
     DeletePattern, Expire, Crash, vars, Budgets
<1> QED
  BY <1>0, <1>1, <1>2, SpendKeeps DEF Budgets
-----------------------------------------------------------------------------
(* Which steps change what.                                                *)

LEMMA JobsChange ==
  ASSUME [Next]_vars
  PROVE  \/ jobs' = jobs
         \/ \E r \in Requests : AskInsert(r) \/ StatusWrite(r)
         \/ \E s \in Sweepers : Settle(s) \/ \E j \in Rows : SweepMark(s, j)
         \/ \E j \in Rows : Expire(j)
BY DEF Next, Request, ChangeSource, Ask, AskCheck, AskSave, AskRecheck, AskFails, AskDrop, AskResource,
   StatusRead, SweepBegin, SweepWork, StepFails, ReadSource, DropFile, ReadLatest, InsertEnhancement, Purge,
   SelectStale, Unlink, DeleteStale, InsertRows, ReadPatterns, ReadPlaceholder, FillPattern, CreatePattern,
   Teacher, EditRow, AcceptRow, DiscardRow, Rewrite, TypePattern, DeletePattern, Crash, vars

LEMMA PatternsChange ==
  ASSUME [Next]_vars
  PROVE  \/ patterns' = patterns
         \/ \E r \in Requests : AskResource(r)
         \/ \E s \in Sweepers : FillPattern(s) \/ CreatePattern(s)
         \/ \E p \in DOMAIN patterns : TypePattern(p) \/ DeletePattern(p)
BY DEF Next, Request, ChangeSource, Ask, AskCheck, AskSave, AskRecheck, AskFails, AskDrop, AskInsert,
   StatusRead, StatusWrite, SweepBegin, SweepWork, StepFails, SweepMark, ReadSource, DropFile, ReadLatest,
   InsertEnhancement, Purge, SelectStale, Unlink, DeleteStale, InsertRows, ReadPatterns, ReadPlaceholder, Settle,
   Teacher, EditRow, AcceptRow, DiscardRow, Rewrite, Expire, Crash, vars, results

LEMMA RowsChange ==
  ASSUME [Next]_vars
  PROVE  \/ UNCHANGED <<rows, made, handled>>
         \/ \E s \in Sweepers : Purge(s) \/ Unlink(s) \/ DeleteStale(s) \/ InsertRows(s)
         \/ \E row \in rows : DiscardRow(row) \/ \E who \in Editors : EditRow(row, who) \/ AcceptRow(row, who)
BY DEF Next, Request, ChangeSource, Ask, AskCheck, AskSave, AskRecheck, AskFails, AskDrop, AskResource,
   AskInsert, StatusRead, StatusWrite, SweepBegin, SweepWork, StepFails, SweepMark, ReadSource, DropFile,
   ReadLatest, InsertEnhancement, SelectStale, ReadPatterns, ReadPlaceholder, FillPattern, CreatePattern, Settle,
   Teacher, TypePattern, DeletePattern, Expire, Crash, vars, results

LEMMA SourceChange ==
  ASSUME [Next]_vars
  PROVE  \/ source' = source
         \/ \E r \in Requests : ChangeSource(r)
BY DEF Next, Request, Ask, AskCheck, AskSave, AskRecheck, AskFails, AskDrop, AskResource, AskInsert,
   StatusRead, StatusWrite, SweepBegin, SweepWork, StepFails, SweepMark, ReadSource, DropFile,
   ReadLatest, InsertEnhancement, Purge, SelectStale, Unlink, DeleteStale, InsertRows, ReadPatterns, ReadPlaceholder,
   FillPattern, CreatePattern, Settle, Teacher, EditRow, AcceptRow, DiscardRow, Rewrite, TypePattern,
   DeletePattern, Expire, Crash, vars

LEMMA StoredStep ==
  ASSUME TInv, [Next]_vars
  PROVE  stored' \in BOOLEAN
<1>1. stored \in BOOLEAN
  BY DEF TInv, SourceOK
<1>2. stored' \in {stored, TRUE, FALSE}
  BY DEF Next, Request, ChangeSource, Ask, AskCheck, AskSave, AskRecheck, AskFails, AskDrop, AskResource,
     AskInsert, StatusRead, StatusWrite, SweepBegin, SweepWork, StepFails, SweepMark, ReadSource, DropFile,
     ReadLatest, InsertEnhancement, Purge, SelectStale, Unlink, DeleteStale, InsertRows, ReadPatterns,
     ReadPlaceholder, FillPattern, CreatePattern, Settle, Teacher, EditRow, AcceptRow, DiscardRow, Rewrite,
     TypePattern, DeletePattern, Expire, Crash, vars
<1> QED
  BY <1>1, <1>2

LEMMA AnswersChange ==
  ASSUME [Next]_vars
  PROVE  answers' = answers \/ \E r \in Requests : AskCheck(r) \/ AskInsert(r)
BY DEF Next, Request, ChangeSource, Ask, AskSave, AskRecheck, AskFails, AskDrop, AskResource,
   StatusRead, StatusWrite, SweepBegin, SweepWork, StepFails, SweepMark, ReadSource, DropFile,
   ReadLatest, InsertEnhancement, Purge, SelectStale, Unlink, DeleteStale, InsertRows, ReadPatterns,
   ReadPlaceholder, FillPattern, CreatePattern, Settle, Teacher, EditRow, AcceptRow, DiscardRow, Rewrite,
   TypePattern, DeletePattern, Expire, Crash, vars

\* What was answered was answered of the text of that moment.
LEMMA AnswersStep ==
  ASSUME IInv, TInv, [Next]_vars, source \in 0..source', source' \in Nat
  PROVE  answers' \in Answers'
<1>1. answers \in Answers /\ source \in Nat
  BY DEF TInv, SourceOK, IInv
<1>2. source \in 0..source' /\ 0..source \subseteq 0..source'
  BY <1>1
<1>3. CASE answers' = answers
  BY <1>1, <1>2, <1>3 DEF Answers
<1>4. CASE \E r \in Requests : AskCheck(r) \/ AskInsert(r)
  BY <1>1, <1>2, <1>4 DEF AskCheck, AskInsert, Answers
<1> QED
  BY <1>3, <1>4, AnswersChange

LEMMA SourceStep ==
  ASSUME IInv, TInv, [Next]_vars
  PROVE  SourceOK' /\ source <= source'
<1>1. source \in 0..setting.changes /\ setting.changes \in Nat /\ setting' = setting
  BY SettingFacts, SpentStep DEF IInv, TInv, SourceOK
<1>2. stored' \in BOOLEAN
  BY StoredStep
<1>3. source' \in 0..setting.changes /\ source <= source'
  BY <1>1, SourceChange DEF ChangeSource
<1>4. answers' \in Answers'
  BY <1>1, <1>3, AnswersStep
<1> QED
  BY <1>1, <1>2, <1>3, <1>4 DEF SourceOK

\* What a job is created with is a pattern there is, or none.
LEMMA PatternsStep ==
  ASSUME IInv, TInv, [Next]_vars
  PROVE  PatternsOK' /\ DOMAIN patterns \subseteq DOMAIN patterns'
<1>0. patterns \in Seq(PatternStatus)
  BY DEF TInv, PatternsOK
<1>1. CASE patterns' = patterns
  BY <1>0, <1>1 DEF PatternsOK
<1>2. CASE \E r \in Requests : AskResource(r)
  <2>1. patterns' = Append(patterns, "empty") /\ "empty" \in PatternStatus
    BY <1>2 DEF AskResource, PatternStatus
  <2> QED
    BY <1>0, <2>1, SeqAppend DEF PatternsOK
<1>3. ASSUME NEW s \in Sweepers, FillPattern(s)
      PROVE  PatternsOK' /\ DOMAIN patterns \subseteq DOMAIN patterns'
  <2> DEFINE p == jobs[sweeps[s].job].pattern
             new == IF patterns[p] = "gone" THEN patterns[p] ELSE "filled"
  <2>1. patterns' = [patterns EXCEPT ![p] = new] /\ new \in PatternStatus
    BY <1>3 DEF FillPattern, PatternStatus
  <2>2. CASE p \in DOMAIN patterns
    BY <1>0, <2>1, <2>2, SeqUpdate DEF PatternsOK
  <2>3. CASE p \notin DOMAIN patterns
    <3>1. patterns' = patterns
      BY <1>0, <2>1, <2>3
    <3> QED
      BY <1>0, <3>1 DEF PatternsOK
  <2> QED
    BY <2>2, <2>3
<1>4. CASE \E s \in Sweepers : CreatePattern(s)
  <2>1. patterns' = Append(patterns, "filled") /\ "filled" \in PatternStatus
    BY <1>4 DEF CreatePattern, PatternStatus
  <2> QED
    BY <1>0, <2>1, SeqAppend DEF PatternsOK
<1>5. CASE \E p \in DOMAIN patterns : TypePattern(p) \/ DeletePattern(p)
  <2>1. PICK p \in DOMAIN patterns, new \in {"typed", "gone"} : patterns' = [patterns EXCEPT ![p] = new]
    BY <1>5 DEF TypePattern, DeletePattern
  <2>2. new \in PatternStatus
    BY DEF PatternStatus
  <2> QED
    BY <1>0, <2>1, <2>2, SeqUpdate DEF PatternsOK
<1> QED
  BY <1>1, <1>2, <1>3, <1>4, <1>5, PatternsChange

LEMMA JobsStep ==
  ASSUME IInv, TInv, [Next]_vars
  PROVE  JobsOK' /\ Rows \subseteq Rows'
<1> DEFINE R == [status : Statuses, lease : {"none", "fresh", "stale"}, pattern : DOMAIN patterns' \cup {Null}]
<1>0. jobs \in Seq(R) /\ DOMAIN patterns \subseteq DOMAIN patterns'
  <2>1. DOMAIN patterns \subseteq DOMAIN patterns' /\ jobs \in Seq(JobRow)
    BY PatternsStep DEF TInv, JobsOK
  <2>2. JobRow \subseteq R
    BY <2>1 DEF JobRow
  <2> HIDE DEF R
  <2> QED
    BY <2>1, <2>2, SeqWider
<1>1. \A j \in Rows : jobs[j] \in R
  <2> HIDE DEF R
  <2> QED
    BY <1>0, SeqWider DEF Rows
<1>2. R = JobRow'
  BY DEF JobRow
<1> HIDE DEF R
<1>3. CASE jobs' = jobs
  BY <1>0, <1>2, <1>3 DEF JobsOK, Rows
<1>4. ASSUME NEW r \in Requests, AskInsert(r) PROVE JobsOK' /\ Rows \subseteq Rows'
  <2> DEFINE new == Queued(requests[r].pattern)
  <2>1. jobs' = Append(jobs, new) /\ requests[r].op = "ask"
    BY <1>4 DEF AskInsert, At
  <2>2. requests[r].pattern \in DOMAIN patterns \cup {Null}
    BY <2>1 DEF TInv, AsksOK, AskOK, Idle
  <2>3. new \in R
    BY <1>0, <2>2 DEF Queued, Statuses, R
  <2> QED
    BY <1>0, <1>2, <2>1, <2>3, SeqAppend DEF JobsOK, Rows
<1>5. ASSUME NEW j \in Rows, NEW status \in Statuses, SetStatus(j, status) PROVE JobsOK' /\ Rows \subseteq Rows'
  <2> DEFINE new == [jobs[j] EXCEPT !.status = status]
  <2>1. jobs' = [jobs EXCEPT ![j] = new] /\ new \in R
    BY <1>1, <1>5 DEF SetStatus, R
  <2> QED
    BY <1>0, <1>2, <2>1, SeqUpdate DEF JobsOK, Rows
<1>6. ASSUME NEW r \in Requests, StatusWrite(r) PROVE JobsOK' /\ Rows \subseteq Rows'
  <2>1. SetStatus(requests[r].job, requests[r].next) /\ requests[r].op = "status"
    BY <1>6 DEF StatusWrite
  <2>2. requests[r].job \in Rows /\ requests[r].next \in Statuses
    BY <2>1 DEF TInv, AsksOK, AskOK, Idle
  <2> QED
    BY <1>5, <2>1, <2>2
<1>7. ASSUME NEW s \in Sweepers, Settle(s) PROVE JobsOK' /\ Rows \subseteq Rows'
  <2>1. PICK status \in Statuses : SetStatus(sweeps[s].job, status)
    BY <1>7 DEF Settle, Statuses
  <2>2. sweeps[s].job \in Rows
    BY <1>7 DEF Settle, In, TInv, WorksOK, WorkOK, Off
  <2> QED
    BY <1>5, <2>1, <2>2
<1>8. ASSUME NEW s \in Sweepers, NEW j \in Rows, SweepMark(s, j) PROVE JobsOK' /\ Rows \subseteq Rows'
  <2> DEFINE new == [jobs[j] EXCEPT !.status = "processing", !.lease = "fresh"]
  <2>1. jobs' = [jobs EXCEPT ![j] = new]
    BY <1>8 DEF SweepMark
  <2>2. new \in R
    BY <1>1 DEF R, Statuses
  <2> QED
    BY <1>0, <1>2, <2>1, <2>2, SeqUpdate DEF JobsOK, Rows
<1>9. ASSUME NEW j \in Rows, Expire(j) PROVE JobsOK' /\ Rows \subseteq Rows'
  <2> DEFINE new == [jobs[j] EXCEPT !.lease = "stale"]
  <2>1. jobs' = [jobs EXCEPT ![j] = new]
    BY <1>9 DEF Expire
  <2>2. new \in R
    BY <1>1 DEF R
  <2> QED
    BY <1>0, <1>2, <2>1, <2>2, SeqUpdate DEF JobsOK, Rows
<1> QED
  BY <1>3, <1>4, <1>6, <1>7, <1>8, <1>9, JobsChange
LEMMA SweepsChange ==
  ASSUME [Next]_vars
  PROVE  \/ sweeps' = sweeps
         \/ Crash
         \/ \E s \in Sweepers : SweepBegin(s) \/ SweepWork(s) \/ StepFails(s)
BY DEF Next, Request, ChangeSource, Ask, AskCheck, AskSave, AskRecheck, AskFails, AskDrop, AskResource,
   AskInsert, StatusRead, StatusWrite, Teacher, EditRow, AcceptRow, DiscardRow, Rewrite, TypePattern,
   DeletePattern, Expire, vars

\* A sweep at work goes on with its job and its list.
Goes(s, next) ==
  /\ ~In(s, "off") /\ ~In(s, "pick")
  /\ Put(s, next)
  /\ next.stage \in Stages \ {"pick"} /\ next.todo = sweeps[s].todo /\ next.job = sweeps[s].job

LEMMA GoOnGoes ==
  ASSUME IInv, NEW s \in Sweepers, ~In(s, "off"), ~In(s, "pick"), NEW stage \in Stages \ {"pick"}, GoOn(s, stage)
  PROVE  Goes(s, [sweeps[s] EXCEPT !.stage = stage])
<1>1. IsWork(sweeps[s])
  BY AtWork
<1> QED
  BY <1>1 DEF Goes, GoOn, IsWork

LEMMA ForgetGoes ==
  ASSUME NEW s \in Sweepers, ~In(s, "off"), ~In(s, "pick"), NEW stage \in Stages \ {"pick"}, Forget(s, stage)
  PROVE  Goes(s, [stage |-> stage, todo |-> sweeps[s].todo, job |-> sweeps[s].job, seen |-> Null])
BY DEF Goes, Forget

\* Every step of a sweep but its first, its choice of a job and its last.
LEMMA WorkGoes ==
  ASSUME IInv, NEW s \in Sweepers, SweepWork(s) \/ WorkFails(s), ~Settle(s), \A j \in Rows : ~SweepMark(s, j)
  PROVE  \E next : Goes(s, next)
<1>0. {"source", "drop", "latest", "purge", "select", "unlink", "delete", "existing", "placeholder",
       "insert", "fill", "create", "complete", "fail"} = Stages \ {"pick"}
  BY DEF Stages
<1>1. FromSource \in Stages \ {"pick"}
  <2>1. setting.kind \in Kinds
    BY SettingFacts DEF IInv, Kind
  <2> QED
    BY <2>1 DEF FromSource, Kinds, Stages
<1>2. CASE ReadSource(s)
  <2> DEFINE stage == IF ~setting.file THEN FromSource ELSE IF stored THEN "drop" ELSE "fail"
             next == [sweeps[s] EXCEPT !.stage = stage, !.seen = source]
  <2>1. IsWork(sweeps[s]) /\ ~In(s, "off") /\ ~In(s, "pick")
    BY <1>2, AtWork DEF ReadSource, In
  <2>2. stage \in Stages \ {"pick"}
    BY <1>1 DEF Stages
  <2>3. Goes(s, next)
    BY <1>2, <2>1, <2>2 DEF Goes, IsWork, ReadSource
  <2> QED
    BY <2>3
<1>3. CASE DropFile(s)
  BY <1>1, <1>3, GoOnGoes DEF DropFile, In
<1>4. CASE ReadLatest(s)
  <2> DEFINE next == [stage |-> IF Unchanged(sweeps[s].seen) THEN "complete" ELSE "insert",
                      todo |-> sweeps[s].todo, job |-> sweeps[s].job, seen |-> sweeps[s].seen,
                      version |-> Len(versions) + 1]
  <2>1. Goes(s, next)
    BY <1>4 DEF Goes, ReadLatest, In, Stages
  <2> QED
    BY <2>1
<1>5. CASE InsertEnhancement(s)
  BY <1>0, <1>5, GoOnGoes, ForgetGoes DEF InsertEnhancement, On, In
<1>6. CASE Purge(s)
  BY <1>0, <1>6, GoOnGoes DEF Purge, In
<1>7. CASE SelectStale(s)
  <2> DEFINE ids == {Id(row) : row \in Stale(sweeps[s].job)}
             next == [sweeps[s] EXCEPT !.stage = IF ids = {} THEN "insert" ELSE "unlink", !.seen = ids]
  <2>1. IsWork(sweeps[s]) /\ ~In(s, "off") /\ ~In(s, "pick")
    BY <1>7, AtWork DEF SelectStale, In
  <2>2. Goes(s, next)
    BY <1>7, <2>1 DEF Goes, IsWork, SelectStale, Stages
  <2> QED
    BY <2>2
<1>8. CASE Unlink(s)
  BY <1>0, <1>8, GoOnGoes DEF Unlink, In
<1>9. CASE DeleteStale(s)
  BY <1>0, <1>9, ForgetGoes DEF DeleteStale, In
<1>10. CASE InsertRows(s)
  BY <1>0, <1>10, GoOnGoes DEF InsertRows, In
<1>11. CASE ReadPatterns(s) \/ ReadPlaceholder(s)
  <2>1. PICK stage \in {"complete", "placeholder", "fill", "create"} : GoOn(s, stage)
    BY <1>11 DEF ReadPatterns, ReadPlaceholder
  <2> QED
    BY <1>0, <1>11, <2>1, GoOnGoes DEF ReadPatterns, ReadPlaceholder, In
<1>12. CASE FillPattern(s)
  BY <1>0, <1>12, GoOnGoes DEF FillPattern, In
<1>13. CASE CreatePattern(s)
  BY <1>0, <1>13, GoOnGoes DEF CreatePattern, In
<1>14. CASE WorkFails(s)
  BY <1>0, <1>14, ForgetGoes DEF WorkFails
<1> QED
  BY <1>2, <1>3, <1>4, <1>5, <1>6, <1>7, <1>8, <1>9, <1>10, <1>11, <1>12, <1>13, <1>14 DEF SweepWork

\* The jobs there are remain.
LEMMA WorkGrows ==
  ASSUME Rows \subseteq Rows', NEW s \in Sweepers, NEW w, WorkOK(w)
  PROVE  sweeps'[s] = w => WorkOK(sweeps[s])'
BY DEF WorkOK

LEMMA WorksStep ==
  ASSUME IInv, TInv, [Next]_vars
  PROVE  WorksOK'
<1>0. Rows \subseteq Rows' /\ sweeps = [s \in Sweepers |-> sweeps[s]] /\ \A s \in Sweepers : WorkOK(sweeps[s])
  BY JobsStep DEF IInv, TInv, WorksOK
<1>1. ASSUME NEW s \in Sweepers, NEW next, Put(s, next), WorkOK(next) PROVE WorksOK'
  <2>1. sweeps'[s] = next /\ \A t \in Sweepers \ {s} : sweeps'[t] = sweeps[t]
    BY <1>0, <1>1 DEF Put
  <2> QED
    BY <1>0, <1>1, <2>1, WorkGrows DEF WorksOK
<1>2. CASE sweeps' = sweeps
  BY <1>0, <1>2, WorkGrows DEF WorksOK
<1>3. CASE Crash
  BY <1>3 DEF Crash, WorksOK, WorkOK
<1>4. ASSUME NEW s \in Sweepers, SweepBegin(s) PROVE WorksOK'
  <2> DEFINE next == [stage |-> "pick", todo |-> {j \in Rows : Adoptable(j)}]
  <2>1. Put(s, next) /\ WorkOK(next)
    BY <1>4 DEF SweepBegin, WorkOK, Stages
  <2> QED
    BY <1>1, <2>1
<1>5. ASSUME NEW s \in Sweepers, NEW j \in Rows, SweepMark(s, j) PROVE WorksOK'
  <2> DEFINE next == [stage |-> "source", todo |-> sweeps[s].todo \ {j}, job |-> j, seen |-> Null]
  <2>1. sweeps[s].todo \subseteq Rows
    BY <1>0, <1>5 DEF SweepMark, WorkOK, In, Off
  <2>2. Put(s, next) /\ WorkOK(next)
    BY <1>5, <2>1 DEF SweepMark, WorkOK, Stages
  <2> QED
    BY <1>1, <2>2
<1>6. ASSUME NEW s \in Sweepers, Settle(s) PROVE WorksOK'
  <2>1. sweeps[s].todo \subseteq Rows
    BY <1>0, <1>6 DEF Settle, WorkOK, In, Off
  <2>2. Put(s, NextJob(s)) /\ WorkOK(NextJob(s))
    BY <1>6, <2>1 DEF Settle, NextJob, WorkOK, Stages
  <2> QED
    BY <1>1, <2>2
<1>7. ASSUME NEW s \in Sweepers, NEW next, Goes(s, next) PROVE WorksOK'
  <2>1. sweeps[s].todo \subseteq Rows /\ sweeps[s].job \in Rows \ sweeps[s].todo
    BY <1>0, <1>7 DEF Goes, WorkOK, In, Off
  <2>2. Put(s, next) /\ WorkOK(next)
    BY <1>7, <2>1 DEF Goes, WorkOK
  <2> QED
    BY <1>1, <2>2
<1>8. ASSUME NEW s \in Sweepers, NEW j \in Rows, MarkFails(s, j) PROVE WorksOK'
  <2> DEFINE next == [stage |-> "fail", todo |-> sweeps[s].todo \ {j}, job |-> j, seen |-> Null]
  <2>1. sweeps[s].todo \subseteq Rows
    BY <1>0, <1>8 DEF MarkFails, WorkOK, In, Off
  <2>2. Put(s, next) /\ WorkOK(next)
    BY <1>8, <2>1 DEF MarkFails, WorkOK, Stages
  <2> QED
    BY <1>1, <2>2
<1>9. ASSUME NEW s \in Sweepers, SweepBegin(s) \/ SweepWork(s) \/ StepFails(s) PROVE WorksOK'
  BY <1>4, <1>5, <1>6, <1>7, <1>8, <1>9, WorkGoes DEF StepFails
<1> QED
  BY <1>2, <1>3, <1>9, SweepsChange

-----------------------------------------------------------------------------

LEMMA RequestsChange ==
  ASSUME [Next]_vars
  PROVE  \/ requests' = requests
         \/ Crash
         \/ \E r \in Requests : Request(r)
BY DEF Next, SweepBegin, SweepWork, StepFails, SweepMark, ReadSource, DropFile,
   ReadLatest, InsertEnhancement, Purge, SelectStale, Unlink, DeleteStale, InsertRows, ReadPatterns, ReadPlaceholder,
   FillPattern, CreatePattern, Settle, Teacher, EditRow, AcceptRow, DiscardRow, Rewrite, TypePattern,
   DeletePattern, Expire, vars

LEMMA AskGrows ==
  ASSUME Rows \subseteq Rows', DOMAIN patterns \subseteq DOMAIN patterns', setting' = setting,
         NEW r \in Requests, NEW q, AskOK(q)
  PROVE  requests'[r] = q => AskOK(requests[r])'
BY DEF AskOK, Idle, AskStages, Kind, Statuses

LEMMA AsksStep ==
  ASSUME IInv, TInv, [Next]_vars
  PROVE  AsksOK'
<1>0. /\ Rows \subseteq Rows' /\ DOMAIN patterns \subseteq DOMAIN patterns' /\ setting' = setting
      /\ requests = [r \in Requests |-> requests[r]] /\ \A r \in Requests : AskOK(requests[r])
      /\ Kind \in Kinds /\ (setting.file => Kind \in {"paper", "pattern"})
  BY JobsStep, PatternsStep, SpentStep, SettingFacts DEF IInv, TInv, AsksOK
<1>1. ASSUME NEW r \in Requests, NEW next, Goto(r, next), requests'[r] = next => AskOK(requests[r])' PROVE AsksOK'
  <2>1. requests'[r] = next /\ \A p \in Requests \ {r} : requests'[p] = requests[p]
    BY <1>0, <1>1 DEF Goto
  <2>2. requests' = [p \in Requests |-> requests'[p]]
    BY <1>0, <1>1 DEF Goto
  <2> QED
    BY <1>0, <1>1, <2>1, <2>2, AskGrows DEF AsksOK
<1>2. ASSUME NEW r \in Requests, NEW next, Goto(r, next), AskOK(next) PROVE AsksOK'
  BY <1>0, <1>1, <1>2, AskGrows
<1>3. CASE requests' = requests
  BY <1>0, <1>3, AskGrows DEF AsksOK
<1>4. CASE Crash
  BY <1>4 DEF Crash, AsksOK, AskOK
<1>5. AskOK(Idle)
  BY DEF AskOK
<1>6. ASSUME NEW r \in Requests, NEW stage \in AskStages, GotoStage(r, stage), requests[r].op = "ask",
             Kind = "enhance" => stage = "insert"
      PROVE  AsksOK'
  <2> DEFINE next == [requests[r] EXCEPT !.stage = stage]
  <2>1. AskOK(requests[r]) /\ requests[r] # Idle
    BY <1>0, <1>6 DEF Idle
  <2>2. AskOK(next)
    BY <1>6, <2>1 DEF AskOK
  <2> QED
    BY <1>2, <1>6, <2>2 DEF GotoStage
<1>7. ASSUME NEW r \in Requests, ChangeSource(r) \/ Ask(r) PROVE AsksOK'
  <2> DEFINE next == [op |-> "ask", stage |-> "check", pattern |-> Null]
  <2>1. Goto(r, next) /\ AskOK(next)
    BY <1>7 DEF ChangeSource, Ask, AskOK, AskStages
  <2> QED
    BY <1>2, <2>1
<1>8. ASSUME NEW r \in Requests, AskCheck(r) PROVE AsksOK'
  <2>1. CASE End(r)
    BY <1>2, <1>5, <2>1 DEF End
  <2>2. CASE ~End(r)
    <3>1. /\ GotoStage(r, IF setting.file THEN "save" ELSE FromCheck) /\ requests[r].op = "ask"
      BY <1>8, <2>2 DEF AskCheck, At
    <3> QED
      BY <1>0, <1>6, <3>1 DEF FromCheck, AskStages, Kind
  <2> QED
    BY <2>1, <2>2
<1>9. ASSUME NEW r \in Requests, AskSave(r) \/ AskRecheck(r) PROVE AsksOK'
  <2>1. requests[r].op = "ask" /\ requests[r].stage \in AskStages
    BY <1>9 DEF AskSave, AskRecheck, At, AskStages
  <2>2. Kind # "enhance"
    <3>1. requests[r].stage \in {"save", "recheck"}
      BY <1>9 DEF AskSave, AskRecheck, At
    <3> QED
      BY <1>0, <2>1, <3>1 DEF AskOK, Idle
  <2>3. PICK stage \in AskStages : GotoStage(r, stage)
    BY <1>9 DEF AskSave, AskRecheck, FromCheck, AskStages
  <2> QED
    BY <1>6, <2>1, <2>2, <2>3
<1>10. ASSUME NEW r \in Requests, AskDrop(r) \/ AskInsert(r) \/ StatusWrite(r) PROVE AsksOK'
  BY <1>2, <1>5, <1>10 DEF AskDrop, AskInsert, StatusWrite, End
<1>11. ASSUME NEW r \in Requests, AskResource(r) PROVE AsksOK'
  <2> DEFINE next == [requests[r] EXCEPT !.stage = "insert", !.pattern = Len(patterns) + 1]
  <2>1. AskOK(requests[r]) /\ requests[r].op = "ask" /\ requests[r] # Idle
    BY <1>0, <1>11 DEF AskResource, At, Idle
  <2>2. Len(patterns) + 1 \in DOMAIN patterns'
    <3>1. patterns' = Append(patterns, "empty") /\ patterns \in Seq(PatternStatus) /\ "empty" \in PatternStatus
      BY <1>11 DEF AskResource, TInv, PatternsOK, PatternStatus
    <3> QED
      BY <3>1, SeqAppend
  <2>3. /\ DOMAIN next = DOMAIN requests[r] /\ next.op = "ask" /\ next.stage = "insert"
        /\ next.pattern = Len(patterns) + 1
    BY <2>1 DEF AskOK
  <2> HIDE DEF next
  <2>4. requests'[r] = next => AskOK(requests[r])'
    BY <2>1, <2>2, <2>3 DEF AskOK, AskStages
  <2> QED
    BY <1>1, <1>11, <2>4 DEF AskResource, next
<1>12. ASSUME NEW r \in Requests, NEW j \in Rows, StatusRead(r, j) PROVE AsksOK'
  <2> DEFINE next == [op |-> "status", job |-> j, next |-> NextStatus(jobs[j].status)]
  <2>1. NextStatus(jobs[j].status) \in Statuses \ {"completed"}
    BY DEF NextStatus, Statuses
  <2>2. AskOK(next)
    BY <2>1 DEF AskOK
  <2> QED
    BY <1>2, <1>12, <2>2 DEF StatusRead
<1>13. ASSUME NEW r \in Requests, AskFails(r) PROVE AsksOK'
  <2>1. CASE End(r)
    BY <1>2, <1>5, <2>1 DEF End
  <2>2. CASE ~End(r)
    <3>1. /\ GotoStage(r, "drop") /\ requests[r].op = "ask" /\ setting.file
      BY <1>13, <2>2 DEF AskFails
    <3> QED
      BY <1>0, <1>6, <3>1 DEF AskStages
  <2> QED
    BY <2>1, <2>2
<1> QED
  BY <1>3, <1>4, <1>7, <1>8, <1>9, <1>10, <1>11, <1>12, <1>13, RequestsChange DEF Request
-----------------------------------------------------------------------------

LEMMA RowsStep ==
  ASSUME IInv, TInv, [Next]_vars
  PROVE  RowsOK'
<1>0. made \in Nat /\ rows \subseteq Row /\ handled \subseteq Items /\ Rows \subseteq Rows'
  BY JobsStep DEF TInv, RowsOK
<1>1. CASE UNCHANGED <<rows, made, handled>>
  BY <1>0, <1>1 DEF RowsOK, Row, Editors
<1>2. ASSUME NEW s \in Sweepers, Purge(s) \/ DeleteStale(s) PROVE RowsOK'
  <2>1. rows' \subseteq rows /\ made' = made /\ handled' = handled
    BY <1>2 DEF Purge, DeleteStale
  <2> QED
    BY <1>0, <2>1 DEF RowsOK, Row, Editors
<1>3. ASSUME NEW s \in Sweepers, Unlink(s) PROVE RowsOK'
  <2>1. /\ rows' = {IF Id(row) \in sweeps[s].seen THEN [row EXCEPT !.linked = FALSE] ELSE row : row \in rows}
        /\ made' = made /\ handled' = handled
    BY <1>3 DEF Unlink
  <2>2. \A row \in rows : [row EXCEPT !.linked = FALSE] \in Row
    BY <1>0 DEF Row
  <2>3. rows' \subseteq Row
    BY <1>0, <2>1, <2>2
  <2> QED
    BY <1>0, <2>1, <2>3 DEF RowsOK, Row, Editors
<1>4. ASSUME NEW s \in Sweepers, InsertRows(s) PROVE RowsOK'
  <2>1. rows' = rows \cup Extracted(s) /\ made' = made + 1 /\ handled' = handled
    BY <1>4 DEF InsertRows
  <2>2. sweeps[s].job \in Rows
    BY <1>4 DEF InsertRows, In, TInv, WorksOK, WorkOK, Off
  <2>3. made + 1 \in 1..(made + 1) /\ 1..made \subseteq 1..(made + 1)
    BY <1>0
  <2>4. Extracted(s) \subseteq Row'
    BY <1>0, <2>1, <2>2, <2>3 DEF Extracted, Row, Editors
  <2>5. rows \subseteq Row'
    BY <1>0, <2>1, <2>3 DEF Row, Editors
  <2> QED
    BY <1>0, <2>1, <2>4, <2>5 DEF RowsOK
<1>5. ASSUME NEW row \in rows, NEW new, new \subseteq Row, Rewrite(row, new) PROVE RowsOK'
  <2>1. rows' \subseteq Row /\ made' = made /\ handled' \subseteq Items
    BY <1>0, <1>5 DEF Rewrite, Row
  <2> QED
    BY <1>0, <2>1 DEF RowsOK, Row, Editors
<1>6. ASSUME NEW row \in rows, DiscardRow(row) PROVE RowsOK'
  BY <1>5, <1>6 DEF DiscardRow
<1>7. ASSUME NEW row \in rows, NEW who \in Editors, EditRow(row, who) \/ AcceptRow(row, who) PROVE RowsOK'
  <2>1. [row EXCEPT !.editor = who] \in Row /\ [row EXCEPT !.editor = who, !.status = "ACTIVE"] \in Row
    BY <1>0 DEF Row
  <2> QED
    BY <1>5, <1>7, <2>1 DEF EditRow, AcceptRow
<1> QED
  BY <1>1, <1>2, <1>3, <1>4, <1>6, <1>7, RowsChange

LEMMA TypesInitially == Init => TInv
<1> SUFFICES ASSUME Init PROVE TInv
  OBVIOUS
<1>1. jobs = <<Queued(Null)>> \/ jobs = <<>>
  BY DEF Init
<1>2. Queued(Null) \in JobRow
  BY DEF Queued, JobRow, Statuses
<1>3. JobsOK
  <2> HIDE DEF JobRow
  <2>1. CASE jobs = <<>>
    BY <2>1 DEF JobsOK
  <2>2. CASE jobs = <<Queued(Null)>>
    <3>1. PICK new \in JobRow : jobs = <<new>>
      BY <1>2, <2>2
    <3>2. jobs \in Seq(JobRow)
      BY <3>1
    <3> QED
      BY <3>2 DEF JobsOK
  <2> QED
    BY <1>1, <2>1, <2>2
<1>4. setting.changes \in Nat /\ \A what \in Budgets : setting[what] \in Nat
  BY SettingFacts DEF Init
<1>5. SourceOK /\ SpentOK
  <2>1. /\ spent = [what \in Budgets |-> 0] /\ source = 0 /\ stored = FALSE
        /\ answers = [given |-> 0, sound |-> 0]
    BY DEF Init, Budgets
  <2>2. SourceOK
    <3>1. 0 \in 0..setting.changes
      BY <1>4
    <3>2. source \in 0..setting.changes
      BY <2>1, <3>1, Zenon
    <3>3. stored \in BOOLEAN
      BY <2>1, Zenon
    <3>4. answers \in Answers
      BY <2>1 DEF Answers
    <3> QED
      BY <3>2, <3>3, <3>4 DEF SourceOK
  <2>3. \A what \in Budgets : spent[what] = 0
    BY <2>1
  <2>4. spent = [what \in Budgets |-> spent[what]]
    BY <2>1
  <2> QED
    BY <1>4, <2>2, <2>3, <2>4 DEF SpentOK
<1>6. WorksOK /\ AsksOK /\ RowsOK /\ PatternsOK
  BY DEF Init, WorksOK, WorkOK, AsksOK, AskOK, RowsOK, PatternsOK
<1> QED
  BY <1>3, <1>5, <1>6 DEF TInv

LEMMA TypesStep == IInv /\ TInv /\ [Next]_vars => TInv'
BY JobsStep, WorksStep, AsksStep, SourceStep, RowsStep, PatternsStep, SpentStep DEF TInv

LEMMA TypesInvariance == Spec => [](IInv /\ TInv)
<1>1. Init => IInv /\ TInv
  BY Initially, TypesInitially
<1>2. IInv /\ TInv /\ [Next]_vars => (IInv /\ TInv)'
  BY NextStep, TypesStep
<1> QED
  BY <1>1, <1>2, PTL DEF Spec

\* A sweep and a request hold what their stage needs, and every row belongs to a job: nothing
\* dangles, whatever is interrupted.
THEOREM TypeCorrect == Spec => []TypeOK
<1>1. IInv /\ TInv => TypeOK
  <2> SUFFICES ASSUME IInv, TInv PROVE TypeOK
    OBVIOUS
  <2>1. \A r \in Requests : requests[r].op = "status" => requests[r].job \in Rows
    BY DEF TInv, AsksOK, AskOK, Idle
  <2>2. \A what \in DOMAIN spent : spent[what] \in 0..setting[what]
    BY DEF TInv, SpentOK
  <2> QED
    BY <2>1, <2>2 DEF IInv, TInv, JobsOK, JobRow, WorksOK, WorkOK, SourceOK, Answers, RowsOK, Row, PatternsOK,
       PatternStatus, TypeOK
<1> QED
  BY <1>1, TypesInvariance, PTL
-----------------------------------------------------------------------------
(* What a run that is swept again leaves.                                  *)

Extracts == Kind \in {"extract", "paper"}

\* A run has every question no teacher has handled, or none of them.
Has(j) == \A i \in Items \ handled : \E row \in rows : row.job = j /\ row.item = i
HasNone(j) == \A row \in rows : row.job = j => row.item \in handled
Unfilled == \A p \in DOMAIN patterns : patterns[p] # "filled"

\* What nobody has handled is as it was extracted, and a batch is of one job.
Untouched ==
  /\ \A row \in rows : row.item \notin handled => row.status = "REVIEW" /\ row.editor = "owner"
  /\ \A p, q \in rows : p.batch = q.batch => p.job = q.job

\* Between its purge and its result a sweep's job has nothing; once it has inserted, all.
ResultOK(w) ==
  w.stage \in Stages \ {"pick"} =>
    /\ jobs[w.job].status # "completed"
    /\ w.stage = "insert" /\ Extracts => HasNone(w.job)
    /\ w.stage \in {"unlink", "delete"} =>
         \A row \in rows : /\ row.job = w.job /\ row.item \notin handled => Id(row) \in w.seen
                           /\ Id(row) \in w.seen => row.job = w.job
    /\ w.stage = "complete" /\ Extracts => Has(w.job)
    /\ w.stage \in {"placeholder", "fill", "create"} => Unfilled

Unique == \A p, q \in rows : p.job = q.job /\ p.item = q.item /\ p.item \notin handled => p = q
CompleteRuns == \A j \in Rows : Extracts /\ jobs[j].status = "completed" => Has(j)
OnePattern == \A p, q \in DOMAIN patterns : patterns[p] = "filled" /\ patterns[q] = "filled" => p = q
ResultsOK == \A s \in Sweepers : ResultOK(sweeps[s])

\* A sweep's list is of jobs it has not completed.
Awaited == \A s \in Sweepers : sweeps[s] # Off => \A j \in sweeps[s].todo : jobs[j].status # "completed"

RInv ==
  /\ Untouched
  /\ ~setting.overlap => Unique /\ CompleteRuns /\ OnePattern /\ ResultsOK /\ Awaited

\* What a teacher does to a row.
LEMMA RewriteFacts ==
  ASSUME TInv, NEW row \in rows,
         DiscardRow(row) \/ \E who \in Editors : EditRow(row, who) \/ AcceptRow(row, who)
  PROVE  /\ handled' = handled \cup {row.item}
         /\ \A p \in rows' : p.item \notin handled' => p \in rows
         /\ \A p \in rows : p.item \notin handled' => p \in rows'
         /\ \A p \in rows' : \E q \in rows : q.batch = p.batch /\ q.item = p.item /\ q.job = p.job
<1>1. PICK new : /\ Rewrite(row, new)
                 /\ \A p \in new : p.batch = row.batch /\ p.item = row.item /\ p.job = row.job
  <2>1. CASE DiscardRow(row)
    BY <2>1 DEF DiscardRow
  <2>2. ASSUME NEW who \in Editors, EditRow(row, who) \/ AcceptRow(row, who)
        PROVE  \E new : /\ Rewrite(row, new)
                        /\ \A p \in new : p.batch = row.batch /\ p.item = row.item /\ p.job = row.job
    <3>1. row \in Row
      BY DEF TInv, RowsOK
    <3> DEFINE edited == {[row EXCEPT !.editor = who]}
               accepted == {[row EXCEPT !.editor = who, !.status = "ACTIVE"]}
    <3>2. \A p \in edited \cup accepted : p.batch = row.batch /\ p.item = row.item /\ p.job = row.job
      BY <3>1 DEF Row
    <3>3. Rewrite(row, edited) \/ Rewrite(row, accepted)
      BY <2>2 DEF EditRow, AcceptRow
    <3> HIDE DEF edited, accepted
    <3> QED
      BY <3>2, <3>3
  <2> QED
    BY <2>1, <2>2
<1>2. rows' = (rows \ {row}) \cup new /\ handled' = handled \cup {row.item}
  BY <1>1 DEF Rewrite
<1> QED
  BY <1>1, <1>2

LEMMA UnlinkFacts ==
  ASSUME TInv, NEW s, Unlink(s)
  PROVE  \E f \in [rows -> rows'] :
           /\ \A p \in rows' : \E row \in rows : p = f[row]
           /\ \A row \in rows : /\ f[row].batch = row.batch /\ f[row].item = row.item /\ f[row].job = row.job
                                /\ f[row].status = row.status /\ f[row].editor = row.editor
<1> DEFINE g(row) == IF Id(row) \in sweeps[s].seen THEN [row EXCEPT !.linked = FALSE] ELSE row
           f == [row \in rows |-> g(row)]
<1>1. rows' = {g(row) : row \in rows}
  BY DEF Unlink
<1>2. f \in [rows -> rows'] /\ \A p \in rows' : \E row \in rows : p = f[row]
  BY <1>1
<1>3. ASSUME NEW row \in rows
      PROVE  /\ f[row].batch = row.batch /\ f[row].item = row.item /\ f[row].job = row.job
             /\ f[row].status = row.status /\ f[row].editor = row.editor
  <2>1. row \in Row
    BY DEF TInv, RowsOK
  <2> QED
    BY <2>1 DEF Row
<1> QED
  BY <1>2, <1>3

LEMMA InsertFacts ==
  ASSUME IInv, TInv, NEW s \in Sweepers, InsertRows(s)
  PROVE  /\ rows' = rows \cup Extracted(s) /\ handled' = handled /\ Extracts /\ In(s, "insert")
         /\ \A p \in Extracted(s) : /\ p.batch = made + 1 /\ p.job = sweeps[s].job
                                    /\ p.status = "REVIEW" /\ p.editor = "owner"
         /\ \A p, q \in Extracted(s) : p.item = q.item => p = q
         /\ \A i \in Items : \E p \in Extracted(s) : p.item = i
         /\ \A row \in rows : row.batch # made + 1
<1>1. \A row \in rows : row.batch \in 1..made /\ made \in Nat
  BY DEF TInv, RowsOK, Row
<1>2. \A row \in rows : row.batch # made + 1
  BY <1>1
<1>3. \A i \in Items : \E p \in Extracted(s) : p.item = i
  <2> SUFFICES ASSUME NEW i \in Items PROVE \E p \in Extracted(s) : p.item = i
    OBVIOUS
  <2> DEFINE p == [batch |-> made + 1, job |-> sweeps[s].job, item |-> i, status |-> "REVIEW",
                   editor |-> "owner", linked |-> (setting.kind = "paper")]
  <2>1. p \in Extracted(s) /\ p.item = i
    BY DEF Extracted
  <2> QED
    BY <2>1
<1>4. \A p, q \in Extracted(s) : p.item = q.item => p = q
  BY DEF Extracted
<1> QED
  BY <1>2, <1>3, <1>4 DEF InsertRows, Extracted, Extracts, Kind

LEMMA UntouchedStep ==
  ASSUME IInv, TInv, RInv, [Next]_vars
  PROVE  Untouched'
<1>1. CASE UNCHANGED <<rows, made, handled>>
  BY <1>1 DEF RInv, Untouched
<1>2. ASSUME NEW s \in Sweepers, Purge(s) \/ DeleteStale(s) PROVE Untouched'
  BY <1>2 DEF RInv, Untouched, Purge, DeleteStale
<1>3. ASSUME NEW s \in Sweepers, Unlink(s) PROVE Untouched'
  <2>1. handled' = handled
    BY <1>3 DEF Unlink
  <2> QED
    BY <1>3, <2>1, UnlinkFacts DEF RInv, Untouched
<1>4. ASSUME NEW s \in Sweepers, InsertRows(s) PROVE Untouched'
  BY <1>4, InsertFacts DEF RInv, Untouched
<1>5. ASSUME NEW row \in rows, DiscardRow(row) \/ \E who \in Editors : EditRow(row, who) \/ AcceptRow(row, who)
      PROVE  Untouched'
  BY <1>5, RewriteFacts DEF RInv, Untouched
<1> QED
  BY <1>1, <1>2, <1>3, <1>4, <1>5, RowsChange
\* Unless sweeps overlap one at most is under way.
LEMMA OthersOff ==
  ASSUME IInv, ~setting.overlap, NEW s \in Sweepers, sweeps[s] # Off, NEW t \in Sweepers, t # s
  PROVE  sweeps[t] = Off
BY DEF IInv

LEMMA AtResult ==
  ASSUME IInv, TInv, RInv, ~setting.overlap, NEW s \in Sweepers, ~In(s, "off"), ~In(s, "pick")
  PROVE  /\ IsWork(sweeps[s]) /\ sweeps[s].stage \in Stages \ {"pick"} /\ sweeps[s] # Off
         /\ sweeps[s].job \in Rows /\ ResultOK(sweeps[s])
BY AtWork DEF TInv, WorksOK, WorkOK, RInv, ResultsOK, IsWork

LEMMA UniqueStep ==
  ASSUME IInv, TInv, RInv, [Next]_vars, ~setting.overlap
  PROVE  Unique'
<1>1. CASE UNCHANGED <<rows, made, handled>>
  BY <1>1 DEF RInv, Unique
<1>2. ASSUME NEW s \in Sweepers, Purge(s) \/ DeleteStale(s) PROVE Unique'
  BY <1>2 DEF RInv, Unique, Purge, DeleteStale
<1>3. ASSUME NEW s \in Sweepers, Unlink(s) PROVE Unique'
  <2>1. handled' = handled
    BY <1>3 DEF Unlink
  <2> QED
    BY <1>3, <2>1, UnlinkFacts DEF RInv, Unique
<1>4. ASSUME NEW s \in Sweepers, InsertRows(s) PROVE Unique'
  <2>1. HasNone(sweeps[s].job)
    <3>1. In(s, "insert") /\ Extracts /\ ~In(s, "off") /\ ~In(s, "pick")
      BY <1>4, InsertFacts DEF In
    <3> QED
      BY <3>1, AtResult DEF ResultOK, In
  <2> QED
    BY <1>4, <2>1, InsertFacts DEF RInv, Unique, HasNone
<1>5. ASSUME NEW row \in rows, DiscardRow(row) \/ \E who \in Editors : EditRow(row, who) \/ AcceptRow(row, who)
      PROVE  Unique'
  BY <1>5, RewriteFacts DEF RInv, Unique
<1> QED
  BY <1>1, <1>2, <1>3, <1>4, <1>5, RowsChange

\* A run no sweep is purging keeps its questions.
LEMMA HasKept ==
  ASSUME IInv, TInv, RInv, [Next]_vars, ~setting.overlap, NEW j, Has(j),
         \A s \in Sweepers : sweeps[s].stage \in {"purge", "delete"} => sweeps[s].job # j
  PROVE  Has(j)'
<1>1. CASE UNCHANGED <<rows, made, handled>>
  BY <1>1 DEF Has
<1>2. ASSUME NEW s \in Sweepers, Purge(s) PROVE Has(j)'
  <2>1. \A row \in rows : row.job = j => row \in rows'
    BY <1>2 DEF Purge, In, Stale
  <2> QED
    BY <1>2, <2>1 DEF Has, Purge
<1>3. ASSUME NEW s \in Sweepers, DeleteStale(s) PROVE Has(j)'
  <2>1. sweeps[s].job # j /\ ~In(s, "off") /\ ~In(s, "pick") /\ In(s, "delete")
    BY <1>3 DEF DeleteStale, In
  <2>2. \A row \in rows : Id(row) \in sweeps[s].seen => row.job = sweeps[s].job
    BY <2>1, AtResult DEF ResultOK, In
  <2>3. \A row \in rows : row.job = j => row \in rows'
    BY <1>3, <2>1, <2>2 DEF DeleteStale
  <2> QED
    BY <1>3, <2>3 DEF Has, DeleteStale
<1>4. ASSUME NEW s \in Sweepers, Unlink(s) PROVE Has(j)'
  <2>1. handled' = handled
    BY <1>4 DEF Unlink
  <2> QED
    BY <1>4, <2>1, UnlinkFacts DEF Has
<1>5. ASSUME NEW s \in Sweepers, InsertRows(s) PROVE Has(j)'
  BY <1>5, InsertFacts DEF Has
<1>6. ASSUME NEW row \in rows, DiscardRow(row) \/ \E who \in Editors : EditRow(row, who) \/ AcceptRow(row, who)
      PROVE  Has(j)'
  BY <1>6, RewriteFacts DEF Has
<1> QED
  BY <1>1, <1>2, <1>3, <1>4, <1>5, <1>6, RowsChange

\* A job is completed by the sweep that works on it.
LEMMA CompletedBy ==
  ASSUME IInv, TInv, [Next]_vars, NEW j \in Rows', jobs'[j].status = "completed"
  PROVE  \/ j \in Rows /\ jobs[j].status = "completed"
         \/ \E s \in Sweepers : Settle(s) /\ In(s, "complete") /\ j = sweeps[s].job
<1>0. jobs \in Seq(JobRow) /\ \A k \in Rows : jobs[k] \in JobRow
  BY SeqWider DEF TInv, JobsOK, Rows
<1>1. CASE jobs' = jobs
  BY <1>1 DEF Rows
<1>2. ASSUME NEW r \in Requests, AskInsert(r) PROVE j \in Rows /\ jobs[j].status = "completed"
  <2>1. jobs' = Append(jobs, Queued(requests[r].pattern))
    BY <1>2 DEF AskInsert
  <2>2. (Queued(requests[r].pattern)).status = "queued"
    BY DEF Queued
  <2> HIDE DEF Queued
  <2>3. j \in 1..Len(jobs) + 1 /\ (j = Len(jobs) + 1 => jobs'[j] = Queued(requests[r].pattern))
        /\ (j # Len(jobs) + 1 => j \in Rows /\ jobs'[j] = jobs[j])
    BY <1>0, <2>1 DEF Rows
  <2> QED
    BY <2>2, <2>3
<1>3. ASSUME NEW k \in Rows, NEW status, SetStatus(k, status), status # "completed" \/ j # k
      PROVE  j \in Rows /\ jobs[j].status = "completed"
  <2>1. jobs' = [jobs EXCEPT ![k].status = status] /\ DOMAIN jobs' = DOMAIN jobs
    BY <1>3 DEF SetStatus
  <2>2. j = k => jobs'[j].status = status
    BY <1>0, <2>1 DEF JobRow, Rows
  <2> QED
    BY <1>3, <2>1, <2>2 DEF Rows
<1>4. ASSUME NEW r \in Requests, StatusWrite(r) PROVE j \in Rows /\ jobs[j].status = "completed"
  <2>1. requests[r].op = "status" /\ SetStatus(requests[r].job, requests[r].next)
    BY <1>4 DEF StatusWrite
  <2>2. requests[r].job \in Rows /\ requests[r].next # "completed"
    BY <2>1 DEF TInv, AsksOK, AskOK, Idle
  <2> QED
    BY <1>3, <2>1, <2>2
<1>5. ASSUME NEW s \in Sweepers, Settle(s), ~(In(s, "complete") /\ j = sweeps[s].job)
      PROVE  j \in Rows /\ jobs[j].status = "completed"
  <2>1. SetStatus(sweeps[s].job, IF In(s, "complete") THEN "completed" ELSE "failed") /\ sweeps[s].job \in Rows
    BY <1>5 DEF Settle, In, TInv, WorksOK, WorkOK, Off
  <2> QED
    BY <1>3, <1>5, <2>1
<1>6. ASSUME NEW s \in Sweepers, NEW k \in Rows, SweepMark(s, k)
      PROVE  j \in Rows /\ jobs[j].status = "completed"
  <2>1. jobs' = [jobs EXCEPT ![k].status = "processing", ![k].lease = "fresh"] /\ DOMAIN jobs' = DOMAIN jobs
    BY <1>6 DEF SweepMark
  <2>2. j = k => jobs'[j].status = "processing"
    BY <1>0, <2>1 DEF JobRow, Rows
  <2> QED
    BY <2>1, <2>2 DEF Rows
<1>7. ASSUME NEW k \in Rows, Expire(k)
      PROVE  j \in Rows /\ jobs[j].status = "completed"
  <2>1. jobs' = [jobs EXCEPT ![k].lease = "stale"] /\ DOMAIN jobs' = DOMAIN jobs
    BY <1>7 DEF Expire
  <2>2. j = k => jobs'[j].status = jobs[j].status
    BY <1>0, <2>1 DEF JobRow, Rows
  <2> QED
    BY <2>1, <2>2 DEF Rows
<1> QED
  BY <1>1, <1>2, <1>4, <1>5, <1>6, <1>7, JobsChange

LEMMA CompleteRunsStep ==
  ASSUME IInv, TInv, RInv, [Next]_vars, ~setting.overlap
  PROVE  CompleteRuns'
<1> SUFFICES ASSUME NEW j \in Rows', Extracts', jobs'[j].status = "completed" PROVE Has(j)'
  BY DEF CompleteRuns
<1>0. Extracts
  BY SpentStep DEF Extracts, Kind
<1>1. CASE j \in Rows /\ jobs[j].status = "completed"
  <2>1. Has(j)
    BY <1>0, <1>1 DEF RInv, CompleteRuns
  <2>2. \A s \in Sweepers : sweeps[s].stage \in {"purge", "delete"} => sweeps[s].job # j
    BY <1>1, AtResult DEF ResultOK, In
  <2> QED
    BY <2>1, <2>2, HasKept
<1>2. ASSUME NEW s \in Sweepers, Settle(s), In(s, "complete"), j = sweeps[s].job PROVE Has(j)'
  <2>1. Has(j)
    BY <1>0, <1>2, AtResult DEF ResultOK, In
  <2>2. UNCHANGED <<rows, handled>>
    BY <1>2 DEF Settle, results
  <2> QED
    BY <2>1, <2>2 DEF Has
<1> QED
  BY <1>1, <1>2, CompletedBy

\* A pattern becomes filled by the one sweep that found none, and not by a request or a teacher.
LEMMA FilledBy ==
  ASSUME IInv, TInv, [Next]_vars
  PROVE  \/ \A p \in DOMAIN patterns' : patterns'[p] = "filled" => p \in DOMAIN patterns /\ patterns[p] = "filled"
         \/ \E s \in Sweepers : \E f :
              /\ In(s, "fill") \/ In(s, "create")
              /\ \A p \in DOMAIN patterns' : patterns'[p] = "filled" =>
                   p = f \/ (p \in DOMAIN patterns /\ patterns[p] = "filled")
<1>0. patterns \in Seq(PatternStatus)
  BY DEF TInv, PatternsOK
<1>1. CASE patterns' = patterns
  BY <1>1
<1>2. ASSUME NEW r \in Requests, AskResource(r)
      PROVE  \A p \in DOMAIN patterns' : patterns'[p] = "filled" => p \in DOMAIN patterns /\ patterns[p] = "filled"
  <2>1. patterns' = Append(patterns, "empty")
    BY <1>2 DEF AskResource
  <2> QED
    BY <1>0, <2>1
<1>3. ASSUME NEW s \in Sweepers, FillPattern(s)
      PROVE  \E f : \A p \in DOMAIN patterns' : patterns'[p] = "filled" =>
                      p = f \/ (p \in DOMAIN patterns /\ patterns[p] = "filled")
  <2>1. PICK f, new : patterns' = [patterns EXCEPT ![f] = new]
    BY <1>3 DEF FillPattern
  <2>2. DOMAIN patterns' = DOMAIN patterns /\ \A p \in DOMAIN patterns : p # f => patterns'[p] = patterns[p]
    BY <2>1
  <2> QED
    BY <2>2
<1>4. ASSUME NEW s \in Sweepers, CreatePattern(s)
      PROVE  \E f : \A p \in DOMAIN patterns' : patterns'[p] = "filled" =>
                      p = f \/ (p \in DOMAIN patterns /\ patterns[p] = "filled")
  <2>1. patterns' = Append(patterns, "filled") /\ "filled" \in PatternStatus
    BY <1>4 DEF CreatePattern, PatternStatus
  <2>2. PICK f : f = Len(patterns) + 1
    OBVIOUS
  <2>3. \A p \in DOMAIN patterns' : p = f \/ (p \in DOMAIN patterns /\ patterns'[p] = patterns[p])
    BY <1>0, <2>1, <2>2, SeqAppend
  <2> QED
    BY <2>3
<1>5. ASSUME NEW q \in DOMAIN patterns, TypePattern(q) \/ DeletePattern(q)
      PROVE  \A p \in DOMAIN patterns' : patterns'[p] = "filled" => p \in DOMAIN patterns /\ patterns[p] = "filled"
  <2>1. PICK new \in {"typed", "gone"} : patterns' = [patterns EXCEPT ![q] = new]
    BY <1>5 DEF TypePattern, DeletePattern
  <2> QED
    BY <2>1
<1>6. \A s \in Sweepers : (FillPattern(s) => In(s, "fill")) /\ (CreatePattern(s) => In(s, "create"))
  BY DEF FillPattern, CreatePattern
<1> QED
  BY <1>1, <1>2, <1>3, <1>4, <1>5, <1>6, PatternsChange

LEMMA OnePatternStep ==
  ASSUME IInv, TInv, RInv, [Next]_vars, ~setting.overlap
  PROVE  OnePattern'
<1>1. CASE \A p \in DOMAIN patterns' : patterns'[p] = "filled" => p \in DOMAIN patterns /\ patterns[p] = "filled"
  BY <1>1 DEF RInv, OnePattern
<1>2. ASSUME NEW s \in Sweepers, NEW f, In(s, "fill") \/ In(s, "create"),
             \A p \in DOMAIN patterns' : patterns'[p] = "filled" =>
               p = f \/ (p \in DOMAIN patterns /\ patterns[p] = "filled")
      PROVE  OnePattern'
  <2>1. Unfilled
    BY <1>2, AtResult DEF ResultOK, In
  <2> QED
    BY <1>2, <2>1 DEF OnePattern, Unfilled
<1> QED
  BY <1>1, <1>2, FilledBy
\* One sweep goes on: the others are off.
LEMMA ResultsPut ==
  ASSUME IInv, ~setting.overlap, NEW s \in Sweepers, NEW next, Put(s, next),
         sweeps[s] # Off \/ \A t \in Sweepers : sweeps[t] = Off,
         sweeps'[s] = next => ResultOK(sweeps[s])'
  PROVE  ResultsOK'
<1>1. sweeps'[s] = next /\ \A t \in Sweepers \ {s} : sweeps'[t] = sweeps[t]
  BY DEF IInv, Put
<1>2. \A t \in Sweepers \ {s} : sweeps'[t] = Off
  BY <1>1, OthersOff
<1> QED
  BY <1>1, <1>2 DEF ResultsOK, ResultOK, Off, Stages

\* No sweep moves: what a teacher, a request or time does.
LEMMA ResultsKept ==
  ASSUME IInv, TInv, RInv, [Next]_vars, ~setting.overlap, sweeps' = sweeps,
         ~\E s \in Sweepers : SweepBegin(s) \/ SweepWork(s) \/ StepFails(s)
  PROVE  ResultsOK'
<1> SUFFICES ASSUME NEW s \in Sweepers, sweeps[s].stage \in Stages \ {"pick"}
             PROVE  ResultOK(sweeps[s])'
  BY DEF ResultsOK, ResultOK
<1> DEFINE w == sweeps[s]
<1>0. /\ ResultOK(w) /\ w.job \in Rows /\ setting' = setting
      /\ DOMAIN patterns \subseteq DOMAIN patterns' /\ Rows \subseteq Rows'
  <2>1. ~In(s, "off") /\ ~In(s, "pick")
    BY DEF In, Stages
  <2> QED
    BY <2>1, AtResult, SpentStep, PatternsStep, JobsStep
<1>1. jobs'[w.job].status # "completed"
  <2>1. ~\E t \in Sweepers : Settle(t)
    BY DEF SweepWork
  <2>2. jobs[w.job].status # "completed"
    BY <1>0 DEF ResultOK
  <2> QED
    BY <1>0, <2>1, <2>2, CompletedBy
<1>2. w.stage \in {"placeholder", "fill", "create"} => Unfilled'
  <2>1. ~\E t \in Sweepers : FillPattern(t) \/ CreatePattern(t)
    BY DEF SweepWork
  <2>2. CASE patterns' = patterns
    BY <1>0, <2>2 DEF ResultOK, Unfilled
  <2>3. CASE \E r \in Requests : AskResource(r)
    <3>1. patterns' = Append(patterns, "empty") /\ patterns \in Seq(PatternStatus)
      BY <2>3 DEF AskResource, TInv, PatternsOK
    <3> QED
      BY <1>0, <3>1 DEF ResultOK, Unfilled
  <2>4. CASE \E q \in DOMAIN patterns : TypePattern(q) \/ DeletePattern(q)
    <3>1. PICK q \in DOMAIN patterns, new \in {"typed", "gone"} : patterns' = [patterns EXCEPT ![q] = new]
      BY <2>4 DEF TypePattern, DeletePattern
    <3> QED
      BY <1>0, <3>1 DEF ResultOK, Unfilled
  <2> QED
    BY <2>1, <2>2, <2>3, <2>4, PatternsChange
<1>3. \/ UNCHANGED <<rows, made, handled>>
      \/ \E row \in rows : DiscardRow(row) \/ \E who \in Editors : EditRow(row, who) \/ AcceptRow(row, who)
  BY RowsChange DEF SweepWork
<1>4. CASE UNCHANGED <<rows, made, handled>>
  BY <1>0, <1>1, <1>2, <1>4 DEF ResultOK, HasNone, Has, Extracts, Kind, Unfilled
<1>5. ASSUME NEW row \in rows, DiscardRow(row) \/ \E who \in Editors : EditRow(row, who) \/ AcceptRow(row, who)
      PROVE  ResultOK(sweeps[s])'
  <2>1. w.stage = "insert" /\ Extracts => HasNone(w.job)'
    BY <1>0, <1>5, RewriteFacts DEF ResultOK, HasNone
  <2>2. w.stage = "complete" /\ Extracts => Has(w.job)'
    BY <1>0, <1>5, RewriteFacts DEF ResultOK, Has
  <2>3. w.stage \in {"unlink", "delete"} =>
          \A p \in rows' : /\ p.job = w.job /\ p.item \notin handled' => Id(p) \in w.seen
                           /\ Id(p) \in w.seen => p.job = w.job
    <3> SUFFICES ASSUME w.stage \in {"unlink", "delete"}, NEW p \in rows'
                 PROVE  /\ p.job = w.job /\ p.item \notin handled' => Id(p) \in w.seen
                        /\ Id(p) \in w.seen => p.job = w.job
      OBVIOUS
    <3>1. \A q \in rows : /\ q.job = w.job /\ q.item \notin handled => Id(q) \in w.seen
                          /\ Id(q) \in w.seen => q.job = w.job
      BY <1>0 DEF ResultOK
    <3>2. PICK q \in rows : q.batch = p.batch /\ q.item = p.item /\ q.job = p.job
      BY <1>5, RewriteFacts
    <3>3. Id(p) = Id(q)
      BY <3>2 DEF Id
    <3>4. handled \subseteq handled'
      BY <1>5, RewriteFacts
    <3> QED
      BY <3>1, <3>2, <3>3, <3>4
  <2> QED
    BY <1>0, <1>1, <1>2, <2>1, <2>2, <2>3 DEF ResultOK, HasNone, Has, Extracts, Kind, Unfilled
<1> QED
  BY <1>3, <1>4, <1>5

\* A sweep goes on to a stage that says nothing of its results.
LEMMA ResultsPlain ==
  ASSUME IInv, TInv, RInv, ~setting.overlap, NEW s \in Sweepers, NEW next, Goes(s, next),
         UNCHANGED <<setting, jobs>>,
         next.stage \notin {"unlink", "delete", "placeholder", "fill", "create"},
         next.stage \in {"insert", "complete"} => ~Extracts
  PROVE  ResultsOK'
<1>1. ResultOK(sweeps[s]) /\ sweeps[s].stage \in Stages \ {"pick"} /\ sweeps[s] # Off
  BY AtResult DEF Goes
<1>2. sweeps'[s] = next => ResultOK(sweeps[s])'
  BY <1>1 DEF ResultOK, Goes, Extracts, Kind
<1> QED
  BY <1>1, <1>2, ResultsPut DEF Goes

LEMMA ResultsOfWork ==
  ASSUME IInv, TInv, RInv, ~setting.overlap, NEW s \in Sweepers,
         ReadSource(s) \/ DropFile(s) \/ ReadLatest(s) \/ InsertEnhancement(s) \/ FillPattern(s)
           \/ CreatePattern(s) \/ (WorkFails(s) /\ StepFails(s))
  PROVE  ResultsOK'
<1>0. ~In(s, "off") /\ ~In(s, "pick") /\ UNCHANGED <<setting, jobs>>
  BY DEF ReadSource, DropFile, ReadLatest, InsertEnhancement, FillPattern, CreatePattern, WorkFails, StepFails, In, On
<1>1. IsWork(sweeps[s])
  BY <1>0, AtWork
<1>2. Kind \in Kinds /\ (setting.file => Kind \in {"paper", "pattern"})
  BY SettingFacts DEF IInv
<1>3. FromSource \in {"latest", "purge", "select", "existing"}
  BY <1>2 DEF FromSource, Kind, Kinds
<1>4. CASE ReadSource(s)
  <2> DEFINE stage == IF ~setting.file THEN FromSource ELSE IF stored THEN "drop" ELSE "fail"
             next == [sweeps[s] EXCEPT !.stage = stage, !.seen = source]
  <2>1. stage \in {"latest", "purge", "select", "existing", "drop", "fail"}
    BY <1>3
  <2>2. Goes(s, next) /\ next.stage = stage
    BY <1>0, <1>1, <1>4, <2>1 DEF Goes, IsWork, ReadSource, Stages
  <2> QED
    BY <1>0, <2>1, <2>2, ResultsPlain
<1>5. CASE DropFile(s)
  <2> DEFINE next == [sweeps[s] EXCEPT !.stage = FromSource]
  <2>1. Goes(s, next) /\ next.stage = FromSource
    BY <1>0, <1>1, <1>3, <1>5 DEF Goes, GoOn, IsWork, DropFile, Stages
  <2> QED
    BY <1>0, <1>3, <2>1, ResultsPlain
<1>6. CASE ReadLatest(s)
  <2> DEFINE next == [stage |-> IF Unchanged(sweeps[s].seen) THEN "complete" ELSE "insert",
                      todo |-> sweeps[s].todo, job |-> sweeps[s].job, seen |-> sweeps[s].seen,
                      version |-> Len(versions) + 1]
  <2>1. Goes(s, next) /\ next.stage \in {"complete", "insert"}
    BY <1>0, <1>6 DEF Goes, ReadLatest, Stages
  <2>2. ~Extracts
    BY <1>1, <1>6 DEF IsWork, ReadLatest, In, Extracts
  <2> QED
    BY <1>0, <2>1, <2>2, ResultsPlain
<1>7. CASE InsertEnhancement(s)
  <2>1. ~Extracts
    BY <1>7 DEF InsertEnhancement, On, Extracts, Kind
  <2>2. GoOn(s, "complete") \/ Forget(s, "fail")
    BY <1>7 DEF InsertEnhancement
  <2>3. \E next : Goes(s, next) /\ next.stage \in {"complete", "fail"}
    BY <1>0, <1>1, <2>2 DEF Goes, GoOn, Forget, IsWork, Stages
  <2> QED
    BY <1>0, <2>1, <2>3, ResultsPlain
<1>8. CASE FillPattern(s) \/ CreatePattern(s)
  <2> DEFINE next == [sweeps[s] EXCEPT !.stage = "complete"]
  <2>1. ~Extracts
    BY <1>1, <1>8 DEF IsWork, FillPattern, CreatePattern, In, Extracts
  <2>2. Goes(s, next) /\ next.stage = "complete"
    BY <1>0, <1>1, <1>8 DEF Goes, GoOn, IsWork, FillPattern, CreatePattern, Stages
  <2> QED
    BY <1>0, <2>1, <2>2, ResultsPlain
<1>9. CASE WorkFails(s)
  <2> DEFINE next == [stage |-> "fail", todo |-> sweeps[s].todo, job |-> sweeps[s].job, seen |-> Null]
  <2>1. Goes(s, next) /\ next.stage = "fail"
    BY <1>0, <1>9 DEF Goes, Forget, WorkFails, Stages
  <2> QED
    BY <1>0, <2>1, ResultsPlain
<1> QED
  BY <1>4, <1>5, <1>6, <1>7, <1>8, <1>9

\* The purge, in one statement or three, leaves nothing of the run that nobody has handled.
LEMMA ResultsOfPurge ==
  ASSUME IInv, TInv, RInv, ~setting.overlap, NEW s \in Sweepers,
         Purge(s) \/ SelectStale(s) \/ Unlink(s) \/ DeleteStale(s)
  PROVE  ResultsOK'
<1> DEFINE w == sweeps[s]
<1>0. /\ ~In(s, "off") /\ ~In(s, "pick") /\ UNCHANGED <<setting, jobs, handled>>
      /\ IsWork(w) /\ w # Off /\ ResultOK(w) /\ jobs[w.job].status # "completed"
  <2>1. ~In(s, "off") /\ ~In(s, "pick") /\ UNCHANGED <<setting, jobs, handled>>
    BY DEF Purge, SelectStale, Unlink, DeleteStale, In
  <2>2. IsWork(w) /\ w # Off /\ ResultOK(w) /\ w.stage \in Stages \ {"pick"}
    BY <2>1, AtResult
  <2> QED
    BY <2>1, <2>2 DEF ResultOK
<1>1. ASSUME NEW next, Put(s, next), next.stage = "insert", next.job = w.job,
             \A row \in rows' : row.job = w.job => row.item \in handled'
      PROVE  ResultsOK'
  <2>1. sweeps'[s] = next => ResultOK(sweeps[s])'
    BY <1>0, <1>1 DEF ResultOK, HasNone
  <2> QED
    BY <1>0, <1>1, <2>1, ResultsPut
<1>2. \A row \in rows : row.job = w.job /\ row.item \notin handled => row \in Stale(w.job)
  BY DEF RInv, Untouched, Stale
<1>3. CASE Purge(s)
  <2> DEFINE next == [w EXCEPT !.stage = "insert"]
  <2>1. Put(s, next) /\ next.stage = "insert" /\ next.job = w.job
    BY <1>0, <1>3 DEF Purge, GoOn, IsWork
  <2>2. \A row \in rows' : row.job = w.job => row.item \in handled'
    BY <1>0, <1>2, <1>3 DEF Purge, HasNone
  <2> QED
    BY <1>1, <2>1, <2>2
<1>4. CASE SelectStale(s)
  <2> DEFINE ids == {Id(row) : row \in Stale(w.job)}
             next == [w EXCEPT !.stage = IF ids = {} THEN "insert" ELSE "unlink", !.seen = ids]
  <2>1. /\ Put(s, next) /\ next.stage = (IF ids = {} THEN "insert" ELSE "unlink") /\ next.job = w.job
        /\ next.seen = ids /\ UNCHANGED <<rows, patterns>>
    BY <1>0, <1>4 DEF SelectStale, IsWork, results
  <2>2. \A row \in rows : row.job = w.job /\ row.item \notin handled => Id(row) \in ids
    BY <1>2
  <2>3. \A row \in rows : Id(row) \in ids => row.job = w.job
    <3> SUFFICES ASSUME NEW row \in rows, Id(row) \in ids PROVE row.job = w.job
      OBVIOUS
    <3>1. PICK p \in Stale(w.job) : Id(p) = Id(row)
      OBVIOUS
    <3>2. p.batch = row.batch /\ p \in rows /\ p.job = w.job
      BY <3>1 DEF Id, Stale
    <3> QED
      BY <3>2 DEF RInv, Untouched
  <2> HIDE DEF next, ids
  <2>4. CASE ids = {}
    <3>1. \A row \in rows' : row.job = w.job => row.item \in handled'
      BY <1>0, <2>1, <2>2, <2>4 DEF HasNone
    <3> QED
      BY <1>1, <2>1, <2>4, <3>1
  <2>5. CASE ids # {}
    <3>1. sweeps'[s] = next => ResultOK(sweeps[s])'
      BY <1>0, <2>1, <2>2, <2>3, <2>5 DEF ResultOK
    <3> QED
      BY <1>0, <2>1, <3>1, ResultsPut
  <2> QED
    BY <2>4, <2>5
<1>5. CASE Unlink(s)
  <2> DEFINE next == [w EXCEPT !.stage = "delete"]
  <2>1. Put(s, next) /\ next.stage = "delete" /\ next.job = w.job /\ next.seen = w.seen
    BY <1>0, <1>5 DEF Unlink, GoOn, IsWork
  <2>2. \A row \in rows : /\ row.job = w.job /\ row.item \notin handled => Id(row) \in w.seen
                          /\ Id(row) \in w.seen => row.job = w.job
    BY <1>0, <1>5 DEF Unlink, In, ResultOK, Stages
  <2>3. \A p \in rows' : /\ p.job = w.job /\ p.item \notin handled => Id(p) \in w.seen
                         /\ Id(p) \in w.seen => p.job = w.job
    <3> SUFFICES ASSUME NEW p \in rows'
                 PROVE  /\ p.job = w.job /\ p.item \notin handled => Id(p) \in w.seen
                        /\ Id(p) \in w.seen => p.job = w.job
      OBVIOUS
    <3>1. PICK q \in rows : q.batch = p.batch /\ q.item = p.item /\ q.job = p.job
      BY <1>5, UnlinkFacts
    <3>2. Id(p) = Id(q)
      BY <3>1 DEF Id
    <3> QED
      BY <2>2, <3>1, <3>2
  <2> HIDE DEF next
  <2>4. sweeps'[s] = next => ResultOK(sweeps[s])'
    BY <1>0, <2>1, <2>3 DEF ResultOK
  <2> QED
    BY <1>0, <2>1, <2>4, ResultsPut
<1>6. CASE DeleteStale(s)
  <2> DEFINE next == [stage |-> "insert", todo |-> w.todo, job |-> w.job, seen |-> Null]
  <2>1. Put(s, next) /\ next.stage = "insert" /\ next.job = w.job
    BY <1>6 DEF DeleteStale, Forget
  <2>2. \A row \in rows : row.job = w.job /\ row.item \notin handled => Id(row) \in w.seen
    BY <1>0, <1>6 DEF DeleteStale, In, ResultOK, Stages
  <2>3. \A row \in rows' : row.job = w.job => row.item \in handled'
    BY <1>0, <1>6, <2>2 DEF DeleteStale, HasNone
  <2> QED
    BY <1>1, <2>1, <2>3
<1> QED
  BY <1>3, <1>4, <1>5, <1>6

LEMMA ResultsOfInsert ==
  ASSUME IInv, TInv, RInv, ~setting.overlap, NEW s \in Sweepers, InsertRows(s)
  PROVE  ResultsOK'
<1> DEFINE w == sweeps[s]
           next == [w EXCEPT !.stage = "complete"]
<1>1. ~In(s, "off") /\ ~In(s, "pick") /\ UNCHANGED <<setting, jobs>> /\ GoOn(s, "complete")
  BY DEF InsertRows, In
<1>2. IsWork(w) /\ w # Off /\ jobs[w.job].status # "completed"
  BY <1>1, AtResult DEF ResultOK
<1>3. Put(s, next) /\ next.stage = "complete" /\ next.job = w.job
  BY <1>1, <1>2 DEF GoOn, IsWork
<1>4. \A i \in Items \ handled' : \E row \in rows' : row.job = w.job /\ row.item = i
  BY InsertFacts
<1> HIDE DEF next
<1>5. sweeps'[s] = next => ResultOK(sweeps[s])'
  BY <1>1, <1>2, <1>3, <1>4 DEF ResultOK, Has
<1> QED
  BY <1>2, <1>3, <1>5, ResultsPut

\* A pattern is made only of a source that has none.
LEMMA ResultsOfPatterns ==
  ASSUME IInv, TInv, RInv, ~setting.overlap, NEW s \in Sweepers, ReadPatterns(s) \/ ReadPlaceholder(s)
  PROVE  ResultsOK'
<1> DEFINE w == sweeps[s]
<1>1. ~In(s, "off") /\ ~In(s, "pick") /\ UNCHANGED <<setting, jobs, patterns>>
  BY DEF ReadPatterns, ReadPlaceholder, In, results
<1>2. /\ IsWork(w) /\ w # Off /\ jobs[w.job].status # "completed" /\ ~Extracts
      /\ ReadPlaceholder(s) => Unfilled
  <2>1. IsWork(w) /\ w.stage \in {"existing", "placeholder"} /\ (ReadPlaceholder(s) => w.stage = "placeholder")
    BY <1>1, AtResult DEF ReadPatterns, ReadPlaceholder, In
  <2> QED
    BY <1>1, <2>1, AtResult DEF ResultOK, IsWork, Extracts
<1>3. PICK stage \in {"complete", "placeholder", "fill", "create"} :
        GoOn(s, stage) /\ (stage # "complete" => Unfilled)
  <2>1. ~Existing => Unfilled
    BY DEF Existing, Structured, Unfilled
  <2> QED
    BY <1>2, <2>1 DEF ReadPatterns, ReadPlaceholder
<1> DEFINE next == [w EXCEPT !.stage = stage]
<1>4. Put(s, next) /\ next.stage = stage /\ next.job = w.job
  BY <1>2, <1>3 DEF GoOn, IsWork
<1>5. stage # "complete" => Unfilled'
  BY <1>1, <1>3 DEF Unfilled
<1> HIDE DEF next
<1>6. sweeps'[s] = next => ResultOK(sweeps[s])'
  BY <1>1, <1>2, <1>4, <1>5 DEF ResultOK, Extracts, Kind
<1> QED
  BY <1>2, <1>4, <1>6, ResultsPut
\* A sweep begins, chooses a job or is done with one: it has no result yet, or none any more.
LEMMA ResultsOfJobs ==
  ASSUME IInv, TInv, RInv, ~setting.overlap, NEW s \in Sweepers,
         \/ SweepBegin(s) \/ Settle(s)
         \/ \E j \in Rows : SweepMark(s, j) \/ (MarkFails(s, j) /\ UNCHANGED <<setting, jobs>>)
  PROVE  ResultsOK'
<1>1. ASSUME NEW next, Put(s, next), next.stage \in {"off", "pick"},
             sweeps[s] # Off \/ \A t \in Sweepers : sweeps[t] = Off
      PROVE  ResultsOK'
  <2>1. sweeps'[s] = next => ResultOK(sweeps[s])'
    BY <1>1 DEF ResultOK, Stages
  <2> QED
    BY <1>1, <2>1, ResultsPut
<1>2. CASE SweepBegin(s)
  <2> DEFINE next == [stage |-> "pick", todo |-> {j \in Rows : Adoptable(j)}]
  <2>1. Put(s, next) /\ next.stage = "pick"
    BY <1>2 DEF SweepBegin
  <2>2. \A t \in Sweepers : sweeps[t] = Off
    BY <1>2, WorkStages DEF SweepBegin, IInv
  <2> QED
    BY <1>1, <2>1, <2>2
<1>3. CASE Settle(s)
  <2>1. Put(s, NextJob(s)) /\ (NextJob(s)).stage \in {"off", "pick"} /\ sweeps[s] # Off
    BY <1>3 DEF Settle, NextJob, Off, In
  <2> QED
    BY <1>1, <2>1
<1>4. ASSUME NEW j \in Rows, SweepMark(s, j) PROVE ResultsOK'
  <2> DEFINE next == [stage |-> "source", todo |-> sweeps[s].todo \ {j}, job |-> j, seen |-> Null]
  <2>1. Put(s, next) /\ next.stage = "source" /\ next.job = j /\ sweeps[s] # Off
    BY <1>4 DEF SweepMark, In, Off
  <2>2. jobs'[j].status = "processing"
    <3>1. jobs[j] \in JobRow /\ jobs \in Seq(JobRow)
      BY SeqWider DEF TInv, JobsOK, Rows
    <3>2. jobs' = [jobs EXCEPT ![j].status = "processing", ![j].lease = "fresh"]
      BY <1>4 DEF SweepMark
    <3> QED
      BY <3>1, <3>2 DEF JobRow, Rows
  <2> HIDE DEF next
  <2>3. sweeps'[s] = next => ResultOK(sweeps[s])'
    BY <2>1, <2>2 DEF ResultOK
  <2> QED
    BY <2>1, <2>3, ResultsPut
<1>5. ASSUME NEW j \in Rows, MarkFails(s, j), UNCHANGED <<setting, jobs>> PROVE ResultsOK'
  <2> DEFINE next == [stage |-> "fail", todo |-> sweeps[s].todo \ {j}, job |-> j, seen |-> Null]
  <2>1. Put(s, next) /\ next.stage = "fail" /\ next.job = j /\ sweeps[s] # Off /\ j \in sweeps[s].todo
    BY <1>5 DEF MarkFails, In, Off
  <2>2. jobs'[j].status # "completed"
    BY <1>5, <2>1 DEF RInv, Awaited
  <2> HIDE DEF next
  <2>3. sweeps'[s] = next => ResultOK(sweeps[s])'
    BY <2>1, <2>2 DEF ResultOK
  <2> QED
    BY <2>1, <2>3, ResultsPut
<1> QED
  BY <1>2, <1>3, <1>4, <1>5

LEMMA ResultsOKStep ==
  ASSUME IInv, TInv, RInv, [Next]_vars, ~setting.overlap
  PROVE  ResultsOK'
<1>1. ASSUME NEW s \in Sweepers, SweepBegin(s) \/ SweepWork(s) \/ StepFails(s) PROVE ResultsOK'
  <2>1. CASE StepFails(s)
    BY <2>1, ResultsOfJobs, ResultsOfWork DEF StepFails
  <2> QED
    BY <1>1, <2>1, ResultsOfJobs, ResultsOfWork, ResultsOfPurge, ResultsOfInsert, ResultsOfPatterns DEF SweepWork
<1>2. CASE Crash
  <2>1. \A s \in Sweepers : sweeps'[s] = Off
    BY <1>2 DEF Crash
  <2> QED
    BY <2>1 DEF ResultsOK, ResultOK, Off, Stages
<1> QED
  BY <1>1, <1>2, SweepsChange, ResultsKept

\* A list only shrinks, and the job a sweep completes is no longer on it.
LEMMA AwaitedStep ==
  ASSUME IInv, TInv, RInv, [Next]_vars, ~setting.overlap
  PROVE  Awaited'
<1> SUFFICES ASSUME NEW s \in Sweepers, sweeps'[s] # Off, NEW j \in sweeps'[s].todo,
                    jobs'[j].status = "completed"
             PROVE  FALSE
  BY DEF Awaited
<1>0. WorksOK' /\ WorksOK /\ j \in Rows' /\ sweeps = [t \in Sweepers |-> sweeps[t]]
  BY WorksStep DEF WorksOK, WorkOK, IInv, TInv
<1>1. CASE \E t \in Sweepers : SweepBegin(t)
  <2>1. PICK t \in Sweepers : SweepBegin(t)
    BY <1>1
  <2>2. /\ \A u \in Sweepers : sweeps[u] = Off
        /\ Put(t, [stage |-> "pick", todo |-> {k \in Rows : Adoptable(k)}]) /\ jobs' = jobs
    BY <2>1, WorkStages DEF SweepBegin, IInv
  <2>3. Adoptable(j)
    BY <1>0, <2>2 DEF Put
  <2> QED
    BY <2>2, <2>3 DEF Adoptable
<1>2. CASE ~\E t \in Sweepers : SweepBegin(t)
  <2>1. sweeps[s] # Off /\ sweeps'[s].todo \subseteq sweeps[s].todo
    <3>1. CASE sweeps' = sweeps
      BY <3>1
    <3>2. CASE Crash
      BY <3>2 DEF Crash
    <3>3. ASSUME NEW t \in Sweepers, NEW next, Put(t, next), sweeps[t] # Off,
                 next # Off => next.todo \subseteq sweeps[t].todo
          PROVE  sweeps[s] # Off /\ sweeps'[s].todo \subseteq sweeps[s].todo
      BY <1>0, <3>3 DEF Put
    <3>4. ASSUME NEW t \in Sweepers, SweepWork(t) \/ StepFails(t)
          PROVE  \E next : Put(t, next) /\ sweeps[t] # Off /\ (next # Off => next.todo \subseteq sweeps[t].todo)
      <4>1. CASE \E k \in Rows : SweepMark(t, k) \/ MarkFails(t, k)
        BY <4>1 DEF SweepMark, MarkFails, In, Off
      <4>2. CASE Settle(t)
        BY <4>2 DEF Settle, NextJob, In, Off
      <4>3. CASE \E next : Goes(t, next)
        BY <4>3 DEF Goes, In, Off
      <4> QED
        BY <3>4, <4>1, <4>2, <4>3, WorkGoes DEF StepFails
    <3> QED
      BY <1>2, <3>1, <3>2, <3>3, <3>4, SweepsChange
  <2>2. j \in Rows /\ jobs[j].status # "completed"
    BY <1>0, <2>1 DEF RInv, Awaited, WorksOK, WorkOK
  <2>3. PICK t \in Sweepers : Settle(t) /\ In(t, "complete") /\ j = sweeps[t].job
    BY <1>0, <2>2, CompletedBy
  <2>4. t = s
    BY <2>1, <2>3, OthersOff DEF In, Off
  <2>5. j \notin sweeps[s].todo
    BY <1>0, <2>3, <2>4 DEF WorksOK, WorkOK, In, Off
  <2> QED
    BY <2>1, <2>5
<1> QED
  BY <1>1, <1>2

LEMMA ResultsInitially == Init => RInv
<1> SUFFICES ASSUME Init PROVE RInv
  OBVIOUS
<1>1. /\ rows = {} /\ patterns = <<>> /\ sweeps = [s \in Sweepers |-> Off]
      /\ jobs = <<Queued(Null)>> \/ jobs = <<>>
  BY DEF Init
<1>2. \A j \in Rows : jobs[j].status = "queued"
  BY <1>1 DEF Rows, Queued
<1>3. Untouched /\ Unique /\ OnePattern
  BY <1>1 DEF Untouched, Unique, OnePattern
<1>4. CompleteRuns
  BY <1>2 DEF CompleteRuns
<1>5. ResultsOK
  BY <1>1 DEF ResultsOK, ResultOK, Off, Stages
<1>6. Awaited
  BY <1>1 DEF Awaited
<1> QED
  BY <1>3, <1>4, <1>5, <1>6 DEF RInv

LEMMA ResultsStep == IInv /\ TInv /\ RInv /\ [Next]_vars => RInv'
<1> SUFFICES ASSUME IInv, TInv, RInv, [Next]_vars PROVE RInv'
  OBVIOUS
<1>1. setting' = setting
  BY SpentStep
<1> QED
  BY <1>1, UntouchedStep, UniqueStep, CompleteRunsStep, OnePatternStep, ResultsOKStep, AwaitedStep DEF RInv

LEMMA ResultsInvariance == Spec => [](IInv /\ TInv /\ RInv)
<1>1. Init => RInv
  BY ResultsInitially
<1>2. IInv /\ TInv /\ RInv /\ [Next]_vars => RInv'
  BY ResultsStep
<1> QED
  BY <1>1, <1>2, TypesInvariance, PTL DEF Spec

\* A set without two elements has at most one.
LEMMA AtMostOne ==
  ASSUME NEW S, \A p, q \in S : p = q
  PROVE  Cardinality(S) <= 1
<1>1. CASE S = {}
  BY <1>1, FS_EmptySet
<1>2. CASE S # {}
  <2>1. PICK p \in S : S = {p}
    BY <1>2
  <2>2. Cardinality(S) = 1
    BY <2>1, FS_Singleton
  <2> QED
    BY <2>2
<1> QED
  BY <1>1, <1>2

\* A run that is swept again, after a crash, a failure or a retry, leaves one result, however
\* many questions, jobs, crashes and retries there are: what the sweep before it has left is
\* purged, but for what a teacher has handled.
THEOREM ResultsAlwaysOnce == Spec => []ResultsOnce
<1>1. IInv /\ TInv /\ RInv => ResultsOnce
  <2> SUFFICES ASSUME RInv, ~setting.overlap PROVE ResultsOnce
    BY DEF ResultsOnce
  <2>1. ASSUME NEW j \in Rows, NEW i \in Items \ handled
        PROVE  /\ Cardinality(Found(j, i)) <= 1
               /\ setting.kind \in {"extract", "paper"} /\ jobs[j].status = "completed" => Found(j, i) # {}
    <3>1. \A p, q \in Found(j, i) : p = q
      BY DEF RInv, Unique, Found
    <3>2. setting.kind \in {"extract", "paper"} /\ jobs[j].status = "completed" => Found(j, i) # {}
      BY DEF RInv, CompleteRuns, Has, Found, Extracts, Kind
    <3> QED
      BY <3>1, <3>2, AtMostOne
  <2>2. Cardinality({p \in DOMAIN patterns : patterns[p] = "filled"}) <= 1
    BY AtMostOne DEF RInv, OnePattern
  <2> QED
    BY <2>1, <2>2 DEF ResultsOnce
<1> QED
  BY <1>1, ResultsInvariance, PTL
-----------------------------------------------------------------------------
(* Whether the newest enhancement is of the text it was asked for.         *)

\* What LatestIsCurrent is about.
Enhances == Kind = "enhance" /\ ~setting.overlap

\* A job not yet completed whose run, if it has read the text, has read none older than the one
\* that was answered for; a version of no older text; a run about to complete has made, or
\* found, the newest.
Carries(j) ==
  /\ jobs[j].status # "completed"
  /\ \A s \in Sweepers : Reading(s) /\ sweeps[s].job = j => sweeps[s].seen >= answers.sound
Covered == Newest >= answers.sound \/ \E j \in Rows : Carries(j)
MadeNewest == \A s \in Sweepers : In(s, "complete") => sweeps[s].seen = Newest

LInv == Enhances => MadeNewest /\ Covered

LEMMA NewestFacts ==
  ASSUME IInv, TInv
  PROVE  /\ Newest \in Nat /\ source \in Nat /\ answers.sound \in Nat /\ answers.sound <= source
         /\ versions # <<>> => Newest = Last
<1>1. versions \in Seq(0..source) /\ source \in Nat /\ answers.sound \in 0..source
  BY DEF IInv, TInv, SourceOK, Answers
<1>2. versions = <<>> \/ Last \in 0..source
  BY <1>1 DEF Last
<1> QED
  BY <1>1, <1>2 DEF Newest, Last

\* A sweep of another kind's stage is none of an enhancement.
LEMMA EnhanceWork ==
  ASSUME IInv, Enhances, NEW s \in Sweepers, SweepWork(s)
  PROVE  \/ ReadSource(s) \/ ReadLatest(s) \/ InsertEnhancement(s) \/ Settle(s)
         \/ \E j \in Rows : SweepMark(s, j)
<1>1. ~setting.file /\ Kind = "enhance"
  BY SettingFacts DEF Enhances, IInv
<1>2. ~In(s, "off") /\ ~In(s, "pick") =>
        sweeps[s].stage \notin {"drop", "purge", "select", "unlink", "delete", "existing", "placeholder",
                                "fill", "create"}
  BY <1>1, AtWork DEF IsWork
<1>3. /\ ~DropFile(s) /\ ~Purge(s) /\ ~SelectStale(s) /\ ~Unlink(s) /\ ~DeleteStale(s) /\ ~ReadPatterns(s)
      /\ ~ReadPlaceholder(s) /\ ~FillPattern(s) /\ ~CreatePattern(s) /\ ~InsertRows(s)
  BY <1>1, <1>2 DEF DropFile, Purge, SelectStale, Unlink, DeleteStale, ReadPatterns, ReadPlaceholder, FillPattern,
     CreatePattern, InsertRows, In, Kind
<1> QED
  BY <1>3 DEF SweepWork

\* The steps that read no text, make no version and answer no one.
Still ==
  /\ UNCHANGED <<versions, answers>>
  /\ \A s \in Sweepers : sweeps'[s] = sweeps[s] \/ ~Reading(s)'

LEMMA EnhanceSteps ==
  ASSUME IInv, TInv, [Next]_vars, Enhances
  PROVE  \/ \E r \in Requests : AskCheck(r) \/ AskInsert(r)
         \/ \E s \in Sweepers : ReadSource(s) \/ ReadLatest(s) \/ InsertEnhancement(s) \/ Settle(s)
         \/ Still
<1>1. ASSUME UNCHANGED <<versions, answers, sweeps>> PROVE Still
  BY <1>1 DEF Still
<1>2. ASSUME NEW r \in Requests, Request(r), ~AskCheck(r), ~AskInsert(r) PROVE Still
  BY <1>1, <1>2 DEF Request, ChangeSource, Ask, AskSave, AskRecheck, AskFails, AskDrop, AskResource,
     StatusRead, StatusWrite, results
<1>3. ASSUME Teacher \/ (UNCHANGED vars) \/ \E j \in Rows : Expire(j) PROVE Still
  BY <1>1, <1>3 DEF Teacher, EditRow, AcceptRow, DiscardRow, Rewrite, TypePattern, DeletePattern, Expire, vars, results
<1>4. ASSUME Crash PROVE Still
  BY <1>4 DEF Still, Crash, Reading, Off, results
<1>5. ASSUME NEW s \in Sweepers, NEW next, Put(s, next), UNCHANGED <<versions, answers>>,
             next.stage \notin {"latest", "insert", "complete"}
      PROVE  Still
  <2>1. \A t \in Sweepers : sweeps'[t] = sweeps[t] \/ sweeps'[t] = next
    BY <1>5 DEF Put, IInv
  <2> QED
    BY <1>5, <2>1 DEF Still, Reading
<1>6. ASSUME NEW s \in Sweepers, SweepBegin(s) \/ StepFails(s) \/ \E j \in Rows : SweepMark(s, j) PROVE Still
  <2>1. UNCHANGED <<versions, answers>>
    BY <1>6 DEF SweepBegin, StepFails, SweepMark, results
  <2>2. \E next : Put(s, next) /\ next.stage \in {"pick", "source", "fail"}
    <3>1. CASE SweepBegin(s)
      BY <3>1 DEF SweepBegin
    <3>2. CASE \E j \in Rows : SweepMark(s, j) \/ MarkFails(s, j)
      BY <3>2 DEF SweepMark, MarkFails
    <3>3. CASE WorkFails(s)
      BY <3>3 DEF WorkFails, Forget
    <3> QED
      BY <1>6, <3>1, <3>2, <3>3 DEF StepFails
  <2> QED
    BY <1>5, <2>1, <2>2
<1> QED
  BY <1>2, <1>3, <1>4, <1>6, EnhanceWork DEF Next

\* As long as no version is lost, no job completed and no run has read too old a text, what
\* was answered for is covered.
LEMMA CoveredOn ==
  ASSUME IInv, TInv, LInv, Enhances, Rows \subseteq Rows', answers' = answers, Newest' \in Nat, Newest' >= Newest,
         \A j \in Rows : jobs'[j].status = "completed" => jobs[j].status = "completed",
         \A s \in Sweepers :
           Reading(s)' => \/ sweeps'[s].seen >= answers.sound
                          \/ Reading(s) /\ sweeps'[s].job = sweeps[s].job /\ sweeps'[s].seen = sweeps[s].seen
  PROVE  Covered'
<1>1. CASE Newest >= answers.sound
  BY <1>1, NewestFacts DEF Covered
<1>2. CASE \E j \in Rows : Carries(j)
  <2>1. PICK j \in Rows : Carries(j)
    BY <1>2
  <2>2. jobs'[j].status # "completed"
    BY <2>1 DEF Carries
  <2>3. ASSUME NEW s \in Sweepers, Reading(s)', sweeps'[s].job = j PROVE sweeps'[s].seen >= answers.sound
    BY <2>1, <2>3 DEF Carries
  <2>4. Carries(j)'
    BY <2>2, <2>3 DEF Carries
  <2> QED
    BY <2>4 DEF Covered
<1> QED
  BY <1>1, <1>2 DEF LInv, Covered

\* A run that completes has covered its job's text; every other job goes on.
LEMMA SettleCovers ==
  ASSUME IInv, TInv, LInv, Enhances, NEW s \in Sweepers, Settle(s), [Next]_vars
  PROVE  MadeNewest' /\ Covered'
<1> DEFINE k == sweeps[s].job
<1>0. /\ UNCHANGED <<versions, answers>> /\ Put(s, NextJob(s)) /\ ~In(s, "off") /\ ~In(s, "pick") /\ Rows \subseteq Rows'
      /\ sweeps[s] # Off
  BY JobsStep DEF Settle, results, In, Off
<1>1. \A t \in Sweepers : sweeps'[t].stage \in {"off", "pick"}
  <2>1. sweeps'[s] = NextJob(s) /\ \A t \in Sweepers \ {s} : sweeps'[t] = sweeps[t]
    BY <1>0 DEF Put, IInv
  <2>2. \A t \in Sweepers \ {s} : sweeps[t] = Off
    BY <1>0, OthersOff DEF Enhances
  <2> QED
    BY <2>1, <2>2 DEF NextJob, Off
<1>2. MadeNewest' /\ \A t \in Sweepers : ~Reading(t)'
  BY <1>1 DEF MadeNewest, In, Reading
<1>3. Newest' = Newest /\ Newest \in Nat
  BY <1>0, NewestFacts DEF Newest
<1>4. CASE In(s, "complete") /\ Carries(k)
  <2>1. sweeps[s].seen = Newest /\ sweeps[s].seen >= answers.sound
    BY <1>4 DEF LInv, MadeNewest, Carries, Reading, In
  <2> QED
    BY <1>0, <1>2, <1>3, <2>1 DEF Covered
<1>5. CASE ~(In(s, "complete") /\ Carries(k))
  <2>1. CASE Newest >= answers.sound
    BY <1>0, <1>2, <1>3, <2>1 DEF Covered
  <2>2. CASE \E j \in Rows : Carries(j)
    <3>1. PICK j \in Rows : Carries(j)
      BY <2>2
    <3>2. jobs'[j].status # "completed"
      <4> SUFFICES ASSUME jobs'[j].status = "completed" PROVE FALSE
        OBVIOUS
      <4>1. PICK t \in Sweepers : Settle(t) /\ In(t, "complete") /\ j = sweeps[t].job
        BY <1>0, <3>1, CompletedBy DEF Carries
      <4>2. t = s
        BY <1>0, <4>1, OthersOff DEF Enhances, In, Off
      <4> QED
        BY <1>5, <3>1, <4>1, <4>2
    <3>3. Carries(j)'
      BY <1>2, <3>2 DEF Carries
    <3> QED
      BY <1>0, <1>2, <3>3 DEF Covered
  <2> QED
    BY <2>1, <2>2 DEF LInv, Covered
<1> QED
  BY <1>2, <1>4, <1>5

\* A run reads the present text, and makes a version of what it has read or finds it made.
LEMMA WorkCovers ==
  ASSUME IInv, TInv, LInv, Enhances, NEW s \in Sweepers, [Next]_vars,
         ReadSource(s) \/ ReadLatest(s) \/ InsertEnhancement(s)
  PROVE  MadeNewest' /\ Covered'
<1> DEFINE w == sweeps[s]
<1>0. /\ ~In(s, "off") /\ ~In(s, "pick") /\ UNCHANGED <<jobs, answers>>
      /\ w.stage \in {"source", "latest", "insert"}
  BY DEF ReadSource, ReadLatest, InsertEnhancement, In, On
<1>1. IsWork(w) /\ w # Off
  BY <1>0, AtWork
<1>2. \A t \in Sweepers \ {s} : sweeps'[t] = Off
  <2>1. \E next : Put(s, next)
    BY DEF ReadSource, ReadLatest, InsertEnhancement, GoOn, Forget
  <2>2. \A t \in Sweepers \ {s} : sweeps'[t] = sweeps[t]
    BY <2>1 DEF Put, IInv
  <2> QED
    BY <1>1, <2>2, OthersOff DEF Enhances
<1>3. ASSUME Newest' \in Nat, Newest' >= Newest,
             In(s, "complete")' => sweeps'[s].seen = Newest',
             Reading(s)' => \/ sweeps'[s].seen >= answers.sound
                            \/ Reading(s) /\ sweeps'[s].job = w.job /\ sweeps'[s].seen = w.seen
      PROVE  MadeNewest' /\ Covered'
  <2>1. \A t \in Sweepers \ {s} : ~Reading(t)' /\ ~In(t, "complete")'
    BY <1>2 DEF Reading, In, Off
  <2>2. MadeNewest'
    BY <1>3, <2>1 DEF MadeNewest
  <2>3. \A t \in Sweepers :
          Reading(t)' => \/ sweeps'[t].seen >= answers.sound
                         \/ Reading(t) /\ sweeps'[t].job = sweeps[t].job /\ sweeps'[t].seen = sweeps[t].seen
    BY <1>3, <2>1
  <2>4. Rows \subseteq Rows' /\ \A j \in Rows : jobs'[j].status = "completed" => jobs[j].status = "completed"
    BY <1>0 DEF Rows
  <2> QED
    BY <1>0, <1>3, <2>2, <2>3, <2>4, CoveredOn
<1>4. CASE ReadSource(s)
  <2> DEFINE stage == IF ~setting.file THEN FromSource ELSE IF stored THEN "drop" ELSE "fail"
             next == [w EXCEPT !.stage = stage, !.seen = source]
  <2>1. sweeps'[s] = next /\ UNCHANGED versions
    BY <1>4 DEF ReadSource, Put, IInv, results
  <2>2. sweeps'[s].seen = source /\ sweeps'[s].stage = stage
    BY <1>1, <2>1 DEF IsWork
  <2>3. stage # "complete"
    BY SettingFacts DEF FromSource, Kinds, Kind, IInv
  <2> QED
    BY <1>3, <2>1, <2>2, <2>3, NewestFacts DEF Newest, In
<1>5. CASE ReadLatest(s)
  <2>1. /\ sweeps'[s] = [stage |-> IF Unchanged(w.seen) THEN "complete" ELSE "insert",
                         todo |-> w.todo, job |-> w.job, seen |-> w.seen, version |-> Len(versions) + 1]
        /\ UNCHANGED versions /\ w.stage = "latest"
    BY <1>5 DEF ReadLatest, Put, IInv, results, In
  <2>2. In(s, "complete")' => sweeps'[s].seen = Newest
    BY <2>1 DEF In, Unchanged, Newest
  <2> QED
    BY <1>3, <2>1, <2>2, NewestFacts DEF Newest, Reading
<1>6. CASE InsertEnhancement(s)
  <2>0. w.stage = "insert" /\ Kind = "enhance" /\ w.seen \in 0..source /\ (versions = <<>> \/ Last <= w.seen)
    BY <1>1, <1>6 DEF InsertEnhancement, On, In, Kind, IsWork, Enhances
  <2>1. CASE w.version = Len(versions) + 1
    <3>1. versions' = Append(versions, w.seen) /\ sweeps'[s] = [w EXCEPT !.stage = "complete"]
      BY <1>6, <2>1 DEF InsertEnhancement, GoOn, Put, IInv
    <3>2. sweeps'[s].seen = w.seen /\ sweeps'[s].job = w.job
      BY <1>1, <3>1 DEF IsWork
    <3>3. Newest' = w.seen
      BY <2>0, <3>1 DEF Newest, IInv
    <3>4. Newest' \in Nat /\ Newest' >= Newest
      BY <2>0, <3>3, NewestFacts DEF Newest, Last
    <3> QED
      BY <1>3, <2>0, <3>2, <3>3, <3>4 DEF Reading
  <2>2. CASE w.version # Len(versions) + 1
    <3>1. UNCHANGED versions /\ sweeps'[s].stage = "fail"
      BY <1>6, <2>2 DEF InsertEnhancement, Forget, Put, IInv
    <3> QED
      BY <1>3, <3>1, NewestFacts DEF Newest, In, Reading
  <2> QED
    BY <2>1, <2>2
<1> QED
  BY <1>4, <1>5, <1>6

\* A request is answered with a new job, which nothing has been read for, or with one that has
\* read no older text.
LEMMA AnswerCovers ==
  ASSUME IInv, TInv, LInv, Enhances, NEW r \in Requests, AskCheck(r) \/ AskInsert(r)
  PROVE  MadeNewest' /\ Covered'
<1>0. UNCHANGED <<versions, sweeps, source, setting>>
  BY DEF AskCheck, AskInsert, results
<1>1. MadeNewest'
  BY <1>0 DEF LInv, MadeNewest, In, Newest
<1>2. CASE AskCheck(r)
  <2>1. jobs' = jobs /\ Rows' = Rows
    BY <1>2 DEF AskCheck, Rows
  <2>2. CASE answers'.sound = answers.sound
    <3>1. CASE Newest >= answers.sound
      BY <1>0, <1>1, <2>2, <3>1 DEF Covered, Newest
    <3>2. CASE \E j \in Rows : Carries(j)
      <4>1. PICK j \in Rows : Carries(j)
        BY <3>2
      <4>2. Carries(j)'
        BY <1>0, <2>1, <2>2, <4>1 DEF Carries, Reading
      <4> QED
        BY <1>1, <2>1, <4>2 DEF Covered
    <3> QED
      BY <3>1, <3>2 DEF LInv, Covered
  <2>3. CASE answers'.sound # answers.sound
    <3>1. answers'.sound = source /\ \E j \in Rows : UpToDate(j)
      BY <1>2, <2>3 DEF AskCheck
    <3>2. PICK j \in Rows : UpToDate(j)
      BY <3>1
    <3>3. jobs[j].status # "completed"
      BY <3>2 DEF UpToDate, Active
    <3>4. \A s \in Sweepers : Reading(s) /\ sweeps[s].job = j => sweeps[s].seen >= source
      BY <3>2, NewestFacts DEF UpToDate
    <3>5. Carries(j)'
      BY <1>0, <2>1, <3>1, <3>3, <3>4 DEF Carries, Reading
    <3> QED
      BY <1>1, <2>1, <3>5 DEF Covered
  <2> QED
    BY <1>1, <2>2, <2>3
<1>3. CASE AskInsert(r)
  <2> PICK k : k = Len(jobs) + 1
    OBVIOUS
  <2>1. jobs' = Append(jobs, Queued(requests[r].pattern)) /\ jobs \in Seq(JobRow)
    BY <1>3 DEF AskInsert, TInv, JobsOK
  <2>2. k \in Rows' /\ k \notin Rows /\ jobs'[k] = Queued(requests[r].pattern)
    BY <2>1 DEF Rows
  <2>3. \A s \in Sweepers : Reading(s) => sweeps[s].job \in Rows
    BY DEF Reading, TInv, WorksOK, WorkOK, Off
  <2>4. jobs'[k].status # "completed"
    BY <2>2 DEF Queued
  <2>5. Carries(k)'
    BY <1>0, <2>2, <2>3, <2>4 DEF Carries, Reading
  <2> QED
    BY <1>1, <2>2, <2>5 DEF Covered
<1> QED
  BY <1>1, <1>2, <1>3

LEMMA StillCovers ==
  ASSUME IInv, TInv, LInv, Enhances, [Next]_vars, Still, ~\E s \in Sweepers : Settle(s)
  PROVE  MadeNewest' /\ Covered'
<1>1. Rows \subseteq Rows' /\ Newest' = Newest /\ Newest \in Nat
  BY JobsStep, NewestFacts DEF Still, Newest
<1>2. \A j \in Rows : jobs'[j].status = "completed" => jobs[j].status = "completed"
  BY <1>1, CompletedBy
<1>3. MadeNewest'
  BY <1>1 DEF Still, LInv, MadeNewest, In, Reading
<1>4. \A s \in Sweepers : Reading(s)' => Reading(s) /\ sweeps'[s] = sweeps[s]
  BY DEF Still, Reading
<1>5. answers' = answers /\ Newest' >= Newest
  BY <1>1 DEF Still
<1>6. Covered'
  BY <1>1, <1>2, <1>4, <1>5, CoveredOn
<1> QED
  BY <1>3, <1>6

LEMMA CoveredInitially == Init => LInv
<1> SUFFICES ASSUME Init PROVE MadeNewest /\ Covered
  BY DEF LInv
<1>1. versions = <<>> /\ answers.sound = 0 /\ sweeps = [s \in Sweepers |-> Off]
  BY DEF Init
<1> QED
  BY <1>1 DEF MadeNewest, In, Off, Covered, Newest

LEMMA CoveredStep == IInv /\ TInv /\ LInv /\ [Next]_vars => LInv'
<1> SUFFICES ASSUME IInv, TInv, LInv, [Next]_vars, Enhances' PROVE MadeNewest' /\ Covered'
  BY DEF LInv
<1>1. Enhances
  BY SpentStep DEF Enhances, Kind
<1> QED
  BY <1>1, EnhanceSteps, AnswerCovers, WorkCovers, SettleCovers, StillCovers

LEMMA CoveredInvariance == Spec => [](IInv /\ TInv /\ LInv)
<1>1. Init => LInv
  BY CoveredInitially
<1>2. IInv /\ TInv /\ LInv /\ [Next]_vars => LInv'
  BY CoveredStep
<1> QED
  BY <1>1, <1>2, TypesInvariance, PTL DEF Spec

\* Unless sweeps overlap, an enhancement that was answered with a new job, or with an active one
\* whose run had not read an older text, is not lost, however often texts change, requests fail,
\* jobs are cancelled or retried and the API crashes: once every job has completed, the newest
\* version is of that text or a later one.
THEOREM LatestAlwaysCurrent == Spec => []LatestIsCurrent
<1>1. IInv /\ TInv /\ LInv => LatestIsCurrent
  <2> SUFFICES ASSUME IInv, TInv, LInv, AllCompleted PROVE Newest >= answers.sound
    BY DEF LatestIsCurrent
  <2>1. Covered
    BY DEF AllCompleted, LInv, Enhances, Kind
  <2> QED
    BY <2>1 DEF AllCompleted, Covered, Carries
<1> QED
  BY <1>1, CoveredInvariance, PTL
=============================================================================
