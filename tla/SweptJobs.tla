----------------------------- MODULE SweptJobs ------------------------------
(***************************************************************************)
(* The jobs the API itself carries out: a timer sweeps the queued ones and *)
(* those that have been processing for more than a minute                  *)
(* (material-enhancement/enhancement.service.ts,                           *)
(* question-extraction/question-extraction.service.ts,                     *)
(* question-papers/question-paper-extraction.service.ts,                   *)
(* paper-patterns/paper-pattern-extraction.service.ts of apps/api/src).    *)
(*                                                                         *)
(* A behaviour has one kind of job and one source: a material whose typed  *)
(* text is replaced ("enhance"), a material ("extract"), or a pasted text  *)
(* or uploaded file ("paper", "pattern").                                  *)
(*                                                                         *)
(* Grain.  One database statement or transaction is one step, so is one    *)
(* access to the stored file; reads that nothing in between can tell apart *)
(* are one.  A timer tick starts a sweep whether or not the previous one   *)
(* has ended; whether sweeps take that long is part of the setting.  A     *)
(* teacher's review of an extracted question is one step.                  *)
(***************************************************************************)
EXTENDS Integers, FiniteSets, Sequences

CONSTANTS
  Sweepers,     \* bound: sweeps that run at once
  Requests,     \* concurrent API requests
  Items,        \* questions the extractor detects in the source
  Settings,     \* kinds of job and bounds: see IsSetting
  Null

Kinds == {"enhance", "extract", "paper", "pattern"}

\* overlap: sweeps may last longer than the timer's interval.  file: the source was uploaded.
\* The rest are bounds: jobs rows, changes of the source, calls that request, cancel or retry
\* a job, crashes, leases that expire under a sweep still working, and what teachers do.
IsSetting(s) ==
  /\ DOMAIN s = {"kind", "overlap", "file", "jobs", "changes", "calls", "crashes", "expiries",
                "reviews"}
  /\ s.kind \in Kinds /\ s.overlap \in BOOLEAN /\ s.file \in BOOLEAN
  /\ s.file => s.kind \in {"paper", "pattern"}
  /\ s.jobs \in Nat /\ s.changes \in Nat /\ s.calls \in Nat /\ s.crashes \in Nat /\ s.expiries \in Nat
  /\ s.reviews \in Nat

ASSUME SweptJobsAssumption == \A s \in Settings : IsSetting(s)

VARIABLES
  setting,      \* the setting of this behaviour
  jobs,         \* jobs rows, in order: status, lease (of started_at), pattern (in the payload)
  sweeps,       \* running sweeps and what they have read
  requests,     \* in-flight API requests and what they have read
  source,       \* how often the material's text has been set or changed
  stored,       \* the uploaded file is in object storage
  versions,     \* material_enhancements: the source each version was made from
  rows,         \* questions extracted, with their links into the paper
  patterns,     \* paper_patterns, in order: empty, filled (by a job), typed (by hand) or gone
  made,         \* insertions of extracted questions so far
  handled,      \* history: items a teacher has edited, accepted or discarded
  answers,      \* history: the source when an enhancement was last asked for and answered with
                \* a job (given), and with one that had not read an older text (sound)
  spent         \* calls, crashes, expiries and reviews so far

results == <<versions, rows, patterns, made>>
vars == <<setting, jobs, sweeps, requests, source, stored, results, handled, answers, spent>>

-----------------------------------------------------------------------------
(* Jobs, and the requests that make them.                                  *)

Rows == DOMAIN jobs
Active(j) == jobs[j].status \in {"queued", "processing"}
SetStatus(j, status) == jobs' = [jobs EXCEPT ![j].status = status]
Structured == {p \in DOMAIN patterns : patterns[p] \in {"filled", "typed"}}

Idle == [op |-> "idle"]
Goto(r, next) == requests' = [requests EXCEPT ![r] = next]
End(r) == Goto(r, Idle)
At(r, stage) == requests[r].op = "ask" /\ requests[r].stage = stage
GotoStage(r, stage) == Goto(r, [requests[r] EXCEPT !.stage = stage])

Spend(what) == spent[what] < setting[what] /\ spent' = [spent EXCEPT ![what] = @ + 1]

\* A run reuseFor or requestEnhancement answers with instead of a new one.
Reusable ==
  \/ \E j \in Rows : Active(j)
  \/ setting.kind = "paper" /\ \E j \in Rows : jobs[j].status = "completed"
  \/ setting.kind = "pattern" /\ Structured # {}

\* A material's text is set, replaced or corrected, and an enhancement asked for; the caller
\* does not wait for the answer.
ChangeSource(r) ==
  /\ setting.kind = "enhance" /\ source < setting.changes
  /\ requests[r] = Idle
  /\ source' = source + 1
  /\ Goto(r, [op |-> "ask", stage |-> "check", pattern |-> Null])
  /\ UNCHANGED <<setting, jobs, sweeps, stored, results, handled, answers, spent>>

\* An extraction is asked for, or by hand the enhancement of a material that has a text.
Ask(r) ==
  /\ setting.kind \in {"paper", "pattern"} \/ (setting.kind = "enhance" /\ source > 0)
  /\ requests[r] = Idle /\ Spend("calls")
  /\ Goto(r, [op |-> "ask", stage |-> "check", pattern |-> Null])
  /\ UNCHANGED <<setting, jobs, sweeps, source, stored, results, handled, answers>>

\* What follows the last check: a pattern is created before its job.
FromCheck == IF setting.kind = "pattern" THEN "resource" ELSE "insert"

\* An active job whose run, if there is one, has not read an older text.
Reading(s) == sweeps[s].stage \in {"latest", "insert", "complete"}
UpToDate(j) == Active(j) /\ \A s \in Sweepers : Reading(s) /\ sweeps[s].job = j => sweeps[s].seen = source

AskCheck(r) ==
  /\ At(r, "check")
  /\ IF Reusable THEN End(r) ELSE GotoStage(r, IF setting.file THEN "save" ELSE FromCheck)
  /\ answers' = IF setting.kind = "enhance" /\ Reusable
                THEN [given |-> source, sound |-> IF \E j \in Rows : UpToDate(j) THEN source ELSE answers.sound]
                ELSE answers
  /\ UNCHANGED <<setting, jobs, sweeps, source, stored, results, handled, spent>>

\* The key of the stored file is made from its hash: the same file, the same key.
AskSave(r) ==
  /\ At(r, "save")
  /\ stored' = TRUE
  /\ GotoStage(r, "recheck")
  /\ UNCHANGED <<setting, jobs, sweeps, source, results, handled, answers, spent>>

\* enqueue checks again, and drops the copy it finds redundant.
AskRecheck(r) ==
  /\ At(r, "recheck")
  /\ GotoStage(r, IF Reusable THEN "drop" ELSE FromCheck)
  /\ UNCHANGED <<setting, jobs, sweeps, source, stored, results, handled, answers, spent>>

\* A request may fail at each step; once it has saved the file it drops it.  No one is told
\* when it was for an enhancement that follows a change.
AskFails(r) ==
  /\ requests[r].op = "ask" /\ ~At(r, "drop")
  /\ IF setting.file /\ requests[r].stage \in {"recheck", "resource", "insert"}
     THEN GotoStage(r, "drop") ELSE End(r)
  /\ UNCHANGED <<setting, jobs, sweeps, source, stored, results, handled, answers, spent>>

\* A deletion that fails is let go.
AskDrop(r) ==
  /\ At(r, "drop")
  /\ stored' \in {FALSE, stored}
  /\ End(r)
  /\ UNCHANGED <<setting, jobs, sweeps, source, results, handled, answers, spent>>

\* The placeholder: a pattern without structure.
AskResource(r) ==
  /\ At(r, "resource")
  /\ patterns' = Append(patterns, "empty")
  /\ Goto(r, [requests[r] EXCEPT !.stage = "insert", !.pattern = Len(patterns) + 1])
  /\ UNCHANGED <<setting, jobs, sweeps, source, stored, versions, rows, made, handled, answers, spent>>

Queued(pattern) == [status |-> "queued", lease |-> "none", pattern |-> pattern]

AskInsert(r) ==
  /\ At(r, "insert")
  /\ Len(jobs) < setting.jobs
  /\ jobs' = Append(jobs, Queued(requests[r].pattern))
  /\ answers' = IF setting.kind = "enhance" THEN [given |-> source, sound |-> source] ELSE answers
  /\ End(r)
  /\ UNCHANGED <<setting, sweeps, source, stored, results, handled, spent>>

\* cancelJob and retryJob: the status is read, and the one it leads to written later.
\* Mutation: another spelling.
NextStatusMisspelt(status) ==
  CASE status = "queued" -> "canceled" [] status = "processing" -> "cancelling" [] OTHER -> "queued"
NextStatus(status) ==
  CASE status = "queued" -> "cancelled" [] status = "processing" -> "cancelling" [] OTHER -> "queued"
StatusRead(r, j) ==
  /\ requests[r] = Idle
  /\ jobs[j].status \in {"queued", "processing", "failed", "cancelled"}
  /\ Spend("calls")
  /\ Goto(r, [op |-> "status", job |-> j, next |-> NextStatus(jobs[j].status)])
  /\ UNCHANGED <<setting, jobs, sweeps, source, stored, results, handled, answers>>

StatusWrite(r) ==
  /\ requests[r].op = "status"
  /\ SetStatus(requests[r].job, requests[r].next)
  /\ End(r)
  /\ UNCHANGED <<setting, sweeps, source, stored, results, handled, answers, spent>>

-----------------------------------------------------------------------------
(* Sweeps.                                                                 *)

Off == [stage |-> "off"]
Put(s, next) == sweeps' = [sweeps EXCEPT ![s] = next]
In(s, stage) == sweeps[s].stage = stage
On(s, stage, kind) == In(s, stage) /\ setting.kind = kind
GoOn(s, stage) == Put(s, [sweeps[s] EXCEPT !.stage = stage])
Forget(s, stage) == Put(s, [stage |-> stage, todo |-> sweeps[s].todo, job |-> sweeps[s].job, seen |-> Null])
NextJob(s) == IF sweeps[s].todo = {} THEN Off ELSE [stage |-> "pick", todo |-> sweeps[s].todo]
Working(j) == \E s \in Sweepers : ~In(s, "off") /\ ~In(s, "pick") /\ sweeps[s].job = j

\* Queued, or processing for longer than the lease.  Mutation: queued only.
AdoptableQueued(j) == jobs[j].status = "queued"
Adoptable(j) == jobs[j].status = "queued" \/ (jobs[j].status = "processing" /\ jobs[j].lease = "stale")

SweepBegin(s) ==
  LET todo == {j \in Rows : Adoptable(j)} IN
  /\ In(s, "off") /\ todo # {}
  /\ setting.overlap \/ \A t \in Sweepers : In(t, "off")
  /\ Put(s, [stage |-> "pick", todo |-> todo])
  /\ UNCHANGED <<setting, jobs, requests, source, stored, results, handled, answers, spent>>

\* Each job of the list in turn, whatever its status has become.
SweepMark(s, j) ==
  /\ In(s, "pick") /\ j \in sweeps[s].todo
  /\ jobs' = [jobs EXCEPT ![j].status = "processing", ![j].lease = "fresh"]
  /\ Put(s, [stage |-> "source", todo |-> sweeps[s].todo \ {j}, job |-> j, seen |-> Null])
  /\ UNCHANGED <<setting, requests, source, stored, results, handled, answers, spent>>

FromSource ==
  CASE setting.kind = "enhance" -> "latest" [] setting.kind = "extract" -> "purge"
    [] setting.kind = "paper" -> "select" [] setting.kind = "pattern" -> "existing"

\* The source is read; a file that is gone fails the job.
ReadSource(s) ==
  /\ In(s, "source")
  /\ Put(s, [sweeps[s] EXCEPT !.stage = IF ~setting.file THEN FromSource ELSE IF stored THEN "drop" ELSE "fail",
                              !.seen = source])
  /\ UNCHANGED <<setting, jobs, requests, source, stored, results, handled, answers, spent>>

\* The file is deleted once its pages are read, before anything is kept of them; a deletion
\* that fails is let go.
DropFile(s) ==
  /\ In(s, "drop")
  /\ stored' \in {FALSE, stored}
  /\ GoOn(s, FromSource)
  /\ UNCHANGED <<setting, jobs, requests, source, results, handled, answers, spent>>

\* An enhancement of the same fingerprint and revision is not made again.  Mutations: it is, or
\* any enhancement is enough.
UnchangedNever(seen) == FALSE
UnchangedOnce(seen) == versions # <<>>
Unchanged(seen) == versions # <<>> /\ versions[Len(versions)] = seen

ReadLatest(s) ==
  /\ In(s, "latest")
  /\ Put(s, [stage |-> IF Unchanged(sweeps[s].seen) THEN "complete" ELSE "insert",
             todo |-> sweeps[s].todo, job |-> sweeps[s].job, seen |-> sweeps[s].seen,
             version |-> Len(versions) + 1])
  /\ UNCHANGED <<setting, jobs, requests, source, stored, results, handled, answers, spent>>

\* UNIQUE (material_id, version).
InsertEnhancement(s) ==
  /\ On(s, "insert", "enhance")
  /\ IF sweeps[s].version = Len(versions) + 1
     THEN versions' = Append(versions, sweeps[s].seen) /\ GoOn(s, "complete")
     ELSE Forget(s, "fail") /\ UNCHANGED versions
  /\ UNCHANGED <<setting, jobs, requests, source, stored, rows, patterns, made, handled, answers, spent>>

\* REVIEW rows of the run whose last editor is their creator: those no one else has touched.
\* Mutation: the editor is not asked for.
StaleReview(j) == {row \in rows : row.job = j /\ row.status = "REVIEW"}
Stale(j) == {row \in rows : row.job = j /\ row.status = "REVIEW" /\ row.editor = "owner"}

\* A material's extraction purges them in one statement.
Purge(s) ==
  /\ In(s, "purge")
  /\ rows' = rows \ Stale(sweeps[s].job)
  /\ GoOn(s, "insert")
  /\ UNCHANGED <<setting, jobs, requests, source, stored, versions, patterns, made, handled, answers, spent>>

\* A paper's extraction selects them, then deletes their links, then the rows it selected.
Id(row) == <<row.batch, row.item>>
SelectStale(s) ==
  LET ids == {Id(row) : row \in Stale(sweeps[s].job)} IN
  /\ In(s, "select")
  /\ Put(s, [sweeps[s] EXCEPT !.stage = IF ids = {} THEN "insert" ELSE "unlink", !.seen = ids])
  /\ UNCHANGED <<setting, jobs, requests, source, stored, results, handled, answers, spent>>

Unlink(s) ==
  /\ In(s, "unlink")
  /\ rows' = {IF Id(row) \in sweeps[s].seen THEN [row EXCEPT !.linked = FALSE] ELSE row : row \in rows}
  /\ GoOn(s, "delete")
  /\ UNCHANGED <<setting, jobs, requests, source, stored, versions, patterns, made, handled, answers, spent>>

DeleteStale(s) ==
  /\ In(s, "delete")
  /\ rows' = {row \in rows : Id(row) \notin sweeps[s].seen}
  /\ Forget(s, "insert")
  /\ UNCHANGED <<setting, jobs, requests, source, stored, versions, patterns, made, handled, answers, spent>>

\* One row per detected question, and in a paper its link, in one statement or transaction.
\* The paper's own row, written before, and the answer jobs asked for one after the other
\* once the questions are there are left out.
Extracted(s) ==
  [batch : {made + 1}, job : {sweeps[s].job}, item : Items, status : {"REVIEW"},
   editor : {"owner"}, linked : {setting.kind = "paper"}]
InsertRows(s) ==
  /\ In(s, "insert") /\ setting.kind \in {"extract", "paper"}
  /\ rows' = rows \cup Extracted(s)
  /\ made' = made + 1
  /\ GoOn(s, "complete")
  /\ UNCHANGED <<setting, jobs, requests, source, stored, versions, patterns, handled, answers, spent>>

\* A source that has a pattern gets no second one; ...  Mutation: a re-swept job never looks.
ExistingNever == FALSE
Existing == Structured # {}

ReadPatterns(s) ==
  /\ In(s, "existing")
  /\ GoOn(s, IF Existing THEN "complete" ELSE "placeholder")
  /\ UNCHANGED <<setting, jobs, requests, source, stored, results, handled, answers, spent>>

\* ... otherwise the job's placeholder is read, and filled when it is there and still empty.
\* When it is not, or cannot be read, a pattern is made.
ReadPlaceholder(s) ==
  /\ In(s, "placeholder")
  /\ \/ patterns[jobs[sweeps[s].job].pattern] = "empty" /\ GoOn(s, "fill")
     \/ GoOn(s, "create")
  /\ UNCHANGED <<setting, jobs, requests, source, stored, results, handled, answers, spent>>

FillPattern(s) ==
  LET p == jobs[sweeps[s].job].pattern IN
  /\ In(s, "fill")
  /\ patterns' = [patterns EXCEPT ![p] = IF @ = "gone" THEN @ ELSE "filled"]
  /\ GoOn(s, "complete")
  /\ UNCHANGED <<setting, jobs, requests, source, stored, versions, rows, made, handled, answers, spent>>

CreatePattern(s) ==
  /\ In(s, "create")
  /\ patterns' = Append(patterns, "filled")
  /\ GoOn(s, "complete")
  /\ UNCHANGED <<setting, jobs, requests, source, stored, versions, rows, made, handled, answers, spent>>

\* The outcome is written whatever the status has become.
Settle(s) ==
  /\ In(s, "complete") \/ In(s, "fail")
  /\ SetStatus(sweeps[s].job, IF In(s, "complete") THEN "completed" ELSE "failed")
  /\ Put(s, NextJob(s))
  /\ UNCHANGED <<setting, requests, source, stored, results, handled, answers, spent>>

\* Any step may raise, the marking of a job included: the OCR service refuses, the database
\* fails.
MarkFails(s, j) ==
  /\ In(s, "pick") /\ j \in sweeps[s].todo
  /\ Put(s, [stage |-> "fail", todo |-> sweeps[s].todo \ {j}, job |-> j, seen |-> Null])
WorkFails(s) ==
  /\ ~In(s, "off") /\ ~In(s, "pick") /\ ~In(s, "fail")
  /\ Forget(s, "fail")
StepFails(s) ==
  /\ WorkFails(s) \/ \E j \in Rows : MarkFails(s, j)
  /\ UNCHANGED <<setting, jobs, requests, source, stored, results, handled, answers, spent>>

SweepWork(s) ==
  \/ \E j \in Rows : SweepMark(s, j)
  \/ ReadSource(s) \/ DropFile(s) \/ ReadLatest(s) \/ InsertEnhancement(s) \/ Purge(s)
  \/ SelectStale(s) \/ Unlink(s) \/ DeleteStale(s) \/ InsertRows(s)
  \/ ReadPatterns(s) \/ ReadPlaceholder(s) \/ FillPattern(s) \/ CreatePattern(s) \/ Settle(s)

-----------------------------------------------------------------------------
(* Time, crashes, teachers.                                                *)

\* A minute has passed since the job was marked.
Expire(j) ==
  /\ jobs[j].lease = "fresh"
  /\ jobs' = [jobs EXCEPT ![j].lease = "stale"]
  /\ IF Working(j) THEN setting.overlap /\ Spend("expiries") ELSE UNCHANGED spent
  /\ UNCHANGED <<setting, sweeps, requests, source, stored, results, handled, answers>>

\* The API process stops and starts again; the failure to write that a job has failed, which
\* nothing catches, stops it as well.
Crash ==
  /\ Spend("crashes")
  /\ sweeps' = [s \in Sweepers |-> Off]
  /\ requests' = [r \in Requests |-> Idle]
  /\ UNCHANGED <<setting, jobs, source, stored, results, handled, answers>>

Rewrite(row, new) ==
  /\ rows' = (rows \ {row}) \cup new
  /\ handled' = handled \cup {row.item}
  /\ Spend("reviews")
  /\ UNCHANGED <<setting, jobs, sweeps, requests, source, stored, versions, patterns, made, answers>>

\* updateCandidate, acceptCandidate, discardCandidate, by the run's owner or an administrator.
Editors == {"owner", "other"}
EditRow(row, who) ==
  /\ row.status = "REVIEW"
  /\ Rewrite(row, {[row EXCEPT !.editor = who]})
AcceptRow(row, who) ==
  /\ row.status = "REVIEW"
  /\ Rewrite(row, {[row EXCEPT !.editor = who, !.status = "ACTIVE"]})
DiscardRow(row) ==
  /\ row.status = "REVIEW"
  /\ Rewrite(row, {})

\* A teacher gives a pattern its structure, or deletes it.
TypePattern(p) ==
  /\ patterns[p] = "empty"
  /\ patterns' = [patterns EXCEPT ![p] = "typed"]
  /\ Spend("reviews")
  /\ UNCHANGED <<setting, jobs, sweeps, requests, source, stored, versions, rows, made, handled, answers>>
DeletePattern(p) ==
  /\ patterns[p] # "gone"
  /\ patterns' = [patterns EXCEPT ![p] = "gone"]
  /\ Spend("reviews")
  /\ UNCHANGED <<setting, jobs, sweeps, requests, source, stored, versions, rows, made, handled, answers>>

-----------------------------------------------------------------------------

\* Nothing enqueues a question extraction from a material any more: its job is there.
Init ==
  /\ setting \in Settings
  /\ jobs = IF setting.kind = "extract" THEN <<Queued(Null)>> ELSE <<>>
  /\ sweeps = [s \in Sweepers |-> Off]
  /\ requests = [r \in Requests |-> Idle]
  /\ source = 0 /\ stored = FALSE
  /\ versions = <<>> /\ rows = {} /\ patterns = <<>> /\ made = 0
  /\ handled = {} /\ answers = [given |-> 0, sound |-> 0]
  /\ spent = [what \in {"calls", "crashes", "expiries", "reviews"} |-> 0]

Request(r) ==
  \/ ChangeSource(r) \/ Ask(r) \/ AskCheck(r) \/ AskSave(r) \/ AskRecheck(r) \/ AskFails(r) \/ AskDrop(r)
  \/ AskResource(r) \/ AskInsert(r) \/ StatusWrite(r)
  \/ \E j \in Rows : StatusRead(r, j)

Teacher ==
  \/ \E row \in rows : DiscardRow(row) \/ \E who \in Editors : EditRow(row, who) \/ AcceptRow(row, who)
  \/ \E p \in DOMAIN patterns : TypePattern(p) \/ DeletePattern(p)

Next ==
  \/ \E r \in Requests : Request(r)
  \/ \E s \in Sweepers : SweepBegin(s) \/ SweepWork(s) \/ StepFails(s)
  \/ \E j \in Rows : Expire(j)
  \/ Crash \/ Teacher

\* The timer ticks, a sweep that runs goes on, and time passes.
Fairness ==
  /\ \A s \in Sweepers : WF_vars(SweepBegin(s)) /\ WF_vars(SweepWork(s))
  /\ WF_vars(\E j \in Rows : Expire(j))

Spec == Init /\ [][Next]_vars /\ Fairness

-----------------------------------------------------------------------------
(* Properties.                                                             *)

Statuses == {"queued", "processing", "cancelling", "completed", "failed", "cancelled"}
Stages == {"pick", "source", "drop", "latest", "purge", "select", "unlink", "delete", "existing",
           "placeholder", "insert", "fill", "create", "complete", "fail"}

\* The shape of the state: a sweep and a request hold what their stage needs, and every row
\* belongs to a job.
TypeOK ==
  /\ setting \in Settings
  /\ jobs \in Seq([status : Statuses, lease : {"none", "fresh", "stale"}, pattern : DOMAIN patterns \cup {Null}])
  /\ \A s \in Sweepers : \/ sweeps[s] = Off
                        \/ /\ sweeps[s].stage \in Stages /\ sweeps[s].todo \subseteq Rows
                           /\ sweeps[s].stage # "pick" => sweeps[s].job \in Rows \ sweeps[s].todo
                           /\ sweeps[s].stage = "pick" => sweeps[s].todo # {}
  /\ \A r \in Requests : requests[r].op = "status" => requests[r].job \in Rows
  /\ source \in 0..setting.changes /\ stored \in BOOLEAN
  /\ versions \in Seq(0..source)
  /\ rows \subseteq [batch : 1..made, job : Rows, item : Items, status : {"REVIEW", "ACTIVE"},
                    editor : Editors, linked : BOOLEAN]
  /\ patterns \in Seq({"empty", "filled", "typed", "gone"})
  /\ handled \subseteq Items /\ answers \in [given : 0..source, sound : 0..source]
  /\ \A what \in DOMAIN spent : spent[what] \in 0..setting[what]

\* The versions of an enhancement move on with the material: no version is made of the text
\* the one before it was made of, and unless sweeps overlap none is made of an older text,
\* whatever is swept again after a crash, a cancellation or a retry.
VersionsAdvance ==
  \A n \in 1..Len(versions) - 1 :
    /\ versions[n] # versions[n + 1]
    /\ setting.overlap \/ versions[n] < versions[n + 1]

\* An enhancement that was asked for and answered with a job is not lost: once every job has
\* completed, the newest version is of the text of that moment or a later one, whatever was
\* changed meanwhile, crashed, cancelled or retried; unless the job was an active one whose
\* run had read an older text (requestEnhancement, processJob).  A request that fails answers
\* nothing, and no one hears of it.
Newest == IF versions = <<>> THEN 0 ELSE versions[Len(versions)]
AllCompleted == setting.kind = "enhance" /\ ~setting.overlap /\ \A j \in Rows : jobs[j].status = "completed"
LatestIsCurrent == AllCompleted => Newest >= answers.sound

\* enhancement.service.ts:84-86: "an already-active job for the material is reused instead of
\* stacking duplicates (the sweep's fingerprint check makes this safe)": whatever active job
\* a request was answered with, its text is not left without a version (requestEnhancement).
ReuseIsSafe == AllCompleted => Newest >= answers.given

\* A run that is swept again, after a crash, a failure or a retry, leaves one result: of every
\* detected question no teacher has handled there is at most one row per run, exactly one
\* once the run is completed, and of the patterns of a source one is filled; a second
\* placeholder of two requests stays empty (reuseFor, enqueue).
Found(j, i) == {row \in rows : row.job = j /\ row.item = i}
ResultsOnce ==
  ~setting.overlap =>
    /\ \A j \in Rows : \A i \in Items \ handled :
         /\ Cardinality(Found(j, i)) <= 1
         /\ setting.kind \in {"extract", "paper"} /\ jobs[j].status = "completed" => Found(j, i) # {}
    /\ Cardinality({p \in DOMAIN patterns : patterns[p] = "filled"}) <= 1

\* A material's extraction purges no question that has been accepted, and none that another
\* than its owner has edited.
PurgeSparesTouched ==
  [][setting.kind = "extract" /\ sweeps' # sweeps =>
       \A row \in rows : row.status = "ACTIVE" \/ row.editor = "other" => row \in rows']_vars

\* What the extraction of papers says of its purge: never an accepted question.
AcceptedKept == [][\A row \in rows : row.status = "ACTIVE" => row \in rows']_vars

\* No job stays queued or processing, whatever crashes, leases, failures and cancellations do
\* to the sweep that works on it.  One whose sweep has died after a cancel may stay cancelling:
\* no sweep looks for it and retryJob refuses it.
JobsSettle == <>[](\A j \in Rows : ~Active(j))

=============================================================================
