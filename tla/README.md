# EduTech: TLA+ models, model checking and proofs

EduTech is a teaching platform. A NestJS API (`apps/api`) over PostgreSQL holds the
rules; two kinds of Python worker processes extend it: OCR workers
(`apps/workers/ocr-worker`, which poll the API over HTTP) and an AI/syllabus worker
(`apps/workers/worker`, which consumes RabbitMQ queues and writes to the database
itself); `apps/web` is the user interface. This directory models the parts in which
several of these actors work on the same rows.

Contents: 1. inventory, 2. plan, 3. the modules and the code, 4. what the runs check,
5. bounds, 6. fairness, 7. proofs, 8. where code and documentation differ,
9. what is not modelled.

## 1. Inventory

State is PostgreSQL rows unless said otherwise. Handlers run concurrently, one per
request; almost all of them read in one statement and write in a later one.

| Part | State | Operations | Hard behaviour | What makes it correct |
|---|---|---|---|---|
| OCR coordinator (`ocr/ocr-coordinator.service.ts`) | `ocr_chunks` (status, claimed_by, lease, attempts, page texts), the MATERIAL_PROCESS job, the material's status and text | enqueueJob, claim, heartbeat, submitResult, failChunk, sweep every few seconds, page corrections | sweeps overlap; leases expire under slow workers; results land late; the API may die between two transactions | only the whole text is published; a chunk has one live holder; chunks are not lost; jobs settle |
| OCR worker (`ocr_worker/app.py`) | one chunk in hand (process memory) | poll, fetch, extract, submit, report, heartbeat | loses its lease and exits; crashes; times out while the API still works on its call | – |
| Jobs (`jobs/jobs.service.ts`) | `jobs.status` | create, cancel, retry, updateJobStatus | status written without a condition; cancel reads and writes separately | a cancellation ends; terminal states stay |
| Materials (`materials/materials.service.ts`) | `materials.processing_status` | process, retry, upload, archive | the chunk transaction, the job row and the material row are written in three steps with a compensating failure path | no material waits for ever |
| Attempts (`attempts/attempts.service.ts`) | `attempts`, `attempt_questions`, `attempt_responses` | start, saveResponse, submit, detail, result | concurrent starts; submit against lazy expiry; answers at the deadline; edits of the paper and of the keys | one open attempt; one final outcome, scored from the snapshot; no late answer |
| Examinations (`examinations/examinations.service.ts`) | `assessments`, `assessment_questions` | create, update, setScope, publish, activate, complete, unpublish, delete, add / remove / auto-select questions | every handler checks a status it read before; the bank changes underneath | what students may take is what the gate saw, but for what the bank has deleted or changed since; a total order of the questions |
| Paper selection (`examinations/paper-selection.ts`) | none (pure) | planAutoSelection, pickForSection, computePatternCoverage | percentages of small counts, shortages, questions shared by rules | no question twice, counts and levels kept as far as the candidates go, the first shortage honest, coverage that agrees; for stored weights nobody has checked |
| AI worker (`worker/ai`, `worker/db.py`) | the AI jobs, the RabbitMQ queue, its threads, and every table a result goes to | consume, check, persist, complete, enqueue dependents, fail; recover at start-up | at-least-once delivery, lost connections, a crash, a cancel between check and write, two runs of one job, a teacher at the same row | a rerun stores once, a teacher's work is kept, completed means stored, jobs settle |
| Content, question, answer, syllabus and blueprint requests (five services of `apps/api`) | AI jobs under a partial unique index | check, insert, mark, publish | the process stops between insert and publish; the broker refuses | one active generation per source (answers by a check alone); nothing is stored of a topic without material |
| Syllabus (`syllabus`, `worker/consumer.py`) | syllabuses, their analysis and structure | request an analysis, confirm; PROCESS_SYLLABUS | confirmed while an analysis runs | a confirmed structure stays |
| Material enhancement (`material-enhancement`) | `material_enhancements` versions | request on every change of the text, sweep | a job older than 60 s is adopted again while it runs; a change arrives while a run has read the older text | versions move on with the text; what was answered with a job is not lost |
| Question, paper and pattern extraction | extraction jobs, candidates in REVIEW, patterns, stored files | request with reuse, sweep, review | as for enhancement; a purge of what a teacher reviews; a file deleted before its results are stored | one result per run; accepted questions stay; one pattern per source |
| Practice | sessions, items, responses | start, answer, complete | as for attempts, without a deadline | one open session per source |
| Question bank, paper patterns, question papers, content versions | rows with an approval status | edits, approve, archive, delete | edits during use | – |
| Chunked upload | stored parts | save part, assemble | parts out of order | – |
| Academic structure and placements | a tree, placements with validity | transactional edits | – | one active placement |
| Identity, authorization, tenancy, platform, export, storage, web | – | – | – | outside the scope (section 9) |

How the parts interact: `materials` starts a job and calls `ocr-coordinator.enqueueJob`;
`jobs` creates, cancels and retries the same job rows behind the coordinator's back; the
sweep adopts and settles them; the workers reach the coordinator through four HTTP
routes; READY materials feed `material-enhancement` and AI generation; generated and
extracted questions enter the question bank; `paper-selection` chooses among them and
`examinations` links them to papers; `attempts` takes a snapshot of a paper and its
questions when a student starts. Three executors carry out jobs: the OCR workers claim
chunks over HTTP, the AI worker consumes a queue, and the API sweeps the rest with timers.

`PROJECT.json` lists the hazards of this code line by line, with the properties that
would catch each, and those no property covers yet.

## 2. Plan

Order of work, most important behaviour first.

1. `OcrCoordinator`: the distributed OCR of a material. **Done**, with `OcrCoordinatorProof`
   (page corrections left).
2. `Attempts`: the examination attempt, and `Exam`, what it promises. **Done**, with
   `AttemptsProof` and `AttemptsExam`.
3. `Assessments` with `PaperSelection`: the teacher's side, the bank, and how a paper is
   chosen. **Done**, with `AssessmentsProof`.
4. `AiJobs`: requests, queue, worker threads, recovery, and the results of six kinds of
   job. **Done**, with `AiJobsProof`; batches of jobs and PROCESS_SYLLABUS left.
5. `SweptJobs`: enhancement and extraction, carried out by the API's timers. **Done**, with
   `SweptJobsProof`.

Left, in this order: page corrections and the re-aggregation they cause;
`Assessments` as the environment of `Attempts`, whose `EditAssessment` its handlers refine;
`Practice` in the vocabulary of `Attempts`; batches and the review board of generated
questions.

## 3. Modules and code

| Module | Models |
|---|---|
| `OcrCoordinator` | coordinator, worker process, registry flag, job rows, process / retry / cancel endpoints |
| `MCOcrCoordinator` | its instances: scenarios and symmetry |
| `OcrCoordinatorProof` | its type correctness, leases, publication, chunk sets and recovery, proved |
| `Attempts` | the attempt handlers, the tables they write, their environment |
| `MCAttempts` | its instances: papers and keys |
| `Exam` | what a student is promised: the abstract specification `Attempts` implements |
| `AttemptsProof` | the invariants of `Attempts`, proved |
| `AttemptsExam` | the refinement of `Exam` by `Attempts`, proved |
| `PaperSelection` | the pure algorithms: allocation, picking, planning, coverage |
| `PaperSelectionProof` | what they return, proved for every rule, whatever its weights, and every bank |
| `FiniteMaximum` | a finite set of numbers has its maximum: a lemma the proofs share |
| `Assessments` | one assessment's handlers and the question bank under it; uses `PaperSelection` |
| `MCAssessments` | its instances: banks, patterns, bounds |
| `AssessmentsProof` | its type correctness, invariants and action properties, proved |
| `AiJobs` | AI jobs: API requests, RabbitMQ, the worker's threads and start-up, results, teachers |
| `MCAiJobs` | its instances: workloads |
| `AiJobsProof` | its type correctness, invariants and action properties, proved |
| `SweptJobs` | the jobs the API's timers carry out: enhancement, three kinds of extraction |
| `MCSweptJobs` | its instances: settings |
| `SweptJobsProof` | its type correctness, invariants and action properties, proved |

The grain is the same everywhere: **one database statement or transaction is one step**.
A handler that reads first and writes later takes several steps and carries what it read
in its entry of `user`, `calls`, `sweep`, `sweeps`, `threads` or `requests`; every other
actor may move in between. Page texts are sets of pages, answers and keys members of a small set.

### OcrCoordinator

- `job`, `material`, `chunk`, `registry` are the rows. `chunk[j]` maps the chunk indexes
  that exist to their rows. `gen` counts how often a job's rows were re-created: a
  reference `(job, index, gen)` stands for the row's id, so that a call holding the id of a
  deleted row updates nothing (`UpdateRow`), as `UPDATE ... WHERE id = ...` does.
- `worker` is a worker process: `idle` (polling), `extract`, `submit`, `fail`, `wait`
  (for a response), `down`. `calls` are the result and failure requests the API has
  accepted: `SubmitTx`, then `MaterializeNextChunk`; `FailTx`. A call stays in `calls`
  after its worker has given up on it (`ClientTimeout`) or died (`WorkerCrash`); that is how a
  late result comes about.
- Leases have no clock. A live lease may expire at any moment and a heartbeat makes it live
  again, which covers every relation between heartbeat interval, lease and extraction time.
- `user` holds process / retry / cancel requests between their statements: `QUEUED` and the
  job row (`ProcessMaterial`, `InsertJob`), the chunk transaction (`EnqueueJob`), the status
  update (`MarkProcessing`). `EnqueueError` is a statement of these that fails; the catch block then
  fails the job (`FailEnqueued`) and puts the material back (`RevertMaterial`), two steps of
  which each may fail as well.
- `sweep` is a run of `sweep()`: `Reclaim`, `RetryFailed`, `ReadQueued`, per queued job
  `ReadMaterial`, `Adopt`, `MarkAdopted`; then `ReadActive` and per active job `SettleRead`
  followed by the transaction it decided on and `SettleJob`.
- `budget` bounds the environment. A *scenario* says how often each event (a crash, an
  expiry, a button pressed) may happen in a behaviour.

`materials.progress` is a display field and is left out, and so is everything written only
there. A claim may take any eligible row, because `FOR UPDATE SKIP LOCKED` passes
over rows another transaction holds at that moment.

### Attempts

- `attempts` maps the ids in use to rows joined with their snapshot (`questions`) and
  their saved answers (`responses`). `marksAwarded` stands for `is_correct` and
  `marks_awarded`.
- `requests` are `start`, `submit`, `detail` and `result` requests between statements.
  `start` reads the assessment (`StartRead`), looks for an open attempt (`StartCheck`), reads
  links and payloads (`StartSnapshot`), and inserts (`StartInsert`, where the partial unique
  index `attempts_one_in_progress_unique` decides). `submit` and the views go through
  `refreshAndExpire` (`RefreshKeeps`, `RefreshExpires`, `RefreshLost`, `RefreshReread`) and
  `submit` through its own guarded update (`SubmitCommit`, `SubmitWinner`).
- `SaveResponse` is one step: it holds the attempt's row lock from its read to its write, so that
  nobody else can move the attempt in between. It looks at the clock before it writes; the time
  that passes between the two statements is left out.
  `RefuseLateAnswer` is the path that expires the attempt and then throws inside the
  transaction, so nothing is written; its request stays as `refused` until the client has
  its answer, as a submit stays as `answered`.
- The teacher is an unrestricted environment: an assessment row, its links, or the bank may
  become any admitted one at any time. That is more than `examinations.service.ts` allows, so
  the safety properties do not depend on its checks.
- `ApiRestart` loses the requests in flight and with them nothing that was committed.
- `Exam` knows no requests and no teacher: `Begin`, `Answer`, `HandIn`, `Expire`, `Tick`.
  `ExamOf` maps a row to its exam: the paper is the snapshot, the answers are the responses
  without their marks, the score is the row's. `StartInsert`, `SaveResponse`, `SubmitCommit`
  and `RefreshExpires` are the four steps that move an exam; all others stutter.

Attempts expire lazily, when somebody looks; there is no timer. No liveness is claimed.

### PaperSelection and Assessments

- The database returns the approved questions in no order the code relies on, so what
  `pickForSection` may return is a set (`PickForSection`), and so is what `planAutoSelection`
  may decide for one rule (`Entries`). `Allocations` is the largest-remainder rounding, with
  its ties left open; a level the pool cannot fill is made up from the others in the order
  of the code, and the shortage is reported for the level.
- The weights of a rule have any sum, zero included. Approval checks that they make up 100, but
  a pattern that is unlocked and edited afterwards is stored unchecked and stays approved
  (`setLocked`, `updatePattern`), and only its status is looked at before it is used. A rule
  whose weights are all zero is filled by the last loop (`FillRest`), which reports every
  question as unmatched.
- A plan grows by one entry with each `SelectPlan`, from what the rules before have left
  (`Unpicked`). The loop of the code runs without a pause; its grain here costs nothing, since
  nothing it uses can change meanwhile, and lets an invariant speak of the plan so far.
- `assessment` and `links` are the row and its `assessment_questions`; `bank` says of each
  question whether it is approved and active, or deleted. A *setting* fixes the bank, the
  pattern and the number of clients.
- Every handler is two steps: `...Read` checks, and the write comes later, with no
  condition on what was read. `Publishable` is the publish gate: the status write comes after
  its reads. `addQuestions` and `autoSelectFromPattern` read inside their transaction before
  they insert (`AddMax`, `AddInsert`; `SelectDelete`, `SelectCommit`).
- Others review, archive and delete questions of the bank at any time; `DeleteQuestion`
  cascades into `links`, whatever the assessment's status. The history `gate` remembers the
  questions the publish gate last passed with (`seen`) and those others have touched since
  (`changed`): `GateHolds` says that what students take is `seen` less what was deleted, all of it
  approved and active but for `changed`.
- `GateHolds`, `SortOrderUnique`, `FrozenOncePublished` and `SelectedCovers` are about one
  client at a time (`OneClient`), and the bank under it: with two at once the code breaks them
  (section 8), which it defers explicitly.

### AiJobs

- A *workload* fixes which job rows may come to exist and what each asks for: kind
  (questions, content package, answer, starter material, syllabus analysis, blueprint
  analysis), source and target. `jobs`, `questions`, `items`, `candidates`, `materials`,
  `syllabi`, `patterns` are tables; `queue` counts ready messages.
- `requests` walk through check, insert (409 when `jobs_active_generation_unique` refuses),
  mark (syllabus) and publish; `RequestDies` stops one anywhere, `RequestPublishFails` is the
  broker refusing. `cancelJob`, `retryJob` and the review of a candidate (`ReviewRead`,
  `ReviewWrite`) read in one step and write in another. `Requestable` is what a request checks: of a
  MATERIAL that it is ready, of a TOPIC no more than that it exists; the worker then fails a run
  that finds nothing to work on (`Source`).
- A thread takes a message (`Deliver`) and keeps it until it acknowledges: `ReadStatus`,
  `Begin`, `Read` (the source), `Mark` (an analysis), `Ask` (the model), `RunFails`, `Check` (the
  last look for a cancellation), `Prepare` and a `Persist...` per kind, `Complete`, dependents,
  `Fail`, `Ack`. A transaction that decides by what it reads is two steps (`Prepare`,
  `Persist`); the other transaction may commit in between, except where a row lock forbids it.
- A candidate's `payload` is the number of the edit it stems from, an item's `versions` the
  set of its version numbers with `rows` counting them, so that a duplicate shows; `set` marks an
  item whose status a teacher has set (archived or made active again), which may leave two live
  items of one type.
- `LoseConnection` makes a held message ready again while its thread works on, which is how
  one job comes to run twice at once; so does cancel followed by retry. `Crash` frees
  all threads, and `Boot` then runs the two sweeps of `start_ai_consumer`.

### SweptJobs

- One module for four services with one protocol: a timer tick (`SweepBegin`) lists the
  queued jobs and those processing for more than a minute, marks each, reads the source,
  writes the result, completes the job. A *setting* chooses the kind and whether a sweep may
  take longer than the interval (`overlap`).
- A lease is the age of `started_at`: fresh, or stale once `Expire` says so.
- Kinds differ in what they purge and insert: an enhancement reads the latest version and
  inserts the next, if the text changed; a material's extraction purges in one guarded
  DELETE; a paper's selects, unlinks and deletes in three statements; a pattern's looks for a
  filled pattern, then for its placeholder, and fills that or creates a pattern. `stored` is the
  uploaded file, whose deletion may fail unnoticed.
- A request may fail at every step (`AskFails`). One that follows a change of the text is fire and
  forget: nobody hears of its failure, and the text has no job. A sweep may fail at every step,
  the marking of a job included (`MarkFails`, `WorkFails`); if even the write of the failure fails,
  nothing catches it and the process stops (`Crash`).
- `InsertRows` leaves out the paper's own row and resource, written before its questions
  (`question-paper-extraction.service.ts:531-553`), and the answer jobs an extraction asks for after
  them (`question-extraction.service.ts:384-407`), each a request of `AiJobs`.
- `handled` and `answers` are history variables that properties need to name their premise:
  the items a teacher has handled; and the text an enhancement was last asked for and
  answered with a job (`given`), or with a job that had not read an older text (`sound`).

## 4. Runs

| Run | Shows |
|---|---|
| `OcrLease` | leases are coherent and not stolen, every chunk gets created, only whole texts are published, active jobs have chunks – with two workers, overlapping sweeps, two jobs of one material, expiring leases, results that time out, cancel, retry and double starts |
| `OcrSettle` | one job and two workers, through crashes of both processes, a disabled worker, an expiring lease and a cancel: the same for publication, no orphaned material, no rebuilt running chunk set; under fairness, processing settles and cancelling ends |
| `AttemptRaces` | one open attempt, one final and correctly scored outcome, deadlines kept, submit answers with the outcome; the attempts implement `Exam` (`ExamKept`) |
| `Assessments` | what students may take is what the gate saw, less what the bank has deleted; numbers unique; a plan has the counts, types and levels its pattern asks for as far as the candidates go, and the paper it leaves has the coverage that is shown |
| `AiJobs` | a job that runs again stores once; versions gapless; a teacher's edits, touched questions and confirmed syllabi survive runs under way; a starter queues dependents only of a topic with material, and nothing is stored of one without; completed is stored; delivered jobs settle – through crashes, lost connections, cancels, retries |
| `SweptJobs` | versions move on with the text, and an enhancement answered with a job that can still see to it is not lost; a run swept again leaves one result; a material's purge spares what a teacher touched; no job stays queued or processing |
| `OcrCancel`, `OcrCrash`, `AttemptLate`, `SelectAgain`, `SweptAccepted`, `SweptMissed` | a statement of the repository the code does not keep (section 8) |

`AllChunksMaterialized` says that when every row of a running job is submitted and no
result is still being handled, the rows cover the document. It holds while the API lives
(`OcrLease`) and fails when it dies at the wrong moment (`OcrCrash`).

`SerialRunsStoreOnce` is about a worker with one thread only (`AI_CONCURRENCY=1`), though the
default is 5 and `docs/api/ai.md:434-438` promises the same of any worker: with two, a job with two
messages stores its questions twice (section 8). `ResultsOnce` is about sweeps that do not overlap,
for the same reason, and of patterns it counts the filled ones; a second placeholder of two
requests stays empty (section 8).

`DependentsHaveMaterial` is about what starter jobs queue and what runs store: a content or
question job of a topic without material may be queued by anyone, and fails. `CompletedIsStored` is
weaker than one row per job: for content any item of the topic and of a type asked for will do, since
jobs share items, and for an answer a review that superseded it. `EditsInEffect` is about the
payload; that a question is not answered twice, or after it was accepted, it does not say.
`JobsSettle` of `AiJobs` is about jobs with a message: one whose request died before it published
is found by the next start of the worker, unless it was retried (section 8).

`PlanFillsRules` speaks of the candidates, which are not the whole bank: a second selection leaves
out the questions the first one linked (`SelectAgain`). `PlanKeepsDifficulty` asks that of the
levels reported short the first really is; the later ones may not be (section 8).

`LatestIsCurrent` leaves out two texts the code may lose: one whose request failed, which the
code calls best-effort, and one whose request was answered with a run that had read the text
before it, which the code calls safe (`SweptMissed` shows it is not). `JobsSettle` of `SweptJobs`
is about queued and processing jobs; one left cancelling by a crash stays so (section 8).

`ProcessingSettles` and `NoOrphanProcessing` exclude materials whose job was cancelled: `cancelJob`
may read `queued` and write `cancelled` after the sweep has adopted the job, and then nobody settles
the material. The first is about runs in which the API does not crash (its premise; `OcrCrash` shows
why), the second about jobs that are queued and retried, not started by a request (section 7).

## 5. Bounds and why they are enough

`OcrLease`: two workers are what a stolen or a late lease needs, two sweeps what an
overlap needs, two pages of one chunk each are what a gap in the coverage and a next
chunk need, two jobs what a retry next to a live job needs. `MaxAttempts = 2` makes both the
retry and the terminal failure reachable. The scenarios (`MCOcrCoordinator`) are the
combinations of events one question is about: two expiries and a timed-out result; a
database error while starting; cancel and retry; two starts; cancel and re-queue of a job;
an overlapping sweep. Jobs are at most `MaxJobs`, and every other event is bounded by its
scenario. `OcrSettle` uses one job, whose chunk set may still be rebuilt, and one sweep, in four
scenarios: crashes with a retry, crashes with a worker disabled, an expiring lease, a cancel and
a retry. No run has an image or a text for its source (`SinglePage`): the proofs cover it.

`AttemptRaces`: two requests are what every race of section 3 needs, two attempts are a
student's attempt and its retake or its rival; the clock has two values, before and after
the deadline; one question with two keys and two papers covers an edit of the key and of
the window (edits of marks are left to the proofs). Requests and attempt ids are
interchangeable, and TLC is told so; no property names one of them. The proofs remove
these bounds. `AttemptLate` has two questions and a timed paper.

`Assessments`: `Selections` puts three questions of three levels, in one type or two, under
patterns with an even spread that does not divide, a level of weight zero, weights that are all
zero or do not make up 100, two rules of one label, a total to divide, an optional rule, a rule
without a count. `ByHand` adds and removes
questions over two scopes with three sort numbers, enough for a hole in the middle; `Scheduled`
runs through every pair of dates; `Racing` has two clients for the types and for the requests
that run apart. Weights of every size and any number of questions are the proofs' concern.

`AiJobs`: one job of each kind in one thread, with a retry, a crash or a lost connection
and an edit, and in two threads with a retry and an edit, since two runs of one job are what
every race needs; a package of two types; two jobs that write one item from two sources; a
starter with its dependent. A third job or thread adds no kind of conflict: each step writes one
row of one target. A message's place in the queue is not kept, which covers every order.

`SweptJobs`: two sweeps, which is an overlap, two requests, two detected questions, one of which
a teacher may handle; up to two jobs and three texts. Overlapping settings spend
their bound on an expired lease, the others on a crash and a cancel or retry.

Deadlock checking is off for the runs whose scenarios end (the OCR, `Assessments`, `AiJobs` and
`SweptJobs` runs), and on for `AttemptRaces`.

## 6. Fairness

`LiveSpec` assumes weak fairness of: each live worker's steps (its loop polls without end,
`app.py:131-152`), accepted calls (a handler runs to its end), requests in progress, and each
sweep (the interval timer, coordinator 61-66). It assumes nothing of crashes, of people, or of
restarts: `ProcessingSettles` names as its premise that again and again some worker is not
down, because a worker that lost its lease exits and nothing in the repository restarts it.

`AiJobs` assumes weak fairness of each consumer thread, which blocks on the broker or works
(`consumer.py`), and of `Boot`, which the process runs before it consumes; a crash is followed
by a boot because the container is restarted (`docker-compose.yml:368`). Nothing is
assumed of requests, which may die anywhere, or of teachers: `JobsSettle` is about jobs with a
message in the queue.

`SweptJobs` assumes weak fairness of the timer, of each sweep that runs, and of time
(`Expire`): an interval fires whatever the previous one did.

## 7. Proofs

`AttemptsProof` proves, for every value of the constants that `AttemptsAssumption` admits
(any number of students, papers, questions, requests and attempts, and any clock bound):

- `TypeCorrect`, `AlwaysScored`, `AtMostOneOpenAttempt`, `DeadlineAlwaysKept`,
  `SubmitAlwaysAnswersOutcome`: `Spec => []P` for the five invariants of `AttemptRaces`;
- `OutcomeIsFinal`: its action property.

`AttemptsExam` proves `AttemptsImplementExam`, `Spec => ExamKept`: a student's attempts are
exams with a fixed paper, answers in time and one graded close, for the same constants.

All follow from one inductive invariant, `IInv`: the tables have their types, every row
is well formed, scored if and only if terminal, and within its deadline (`GoodRow`); no two
open attempts share a student and an assessment; and `RequestsOK`. The last conjunct is
what makes it inductive: if a request has seen a terminal row, the attempt still is that
row, and a request that lost a race (`reread`, `winner`) looks at a terminal attempt.
Without it nothing would say what `SubmitWinner` and `RefreshReread` read. The lemmas
treat one row at a time (what a save, an expiry, a submit make of a good row), the invariance
proof has one step per action, and the temporal theorems combine them with PTL. For the
refinement, `IInv` says that a row's marks and dates are numbers, which the `Exam` action a
step maps to needs; most steps write no row and stutter.

`AiJobsProof` proves, for every set of workloads (any number of jobs, threads, requests,
retries, faults and edits), `TypeCorrect`, `EditsAlwaysInEffect`, `VersionsAlwaysGapless`,
`DependentsAlwaysHaveMaterial`, `CompletedAlwaysStored`, `SerialRunsAlwaysStoreOnce` and the
action properties `TouchedAlwaysKept` and `ConfirmedAlwaysKept`. `IInv` says of the rows what the invariants say, and of each thread
that what it is about to write fits what it read (`IsWork`): a run has seen a candidate's
payload as it is or as it was before a later revision; the version it read is not above the
current one; the questions it purges are untouched; a starter past its write has its material. Without
this nothing would say what a `Persist` step writes. The argument is monotony: results only grow
(`Grows`), so what a thread read stays true or is outdated, and the unique index or the
revision refuses the outdated; `ThreadCarried` says so once for every step.

Three further invariants stand on `IInv`. `TInv` bounds the counters and types the rows.
`SInv`, for `CompletedIsStored`, says that a thread about to complete its job has the
result in the tables, and that what one is about to write or purge is of its own job (`RunsOK`);
that a cancel writes one of its two statuses, never `completed` (`CancelsOK`); and that
numbers are given once, so that an insert adds a row. No step takes the last result of
a job away: a purge commits together with its insert. `OInv`, for a worker of one thread, says that a run which has read an item's version, a material
or the questions it will purge has read them as they are (`ReadNow`), because nobody else
writes them between; the purge then leaves nothing of an earlier run.

`OcrCoordinatorProof` proves, for every value of the constants that `OcrAssumption` admits (any
number of workers, requests, overlapping sweeps, jobs, pages and events, crashes of both
processes among them), `ReadyAlwaysWhole`, `LeasesAlwaysCoherent`, `ActiveJobsAlwaysHaveChunks`,
`TypesAlwaysOK` and the action property `LiveLeasesNotStolen`. `IInv` is what they say of the
tables, and what each actor carries from what it has read: a sweep about to publish holds the
whole text, one that has published finds it stored (`RunOK`); a request or sweep about to
write `processing`, and a cancel that has read an active job, has a job with chunks
(`RequestOK`); a worker waits for one answer at most (`OneAnswer`), so that the answer finds a
worker with a chunk. It is inductive because of two things no step undoes (`Keeps`): a job
that has chunks keeps some, and a text that is whole stays whole. That coverage judged by the
rows' own page count is coverage of the document (`CoverageIsWhole`) rests on the count being
unknown or the document's (`RowOK`).

Three more of its properties hold under conditions on the events, which are part of the
theorems because the properties fail without them; the constants are free in these as well.
`AllChunksGetMaterialized` leaves out a crash of the API (`NoApiCrash`), the case of `OcrCrash`.
Its invariant `CInv` says that a job's rows form a chain: there is a first one, and a submitted
one has its pages and either a next row, or no need of one, or a call still to create
it. A chain whose last row is submitted and has no call left covers every page (`ChainCovers`, over
the largest ordinal). `NoMaterialOrphaned` and `RunningChunksAlwaysKept` have jobs queued and retried
but not started by a request or cancelled, and sweeps that do not overlap (`Undisturbed`); crashes
of both processes, failed recognitions, expired leases and toggled workers are as free as before. Their invariant
`UInv` says that one sweep at most is working, that what it has read as queued and not yet adopted
still is, that one about to settle its job has settled the material, and that a PROCESSING
material has an active job. TLC refutes both properties as soon as one of the conditions is dropped (section 8 says how).

`PaperSelectionProof` is about the pure algorithms, for every rule, of any count and any weights,
and every finite bank. `AllocationsAreFair`: unless the weights are all zero, the rounding makes
up the count and stays less than one question from each level's proportion. From it, following the buckets one by one,
what an entry holds: as many questions as the rule asks for or all there are, and the levels of
a fair share unless it reports a shortage, of which the first is there.

`AssessmentsProof` proves all seven properties of the run `Assessments`, for every setting, from
the assumption that the bank is finite: `TypeCorrect`, `GateAlwaysHolds`, `AlwaysFrozen`,
`NumbersUnique`, `PlansFillRules`, `PlansKeepDifficulty` and `SelectionsCover`. For the gate, with one
client a request in flight still knows what it has read (`RequestOK`), and a transition that
has passed it finds the assessment as the gate left it, its links the gate's less the deleted ones. For the numbers, a request that has read the
maximum finds none above it; `Layout` numbers a plan's questions one to their count
since each position of a sequence that enumerates a finite set is one question's. For the
plans, the entries so far are disjoint and come from the pool, so that what rule `i` was offered
can be told from the plan later. For the coverage, distinct labels make the questions under a
label exactly the ones planned for its rule.

`SweptJobsProof` proves, for any number of sweeps, jobs, requests and crashes,
`TypeCorrect`, `ResultsAlwaysOnce`, `LatestAlwaysCurrent` and the action properties
`VersionsAlwaysAdvance` and `PurgeAlwaysSpares`. A sweep about to insert has read a text the material
had and compared it with the latest version (`IsWork`), and the unique version number
refuses it if another one was inserted meanwhile. `RInv`, for sweeps that do not overlap: only
one works at a time; the ids it has selected for deletion are all its job's rows no teacher has
handled, between purge and insert the job has none, and past the insert it has every one.
`LInv`, for `LatestAlwaysCurrent`: while the newest version is of an older text than the last one
soundly answered, something still to happen will see to it (`Covered`) – a job that is not
completed, which a sweep has yet to read the text for or has read late enough, and a run about to
complete has seen the newest version's text. Crashes, failures, cancels and retries move a job among these cases.

Assumptions on constants: sets of nodes, requests and questions are finite where something is
counted, bounds are numbers, `Null` is no number and no member of another set; nothing else.

Only model-checked: liveness (`JobsSettle`, `ProcessingSettles`, `CancellingSettles`), which
depends on fairness and ENABLED, and what folds compute beyond the facts the proofs need (induction
over data).

## 8. Where code and documentation differ

- **Late answers** (`AttemptLate`): documented to expire the attempt; the exception rolls
  the expiry back.
- **Crash between submit and the next chunk** (`OcrCrash`): the job stays processing with
  every row submitted.
- **A cancelling job** (`OcrCancel`): may still become completed or failed.
- **Re-run of a paper's extraction** (`SweptAccepted`): said to purge only REVIEW rows, never
  accepted ones; it selects them under that guard and deletes by id, so that one accepted in
  between is deleted.
- **Selecting again** (`SelectAgain`): documented to fill the sections not yet satisfied; it
  replaces the whole paper from other questions, and empties it when there are none.
- **A correction under a run** (`SweptMissed`): answered with the active run, which is called
  safe; when that run has read the older text, the newer one is never enhanced.

Noticed while modelling, and not part of a run of their own (the hazards in `PROJECT.json` name the lines):

- OCR: one database error at the status update of a start leaves the material PROCESSING
  with a failed job; a cancel that read `queued` may overwrite `processing`; a start, a retry of the
  material or an overlapping sweep writes PROCESSING to the material also after another sweep
  has adopted and settled its job, and may rebuild the job's chunks; a failure report
  that lands after the result of the chunk's next holder turns it back to pending. A failure
  reported as permanent below MAX_ATTEMPTS is made pending again by the next sweep
  (`ocr-coordinator.service.ts:325-328`) unless the settlement of the same sweep reads it first,
  though `docs/architecture/ocr-distributed-workers.md:121-122` says a chunk that fails
  permanently fails its material; the test of it (`ocr-worker-flow.integration.ts:359`) reports
  it at the third attempt, where the ceiling settles the job in either case.
- Images and texts: with the default chunk size, 10, the first chunk asks for pages 1–10 and the
  engine accepts only page 1 (`extract.py:81-82`), so the material fails at once, though
  `docs/architecture/ocr-distributed-workers.md:110-111` counts on one chunk for them.
- Cancelling: `jobs.service.ts:240-242` and `docs/api/jobs.md:84-86` promise of every job that the
  worker settles it and nothing is persisted afterwards. An AI result is still stored when the cancel
  comes between the worker's last check and its insert (`service.py:839`). A swept job stays
  cancelling when the process stops under its sweep: the sweeps look for queued and processing
  jobs only (`enhancement.service.ts:252-259`) and `retryJob` refuses it.
- AI jobs: a job cancelled while queued and then retried has two messages, and two threads
  then store its questions twice, though `docs/api/ai.md:434-438` says a retry never duplicates.
  `cancelJob` may write over `completed`, `completed` over `cancelled`. `retryJob` keeps
  `started_at`, so a retried job whose publication was lost is never republished. Cancelling a
  queued analysis leaves its syllabus PROCESSING; an analysis whose publication fails leaves
  its job queued. A blueprint is saved over a pattern approved meanwhile. A lost connection
  while dependents are published fails the completed starter job.
- Swept jobs: two requests for one source find nothing to reuse and each creates its
  placeholder (`paper-pattern-extraction.service.ts:423`), though the comment at 448-449 says "never a
  duplicate resource"; a request for an enhancement that fails leaves a changed text without a job
  (`materials.service.ts:139-142` calls that best-effort); overlapping sweeps store candidates twice; a
  pattern typed while a run looks for its placeholder gets a second one beside it; the uploaded file is deleted before its results are stored, or by a
  second request for it; a pattern typed by hand is overwritten by a run that had checked it
  empty; an edit by the question's owner does not protect it from a purge.
- Assessments: the replacements of a level that falls short are taken before the later levels have
  theirs (`paper-selection.ts:125-130`), which are then reported short though the candidates had
  their share, against the comment at 110-111; of two concurrent transitions the later write wins, also COMPLETED to
  ACTIVE or ACTIVE to DRAFT (the comment at 346-349 defers serialization); two transactions adding
  questions read the same maximum and number alike (against the comment at 483-487). A pattern
  unlocked and edited after its approval is used with weights nobody has checked. Two rules of one section and type
  share a label and show a false EXCESS. Deleting a question removes it from published assessments;
  `setScope` does not look at the links again.

## 9. Not modelled

- Identity, authorization and tenancy: access control is outside the scope, every modelled request
  is authorized. Platform administration, export, storage and the recognition engine: single
  writes, rendering, I/O and numerics, without a protocol between actors.
- The web client (a large part of the repository), the schemas of `packages/contracts` and
  `packages/database`, prompts and text heuristics: they carry no state of their own. What a
  schema restricts appears as the range of an input. For this reason most lines of the
  repository correspond to no definition.
- Practice sessions, chunked uploads, page corrections, PROCESS_SYLLABUS, batches and the
  review board of generated questions, the application of a confirmed syllabus to the subject tree,
  the academic structure: as in section 2, or sequential edits of rows.
- Deletion of rows where nothing follows from it: attempts and their assessments are tied by
  foreign keys without cascade, so no attempt can disappear under a request.
- The deletion of content and of materials: in `AiJobs` an item or a material, once stored, stays.
