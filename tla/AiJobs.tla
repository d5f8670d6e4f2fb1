------------------------------- MODULE AiJobs -------------------------------
(***************************************************************************)
(* AI generation jobs: the API that queues, cancels and retries them       *)
(* (apps/api/src/jobs/jobs.service.ts and the services that request a      *)
(* generation) and the worker that runs them                               *)
(* (apps/workers/worker/ai/consumer.py, ai/service.py, db.py).             *)
(*                                                                         *)
(* Grain.  One database statement or transaction is one step, so is one    *)
(* publication and one acknowledgement; a transaction that reads first and *)
(* writes what it read is two.  The calls to the model are the choice      *)
(* between a result and a failure.  A job asks for one kind of result from *)
(* one source; what the result is written to is its target.  Of the        *)
(* cancellation checks only the last before the write is a step: an        *)
(* earlier one ends the run as that one does.  RabbitMQ keeps the ready    *)
(* messages of each job, in no order; a delivery that is not acknowledged  *)
(* becomes ready again.  Teachers edit results at any time; a review of a  *)
(* candidate reads it first and writes it whatever it has become.          *)
(***************************************************************************)
EXTENDS Integers, FiniteSets, FiniteSetsExt

CONSTANTS
  Jobs,         \* bound: jobs rows ever created
  Targets,      \* sources, and what their results are written to
  Workloads,    \* admitted workloads: see IsWorkload
  Requests,     \* concurrent API requests
  Null

Kinds == {"questions", "content", "answer", "starter", "syllabus", "blueprint"}

\* A workload fixes the number of consumer threads (ai_concurrency) and, for each job row,
\* what it would be asked: kind, source and target, and its parts, which are the content
\* types a content job writes and the kinds of job a starter material enqueues.  It also
\* names its bounds: how often jobs are retried, how often the worker crashes or loses a
\* connection, and how often teachers edit each item or candidate.
IsJobSpec(s) ==
  /\ DOMAIN s = {"kind", "source", "target", "parts"}
  /\ s.kind \in Kinds /\ s.target \in Targets
  /\ s.kind = "starter" => s.parts \subseteq Kinds
  /\ s.kind = "content" => s.parts # {}
IsWorkload(w) ==
  /\ DOMAIN w = {"threads", "specs", "retries", "faults", "edits"}
  /\ w.retries \in Nat /\ w.faults \in Nat /\ w.edits \in Nat
  /\ w.threads \in Nat \ {0}
  /\ DOMAIN w.specs \subseteq Jobs /\ \A j \in DOMAIN w.specs : IsJobSpec(w.specs[j])

ASSUME AiJobsAssumption ==
  /\ Null \notin Jobs /\ Null \notin Nat
  /\ \A w \in Workloads : IsWorkload(w)

VARIABLES
  workload,     \* the admitted workload of this behaviour
  jobs,         \* jobs rows: status, started_at (set or not), queued by a starter job (or a request)
  queue,        \* ready messages of the ai_generation queue, by job
  threads,      \* the worker's consumer threads and what they have read
  boot,         \* the worker process: down, sweeping at its start, or up
  requests,     \* in-flight API requests and what they have read
  faults,       \* crashes and lost connections so far
  retries,      \* retried jobs so far
  questions,    \* sets of generated questions, one per run that stored some
  items,        \* content_items with their content_versions: the numbers, and how many rows
  candidates,   \* extracted questions in review
  materials,    \* materials of each topic, generated or not
  syllabi,      \* syllabi: status, analysis_status, the structure's origin
  patterns      \* paper_patterns: status and the structure's origin

results == <<questions, items, candidates, materials, syllabi, patterns>>
vars == <<workload, jobs, queue, threads, boot, requests, faults, retries, results>>

-----------------------------------------------------------------------------
(* Jobs.                                                                   *)

Rows == DOMAIN workload.specs
Kind(j) == workload.specs[j].kind
Target(j) == workload.specs[j].target
Threads == 1..workload.threads

\* jobs_active_generation_unique: one queued or processing job per operation and source.
\* Answers are not in the index.
Indexed(kind) == kind # "answer"
Active(j) == jobs[j].status \in {"queued", "processing"}
SlotFree(j) ==
  Indexed(Kind(j)) => \A k \in Rows \ {j} :
    ~(Active(k) /\ Kind(k) = Kind(j) /\ workload.specs[k].source = workload.specs[j].source)

SetStatus(j, status) == jobs' = [jobs EXCEPT ![j].status = status]
Settled(j) == jobs[j].status \in {"completed", "failed", "cancelled"}

Send(j) == queue' = [queue EXCEPT ![j] = @ + 1]

-----------------------------------------------------------------------------
(* The API.                                                                *)

Idle == [op |-> "idle"]
Goto(r, next) == requests' = [requests EXCEPT ![r] = next]
End(r) == Goto(r, Idle)

\* What each requesting service checks before it inserts: an answer is not asked for
\* twice (question-extraction.service.ts), nor an analysis of an analysed or locked
\* syllabus or of an approved pattern; a MATERIAL that content is to be derived from must be
\* ready, but of a TOPIC (a source that is its own target) no material is asked for
\* (assertGeneratableMaterial, assertWritableTopic).
Requestable(j) ==
  LET t == Target(j) IN
  CASE Kind(j) = "answer" ->
         /\ candidates[t].status = "REVIEW" /\ candidates[t].answer = Null
         /\ \A k \in Rows : Kind(k) = "answer" /\ Target(k) = t => ~Active(k)
    [] Kind(j) = "syllabus" ->
         /\ syllabi[t].analysis \notin {"PROCESSING", "READY"}
         /\ syllabi[t].status # "CONFIRMED"
    [] Kind(j) = "blueprint" -> patterns[t].status # "APPROVED"
    [] Kind(j) = "content" /\ workload.specs[j].source # t -> materials[t] > 0
    [] OTHER -> TRUE

RequestRead(r, j) ==
  /\ requests[r] = Idle
  /\ jobs[j].status = "none" /\ Requestable(j)
  /\ Goto(r, [op |-> "generate", stage |-> "insert", job |-> j])
  /\ UNCHANGED <<workload, jobs, queue, threads, boot, faults, retries, results>>

\* insertJob; a second active generation of the slot is refused (409).
RequestInsert(r) ==
  LET j == requests[r].job IN
  /\ requests[r].op = "generate" /\ requests[r].stage = "insert"
  /\ jobs[j].status = "none"
  /\ IF SlotFree(j)
     THEN SetStatus(j, "queued") /\ Goto(r, [requests[r] EXCEPT !.stage = IF Kind(j) = "syllabus" THEN "mark" ELSE "publish"])
     ELSE End(r) /\ UNCHANGED jobs
  /\ UNCHANGED <<workload, queue, threads, boot, faults, retries, results>>

\* markAnalysisInProgress, between the insert and the publication.
RequestMark(r) ==
  LET t == Target(requests[r].job) IN
  /\ requests[r].op = "generate" /\ requests[r].stage = "mark"
  /\ syllabi' = [syllabi EXCEPT ![t].analysis = "PROCESSING"]
  /\ Goto(r, [requests[r] EXCEPT !.stage = "publish"])
  /\ UNCHANGED <<workload, jobs, queue, threads, boot, faults, retries,
                 questions, items, candidates, materials, patterns>>

Publishing(r) == requests[r].op \in {"generate", "retry"} /\ requests[r].stage = "publish"

RequestPublish(r) ==
  /\ Publishing(r)
  /\ Send(requests[r].job) /\ End(r)
  /\ UNCHANGED <<workload, jobs, threads, boot, faults, retries, results>>

\* The broker refuses: the job is failed, an analysis marked failed and its job left queued.
RequestPublishFails(r) ==
  LET j == requests[r].job IN
  /\ Publishing(r)
  /\ IF requests[r].op = "generate" /\ Kind(j) = "syllabus"
     THEN syllabi' = [syllabi EXCEPT ![Target(j)].analysis = "FAILED"] /\ UNCHANGED jobs
     ELSE SetStatus(j, "failed") /\ UNCHANGED syllabi
  /\ End(r)
  /\ UNCHANGED <<workload, queue, threads, boot, faults, retries,
                 questions, items, candidates, materials, patterns>>

\* The API process stops between two statements of a request.
RequestDies(r) ==
  /\ requests[r] # Idle
  /\ End(r)
  /\ UNCHANGED <<workload, jobs, queue, threads, boot, faults, retries, results>>

\* cancelJob: the status is read, then the one it leads to is written unconditionally.
\* Mutation: a status no reader knows.
NextStatusMisspelt(status) == IF status = "queued" THEN "canceled" ELSE "cancelling"
NextStatus(status) == IF status = "queued" THEN "cancelled" ELSE "cancelling"
CancelRead(r, j) ==
  /\ requests[r] = Idle
  /\ jobs[j].status # "none" /\ ~Settled(j)
  /\ Goto(r, [op |-> "cancel", job |-> j, next |-> NextStatus(jobs[j].status)])
  /\ UNCHANGED <<workload, jobs, queue, threads, boot, faults, retries, results>>

CancelWrite(r) ==
  /\ requests[r].op = "cancel"
  /\ SetStatus(requests[r].job, requests[r].next)
  /\ End(r)
  /\ UNCHANGED <<workload, queue, threads, boot, faults, retries, results>>

\* retryJob: started_at keeps its value.
RetryRead(r, j) ==
  /\ requests[r] = Idle
  /\ retries < workload.retries
  /\ jobs[j].status \in {"failed", "cancelled"}
  /\ retries' = retries + 1
  /\ Goto(r, [op |-> "retry", stage |-> "requeue", job |-> j])
  /\ UNCHANGED <<workload, jobs, queue, threads, boot, faults, results>>

RetryRequeue(r) ==
  LET j == requests[r].job IN
  /\ requests[r].op = "retry" /\ requests[r].stage = "requeue"
  /\ IF SlotFree(j)
     THEN SetStatus(j, "queued") /\ Goto(r, [requests[r] EXCEPT !.stage = "publish"])
     ELSE End(r) /\ UNCHANGED jobs
  /\ UNCHANGED <<workload, queue, threads, boot, faults, retries, results>>

\* updateCandidate, acceptCandidate and discardCandidate: the candidate (of answer job j) is
\* read in REVIEW, and accepted only if what was read has its answer.
ReviewRead(r, j, act) ==
  LET c == candidates[Target(j)] IN
  /\ requests[r] = Idle
  /\ Kind(j) = "answer" /\ c.status = "REVIEW"
  /\ act = "accept" => c.answer # Null
  /\ act = "update" => c.edits < workload.edits
  /\ Goto(r, [op |-> "review", job |-> j, act |-> act])
  /\ UNCHANGED <<workload, jobs, queue, threads, boot, faults, retries, results>>

\* The row is then written by its id, if it is still there.  An update replaces the payload,
\* which names the edit it stems from.
Reviewed(row, act) ==
  IF row.status = "DISCARDED" THEN row
  ELSE CASE act = "update" ->
              [row EXCEPT !.revision = @ + 1, !.answer = "edited", !.edits = @ + 1, !.payload = row.edits + 1]
         [] act = "accept" -> [row EXCEPT !.revision = @ + 1, !.status = "ACTIVE"]
         [] OTHER -> [row EXCEPT !.revision = @ + 1, !.status = "DISCARDED"]

ReviewWrite(r) ==
  /\ requests[r].op = "review"
  /\ candidates' = [candidates EXCEPT ![Target(requests[r].job)] = Reviewed(@, requests[r].act)]
  /\ End(r)
  /\ UNCHANGED <<workload, jobs, queue, threads, boot, faults, retries,
                 questions, items, materials, syllabi, patterns>>

Request(r) ==
  \/ RequestInsert(r) \/ RequestMark(r) \/ RequestPublish(r) \/ RequestPublishFails(r)
  \/ RequestDies(r) \/ CancelWrite(r) \/ RetryRequeue(r) \/ ReviewWrite(r)
  \/ \E j \in Rows : RequestRead(r, j) \/ CancelRead(r, j) \/ RetryRead(r, j)
  \/ \E j \in Rows : \E act \in {"update", "accept", "discard"} : ReviewRead(r, j, act)

-----------------------------------------------------------------------------
(* The worker: consumer threads.                                           *)

Free == [stage |-> "free"]
Put(t, next) == threads' = [threads EXCEPT ![t] = next]
At(t, stage) == boot.stage = "up" /\ threads[t].stage = stage
GotoStage(t, stage) == Put(t, [threads[t] EXCEPT !.stage = stage])

\* prefetch_count = 1: a thread takes one message and holds it until it acknowledges it.
Deliver(t, j) ==
  /\ At(t, "free") /\ queue[j] > 0
  /\ queue' = [queue EXCEPT ![j] = @ - 1]
  /\ Put(t, [stage |-> "status", job |-> j, held |-> TRUE,
             todo |-> workload.specs[j].parts, seen |-> Null])
  /\ UNCHANGED <<workload, jobs, boot, requests, faults, retries, results>>

\* The first read of generate.  Mutation: a job being cancelled is skipped like a cancelled one.
AfterStatusSkips(status) == IF status \in {"cancelled", "cancelling"} THEN "ack" ELSE "begin"
AfterStatus(status) ==
  CASE status = "cancelled" -> "ack" [] status = "cancelling" -> "settle" [] OTHER -> "begin"
ReadStatus(t) ==
  /\ At(t, "status")
  /\ GotoStage(t, AfterStatus(jobs[threads[t].job].status))
  /\ UNCHANGED <<workload, jobs, queue, boot, requests, faults, retries, results>>

\* processing is written whatever the status has become; the index may refuse it, and the
\* handler then fails the job.
Begin(t) ==
  LET j == threads[t].job IN
  /\ At(t, "begin")
  /\ IF Active(j) \/ SlotFree(j)
     THEN /\ jobs' = [jobs EXCEPT ![j].status = "processing", ![j].started = TRUE]
          /\ GotoStage(t, "read")
     ELSE GotoStage(t, "fail") /\ UNCHANGED jobs
  /\ UNCHANGED <<workload, queue, boot, requests, faults, retries, results>>

\* What a run finds when it reads its source; Null when there is nothing to work on.
Source(j) ==
  LET t == Target(j) IN
  CASE Kind(j) = "answer" -> IF candidates[t].status = "REVIEW" THEN candidates[t] ELSE Null
    [] Kind(j) = "blueprint" /\ patterns[t].status = "APPROVED" -> Null
    [] Kind(j) \in {"content", "questions"} /\ materials[t] = 0 -> Null
    [] OTHER -> "source"

\* A failed or cancelled analysis is also marked on its syllabus.  Mutations: a starter that
\* failed still enqueues its dependents; a cancelled run falls through to its completion.
FailingEnqueues(j) == IF Kind(j) = "starter" THEN "dependents" ELSE "fail"
CancellingCompletes(j) == "complete"
Failing(j) == IF Kind(j) = "syllabus" THEN "unmark" ELSE "fail"
Cancelling(j) == IF Kind(j) = "syllabus" THEN "withdraw" ELSE "ack"

Read(t) ==
  LET j == threads[t].job IN
  /\ At(t, "read") /\ Source(j) # Null
  /\ Put(t, [threads[t] EXCEPT !.stage = IF Kind(j) = "syllabus" THEN "mark" ELSE "ask", !.seen = Source(j)])
  /\ UNCHANGED <<workload, jobs, queue, boot, requests, faults, retries, results>>

\* update_syllabus_analysis_processing: whatever the syllabus has become.
Mark(t) ==
  /\ At(t, "mark")
  /\ syllabi' = [syllabi EXCEPT ![Target(threads[t].job)].analysis = "PROCESSING"]
  /\ GotoStage(t, "ask")
  /\ UNCHANGED <<workload, jobs, queue, boot, requests, faults, retries,
                 questions, items, candidates, materials, patterns>>

\* The model is asked, which may leave out some types of a package.
Answers(j) ==
  IF Kind(j) = "content" THEN SUBSET workload.specs[j].parts \ {{}} ELSE {workload.specs[j].parts}
Ask(t) ==
  /\ At(t, "ask")
  /\ \E parts \in Answers(threads[t].job) : Put(t, [threads[t] EXCEPT !.stage = "check", !.todo = parts])
  /\ UNCHANGED <<workload, jobs, queue, boot, requests, faults, retries, results>>

\* No source; or the model fails for good, answers what does not validate, or answers none
\* of a package's types.
RunFails(t) ==
  /\ At(t, "read") \/ At(t, "ask")
  /\ GotoStage(t, Failing(threads[t].job))
  /\ UNCHANGED <<workload, jobs, queue, boot, requests, faults, retries, results>>

\* _check_cancelled, before a result is written.  What is written depends on what is read
\* first, in the same transaction, for these kinds.
ReadsFirst(kind) == kind \in {"questions", "content", "starter"}
Check(t) ==
  LET j == threads[t].job
      status == jobs[j].status
  IN
  /\ At(t, "check")
  /\ GotoStage(t, IF status = "cancelling" THEN "settle"
                  ELSE IF status = "cancelled" THEN Cancelling(j)
                  ELSE IF ReadsFirst(Kind(j)) THEN "prepare" ELSE "persist")
  /\ UNCHANGED <<workload, jobs, queue, boot, requests, faults, retries, results>>

\* mark_job_cancelled.
Settle(t) ==
  LET j == threads[t].job IN
  /\ At(t, "settle")
  /\ SetStatus(j, "cancelled")
  /\ GotoStage(t, IF threads[t].seen = Null THEN "ack" ELSE Cancelling(j))
  /\ UNCHANGED <<workload, queue, boot, requests, faults, retries, results>>

\* fail_syllabus_analysis spares a confirmed syllabus.
Unmark(t) ==
  LET s == Target(threads[t].job) IN
  /\ At(t, "unmark") \/ At(t, "withdraw")
  /\ syllabi' = [syllabi EXCEPT ![s].analysis = IF syllabi[s].status = "CONFIRMED" THEN @ ELSE "FAILED"]
  /\ GotoStage(t, IF At(t, "unmark") THEN "fail" ELSE "ack")
  /\ UNCHANGED <<workload, jobs, queue, boot, requests, faults, retries,
                 questions, items, candidates, materials, patterns>>

-----------------------------------------------------------------------------
(* The worker: results.  A transaction is prepared by its reads and then   *)
(* persisted; a kind that reads nothing is persisted at once.              *)

GeneratedBy(j) == {q \in questions : q.job = j}
Untouched(j) == {q \in GeneratedBy(j) : ~q.touched}

\* insert_generated_questions: the purge of the job's rows that nobody touched.
\* Mutations: touched rows are purged as well; nothing is purged.
PurgedWhole(j) == GeneratedBy(j)
PurgedNothing(j) == {}
Purged(j) == Untouched(j)

\* insert_ai_content: the live item of the topic and type with the highest version, of these
\* the newest.
LiveItems(target, type) ==
  {i \in DOMAIN items : items[i].live /\ items[i].target = target /\ items[i].type = type}
Newest(S) ==
  LET Before(k, i) == items[k].current < items[i].current \/ (items[k].current = items[i].current /\ k <= i)
  IN {i \in S : \A k \in S : Before(k, i)}

\* What the transaction reads before it writes: for content, one item or none.
Prepared(j, part) ==
  LET live == LiveItems(Target(j), part) IN
  CASE Kind(j) = "questions" -> {Purged(j)}
    [] Kind(j) = "content" ->
         IF live = {} THEN {[item |-> Null, current |-> 0]}
         ELSE {[item |-> i, current |-> items[i].current] : i \in Newest(live)}
    [] Kind(j) = "starter" -> {materials[Target(j)] > 0}
    [] OTHER -> {}

\* A content job goes on with any of the types left.
Prepare(t) ==
  LET j == threads[t].job IN
  /\ At(t, "prepare")
  /\ \E part \in IF Kind(j) = "content" THEN threads[t].todo ELSE {Null} :
       \E read \in Prepared(j, part) :
         Put(t, [threads[t] EXCEPT !.stage = "persist", !.seen = [part |-> part, read |-> read]])
  /\ UNCHANGED <<workload, jobs, queue, boot, requests, faults, retries, results>>

Persisting(t, kind) == At(t, "persist") /\ Kind(threads[t].job) = kind

\* Ids no row carries, nor a row that a running purge has read.
FreshId ==
  1 + Max({0} \cup {q.id : q \in questions}
          \cup UNION {{q.id : q \in threads[t].seen.read} : t \in {u \in Threads : Persisting(u, "questions")}})

PersistQuestions(t) ==
  /\ Persisting(t, "questions")
  /\ questions' = (questions \ threads[t].seen.read)
                    \cup {[id |-> FreshId, job |-> threads[t].job, touched |-> FALSE]}
  /\ GotoStage(t, "complete")
  /\ UNCHANGED <<workload, jobs, queue, boot, requests, faults, retries,
                 items, candidates, materials, syllabi, patterns>>

\* content_versions is unique on (content_id, version).  Mutation: no such index.
VersionFreeAlways(i, version) == TRUE
VersionFree(i, version) == version \notin items[i].versions

\* A version is appended to the item that was read, and the other live items of the topic
\* and type are archived; without an item, one is created.
Appended(i, version) ==
  [k \in DOMAIN items |->
     IF k = i THEN [items[i] EXCEPT !.current = version, !.versions = @ \cup {version}, !.rows = @ + 1]
     ELSE IF k \in LiveItems(items[i].target, items[i].type) THEN [items[k] EXCEPT !.live = FALSE]
     ELSE items[k]]
Created(target, type) ==
  [k \in DOMAIN items \cup {Cardinality(DOMAIN items) + 1} |->
     IF k \in DOMAIN items THEN items[k]
     ELSE [target |-> target, type |-> type, live |-> TRUE, current |-> 1,
           versions |-> {1}, rows |-> 1, edits |-> 0, set |-> FALSE]]

\* A package goes on with its next type.
PersistContent(t) ==
  LET seen == threads[t].seen
      version == seen.read.current + 1
      rest == threads[t].todo \ {seen.part}
  IN
  /\ Persisting(t, "content")
  /\ \/ /\ seen.read.item = Null
        /\ items' = Created(Target(threads[t].job), seen.part)
     \/ /\ seen.read.item # Null /\ VersionFree(seen.read.item, version)
        /\ items' = Appended(seen.read.item, version)
  /\ Put(t, [threads[t] EXCEPT !.stage = IF rest = {} THEN "complete" ELSE "check", !.todo = rest])
  /\ UNCHANGED <<workload, jobs, queue, boot, requests, faults, retries,
                 questions, candidates, materials, syllabi, patterns>>

\* The version was taken since the read: the transaction is rolled back.
PersistContentFails(t) ==
  LET read == threads[t].seen.read IN
  /\ Persisting(t, "content")
  /\ read.item # Null /\ ~VersionFree(read.item, read.current + 1)
  /\ GotoStage(t, "fail")
  /\ UNCHANGED <<workload, jobs, queue, boot, requests, faults, retries, results>>

\* write_generated_answer: the answer is merged into the payload that was read, on the
\* condition that the row is still that one.  Otherwise the job completes superseded.
\* Mutation: the row need only be in review.
AnswerableLoose(row, seen) == row.status = "REVIEW"
Answerable(row, seen) == row.status = "REVIEW" /\ row.revision = seen.revision
Answered(row, seen) ==
  IF Answerable(row, seen)
  THEN [row EXCEPT !.revision = @ + 1, !.answer = "generated", !.payload = seen.payload]
  ELSE row

PersistAnswer(t) ==
  LET c == Target(threads[t].job)
      seen == threads[t].seen
  IN
  /\ Persisting(t, "answer")
  /\ candidates' = [candidates EXCEPT ![c] = Answered(@, seen)]
  /\ GotoStage(t, "complete")
  /\ UNCHANGED <<workload, jobs, queue, boot, requests, faults, retries,
                 questions, items, materials, syllabi, patterns>>

\* upsert_starter_material: the topic's material is updated in place, or inserted.
PersistStarter(t) ==
  LET topic == Target(threads[t].job) IN
  /\ Persisting(t, "starter")
  /\ materials' = [materials EXCEPT ![topic] = IF threads[t].seen.read THEN @ ELSE @ + 1]
  /\ GotoStage(t, "complete")
  /\ UNCHANGED <<workload, jobs, queue, boot, requests, faults, retries,
                 questions, items, candidates, syllabi, patterns>>

\* complete_syllabus_analysis.  Mutation: also on a confirmed syllabus.
AnalysedAlways(row) == [row EXCEPT !.analysis = "READY", !.draft = @ + 1]
Analysed(row) ==
  IF row.status = "CONFIRMED" THEN row ELSE [row EXCEPT !.analysis = "READY", !.draft = @ + 1]

PersistSyllabus(t) ==
  /\ Persisting(t, "syllabus")
  /\ syllabi' = [syllabi EXCEPT ![Target(threads[t].job)] = Analysed(@)]
  /\ GotoStage(t, "complete")
  /\ UNCHANGED <<workload, jobs, queue, boot, requests, faults, retries,
                 questions, items, candidates, materials, patterns>>

\* save_blueprint_analysis, whatever the pattern's status has become.
PersistBlueprint(t) ==
  /\ Persisting(t, "blueprint")
  /\ patterns' = [patterns EXCEPT ![Target(threads[t].job)] = [status |-> "REVIEW", draft |-> @.draft + 1]]
  /\ GotoStage(t, "complete")
  /\ UNCHANGED <<workload, jobs, queue, boot, requests, faults, retries,
                 questions, items, candidates, materials, syllabi>>

Persist(t) ==
  \/ PersistQuestions(t) \/ PersistContent(t) \/ PersistContentFails(t) \/ PersistAnswer(t)
  \/ PersistStarter(t) \/ PersistSyllabus(t) \/ PersistBlueprint(t)

-----------------------------------------------------------------------------
(* The worker: completion, dependents, failure.                            *)

\* completed is written whatever the status has become.
Complete(t) ==
  LET j == threads[t].job IN
  /\ At(t, "complete")
  /\ SetStatus(j, "completed")
  /\ GotoStage(t, IF Kind(j) = "starter" THEN "dependents" ELSE "ack")
  /\ UNCHANGED <<workload, queue, boot, requests, faults, retries, results>>

\* Rows a dependent of this kind may become.
DependentRows(j, kind) ==
  {k \in Rows : jobs[k].status = "none" /\ Kind(k) = kind /\ Target(k) = Target(j) /\ SlotFree(k)}

\* _enqueue_dependents inserts the next dependent.
EnqueueDependent(t) ==
  /\ At(t, "dependents")
  /\ \E kind \in threads[t].todo : \E k \in DependentRows(threads[t].job, kind) :
       /\ jobs' = [jobs EXCEPT ![k].status = "queued", ![k].dependent = TRUE]
       /\ Put(t, [threads[t] EXCEPT !.stage = "publish", !.todo = @ \ {kind}, !.seen = k])
  /\ UNCHANGED <<workload, queue, boot, requests, faults, retries, results>>

\* A dependent that is already active is dropped; so is one beyond the bound on rows.
SkipDependent(t) ==
  /\ At(t, "dependents")
  /\ \E kind \in threads[t].todo :
       /\ DependentRows(threads[t].job, kind) = {}
       /\ Put(t, [threads[t] EXCEPT !.todo = @ \ {kind}])
  /\ UNCHANGED <<workload, jobs, queue, boot, requests, faults, retries, results>>

DependentsDone(t) ==
  /\ At(t, "dependents") /\ threads[t].todo = {}
  /\ GotoStage(t, "ack")
  /\ UNCHANGED <<workload, jobs, queue, boot, requests, faults, retries, results>>

\* The dependent is published on the channel of the delivery; on a lost connection that
\* raises, and the completed job is failed.
PublishDependent(t) ==
  /\ At(t, "publish")
  /\ IF threads[t].held
     THEN Send(threads[t].seen) /\ GotoStage(t, "dependents")
     ELSE GotoStage(t, "fail") /\ UNCHANGED queue
  /\ UNCHANGED <<workload, jobs, boot, requests, faults, retries, results>>

\* _fail, and the last handler of on_message.
Fail(t) ==
  /\ At(t, "fail")
  /\ SetStatus(threads[t].job, "failed")
  /\ GotoStage(t, "ack")
  /\ UNCHANGED <<workload, queue, boot, requests, faults, retries, results>>

\* basic_ack; on a lost connection it raises and the thread connects anew.
Ack(t) ==
  /\ At(t, "ack")
  /\ Put(t, Free)
  /\ UNCHANGED <<workload, jobs, queue, boot, requests, faults, retries, results>>

ThreadStep(t) ==
  \/ \E j \in Rows : Deliver(t, j)
  \/ ReadStatus(t) \/ Begin(t) \/ Read(t) \/ Mark(t) \/ Ask(t) \/ RunFails(t) \/ Check(t) \/ Settle(t)
  \/ Unmark(t) \/ Prepare(t) \/ Persist(t) \/ Complete(t) \/ EnqueueDependent(t)
  \/ SkipDependent(t) \/ DependentsDone(t) \/ PublishDependent(t) \/ Fail(t) \/ Ack(t)

-----------------------------------------------------------------------------
(* The worker: faults and restart.                                         *)

Holding(t) == threads[t].stage # "free" /\ threads[t].held

\* The broker closes a thread's connection, and its message is ready again while the
\* thread goes on with the job.
LoseConnection(t) ==
  /\ boot.stage = "up" /\ faults < workload.faults /\ Holding(t)
  /\ faults' = faults + 1
  /\ Send(threads[t].job)
  /\ Put(t, [threads[t] EXCEPT !.held = FALSE])
  /\ UNCHANGED <<workload, jobs, boot, requests, retries, results>>

\* The worker process dies: open transactions roll back, held messages are ready again.
Crash ==
  /\ faults < workload.faults
  /\ faults' = faults + 1
  /\ queue' = [j \in Rows |-> queue[j] + Cardinality({t \in Threads : Holding(t) /\ threads[t].job = j})]
  /\ threads' = [t \in Threads |-> Free]
  /\ boot' = [stage |-> "processing"]
  /\ UNCHANGED <<workload, jobs, requests, retries, results>>

\* A sweep's select: which of the jobs are old enough is up to the clock.
SweepRead(stage, next, S) ==
  /\ boot = [stage |-> stage]
  /\ \E stale \in SUBSET S : boot' = [stage |-> next, todo |-> stale]
  /\ UNCHANGED <<workload, jobs, queue, threads, requests, faults, retries, results>>

StaleProcessing == {j \in Rows : jobs[j].status = "processing" /\ jobs[j].started}
StaleQueued == {j \in Rows : jobs[j].status = "queued" /\ ~jobs[j].started}

\* reset_job_to_queued, if the job is still processing.
SweepReset(j) ==
  /\ boot.stage = "reset" /\ j \in boot.todo
  /\ IF jobs[j].status = "processing"
     THEN /\ jobs' = [jobs EXCEPT ![j].status = "queued", ![j].started = FALSE]
          /\ boot' = [stage |-> "resend", todo |-> boot.todo, job |-> j]
     ELSE boot' = [boot EXCEPT !.todo = @ \ {j}] /\ UNCHANGED jobs
  /\ UNCHANGED <<workload, queue, threads, requests, faults, retries, results>>

SweepResend ==
  /\ boot.stage = "resend"
  /\ Send(boot.job)
  /\ boot' = [stage |-> "reset", todo |-> boot.todo \ {boot.job}]
  /\ UNCHANGED <<workload, jobs, threads, requests, faults, retries, results>>

\* _republish_stale_queued_jobs.
SweepRepublish(j) ==
  /\ boot.stage = "republish" /\ j \in boot.todo
  /\ Send(j)
  /\ boot' = [boot EXCEPT !.todo = @ \ {j}]
  /\ UNCHANGED <<workload, jobs, threads, requests, faults, retries, results>>

SweepDone ==
  /\ boot.stage \in {"reset", "republish"} /\ boot.todo = {}
  /\ boot' = [stage |-> IF boot.stage = "reset" THEN "queued" ELSE "up"]
  /\ UNCHANGED <<workload, jobs, queue, threads, requests, faults, retries, results>>

\* start_ai_consumer.
Boot ==
  \/ SweepRead("processing", "reset", StaleProcessing)
  \/ SweepRead("queued", "republish", StaleQueued)
  \/ \E j \in Rows : SweepReset(j) \/ SweepRepublish(j)
  \/ SweepResend \/ SweepDone

-----------------------------------------------------------------------------
(* Teachers.                                                               *)

\* A row a running purge has deleted is locked until that run commits.
Unlocked(q) == \A t \in Threads : Persisting(t, "questions") => q \notin threads[t].seen.read

\* Someone other than the requester edits a generated question.
TouchQuestion(q) ==
  /\ ~q.touched /\ Unlocked(q)
  /\ questions' = (questions \ {q}) \cup {[q EXCEPT !.touched = TRUE]}
  /\ UNCHANGED <<workload, jobs, queue, threads, boot, requests, faults, retries,
                 items, candidates, materials, syllabi, patterns>>

\* updateContent, under the item's row lock; of an archived item too.
UpdateContent(i) ==
  /\ items[i].edits < workload.edits
  /\ items' = [items EXCEPT ![i].current = @ + 1, ![i].versions = @ \cup {items[i].current + 1},
                            ![i].rows = @ + 1, ![i].edits = @ + 1]
  /\ UNCHANGED <<workload, jobs, queue, threads, boot, requests, faults, retries,
                 questions, candidates, materials, syllabi, patterns>>

\* setStatus: archived, or made active again, whatever it is; and from then on marked as set
\* by a teacher.
SetContentStatus(i) ==
  /\ items[i].edits < workload.edits
  /\ items' = [items EXCEPT ![i].live = ~@, ![i].set = TRUE, ![i].edits = @ + 1]
  /\ UNCHANGED <<workload, jobs, queue, threads, boot, requests, faults, retries,
                 questions, candidates, materials, syllabi, patterns>>

ConfirmSyllabus(s) ==
  /\ syllabi[s].status # "CONFIRMED" /\ syllabi[s].analysis = "READY"
  /\ syllabi' = [syllabi EXCEPT ![s].status = "CONFIRMED"]
  /\ UNCHANGED <<workload, jobs, queue, threads, boot, requests, faults, retries,
                 questions, items, candidates, materials, patterns>>

ApprovePattern(p) ==
  /\ patterns[p].status # "APPROVED" /\ patterns[p].draft > 0
  /\ patterns' = [patterns EXCEPT ![p].status = "APPROVED"]
  /\ UNCHANGED <<workload, jobs, queue, threads, boot, requests, faults, retries,
                 questions, items, candidates, materials, syllabi>>

Teacher ==
  \/ \E q \in questions : TouchQuestion(q)
  \/ \E i \in DOMAIN items : UpdateContent(i) \/ SetContentStatus(i)
  \/ \E s \in DOMAIN syllabi : ConfirmSyllabus(s)
  \/ \E p \in DOMAIN patterns : ApprovePattern(p)

-----------------------------------------------------------------------------
(* Specification.                                                          *)

\* A topic with a starter job has no material yet.
TargetsOf(w, kind) == {w.specs[j].target : j \in {k \in DOMAIN w.specs : w.specs[k].kind = kind}}

Init ==
  /\ workload \in Workloads
  /\ jobs = [j \in Rows |-> [status |-> "none", started |-> FALSE, dependent |-> FALSE]]
  /\ queue = [j \in Rows |-> 0]
  /\ threads = [t \in Threads |-> Free]
  /\ boot = [stage |-> "up"]
  /\ requests = [r \in Requests |-> Idle]
  /\ faults = 0 /\ retries = 0
  /\ questions = {} /\ items = [i \in {} |-> Null]
  /\ candidates = [c \in TargetsOf(workload, "answer") |->
                     [status |-> "REVIEW", revision |-> 0, answer |-> Null, payload |-> 0, edits |-> 0]]
  /\ materials = [x \in Targets |-> IF x \in TargetsOf(workload, "starter") THEN 0 ELSE 1]
  /\ syllabi = [s \in TargetsOf(workload, "syllabus") |-> [status |-> "DRAFT", analysis |-> "NONE", draft |-> 0]]
  /\ patterns = [p \in TargetsOf(workload, "blueprint") |-> [status |-> "DRAFT", draft |-> 0]]

Next ==
  \/ \E r \in Requests : Request(r)
  \/ \E t \in Threads : ThreadStep(t) \/ LoseConnection(t)
  \/ Crash \/ Boot \/ Teacher

\* The worker's threads and its start run on; requests may die, teachers need not act.
Fairness == WF_vars(Boot) /\ \A t \in 1..Max({w.threads : w \in Workloads}) : WF_vars(t \in Threads /\ ThreadStep(t))
Spec == Init /\ [][Next]_vars /\ Fairness

-----------------------------------------------------------------------------
(* Properties.                                                             *)

Statuses == {"none", "queued", "processing", "cancelling", "cancelled", "completed", "failed"}
Stages == {"free", "status", "settle", "begin", "read", "mark", "ask", "check", "prepare", "persist",
           "complete", "dependents", "publish", "unmark", "withdraw", "fail", "ack"}

TypeOK ==
  /\ workload \in Workloads
  /\ jobs \in [Rows -> [status : Statuses, started : BOOLEAN, dependent : BOOLEAN]]
  /\ queue \in [Rows -> Nat]
  /\ DOMAIN threads = Threads
  /\ \A t \in Threads : threads[t].stage \in Stages /\ (threads[t] # Free => threads[t].job \in Rows)
  /\ boot.stage \in {"up", "processing", "reset", "resend", "queued", "republish"}
  /\ DOMAIN requests = Requests
  /\ faults \in 0..workload.faults /\ retries \in 0..workload.retries
  /\ questions \subseteq [id : Nat, job : Rows, touched : BOOLEAN]
  /\ DOMAIN items = 1..Cardinality(DOMAIN items)
  /\ \A x \in Targets : materials[x] \in Nat

\* Redelivered, republished and retried messages run a job again and again; a worker of one
\* thread still leaves one set of untouched questions for each job, at most one live item of
\* each topic and type beside those a teacher made active, and one generated material for each
\* topic (the purge by jobId, the version bump and the upsert of db.py).
SerialRunsStoreOnce ==
  workload.threads = 1 =>
    /\ \A j \in Rows : Cardinality(Untouched(j)) <= 1
    /\ \A i \in DOMAIN items :
         Cardinality({k \in LiveItems(items[i].target, items[i].type) : ~items[k].set}) <= 1
    /\ \A x \in Targets : materials[x] <= 1

\* Two runs and a teacher number the versions of an item from what each has read: the
\* versions are 1 to current_version, none twice and none missing.
VersionsGapless ==
  \A i \in DOMAIN items : items[i].versions = 1..items[i].current /\ items[i].rows = items[i].current

\* The payload of a candidate stems from the last edit its teacher made: no run writes back
\* a payload it read before the edit (write_generated_answer's expected_updated_at).
EditsInEffect == \A c \in DOMAIN candidates : candidates[c].payload = candidates[c].edits

\* A starter job queues its dependents only once the topic has its material, whatever becomes
\* of the starter and its connection; and though anyone may ask for content or questions of a
\* topic without a material, none are stored of one (_resolve_materials).
DependentsHaveMaterial ==
  /\ \A j \in Rows : jobs[j].dependent => materials[Target(j)] > 0
  /\ \A i \in DOMAIN items : materials[items[i].target] > 0
  /\ \A q \in questions : materials[Target(q.job)] > 0

\* A completed job's result is stored, whatever ran, failed or was cancelled around it: for
\* content an item of the topic and a type asked for, this job's or another's; for an answer,
\* that answer or a teacher's review that superseded it.
Stored(j) ==
  CASE Kind(j) = "questions" -> GeneratedBy(j) # {}
    [] Kind(j) = "content" ->
         \E i \in DOMAIN items : items[i].target = Target(j) /\ items[i].type \in workload.specs[j].parts
    [] Kind(j) = "starter" -> materials[Target(j)] > 0
    [] Kind(j) = "syllabus" -> syllabi[Target(j)].draft > 0
    [] Kind(j) = "blueprint" -> patterns[Target(j)].draft > 0
    [] OTHER -> candidates[Target(j)].revision > 0
CompletedIsStored == \A j \in Rows : jobs[j].status = "completed" => Stored(j)

\* A question that someone other than the requester has edited survives every later run of
\* its job ("anything a teacher already touched is never removed", db.py).
TouchedKept == [][\A q \in questions : q.touched => q \in questions']_vars

\* A confirmed syllabus keeps the structure that was confirmed, even from a run that was
\* under way, or delivered again, when the teacher confirmed it.
ConfirmedKept ==
  [][\A s \in DOMAIN syllabi : syllabi[s].status = "CONFIRMED" =>
       syllabi'[s].draft = syllabi[s].draft /\ syllabi'[s].status = "CONFIRMED"]_vars

\* A job with a message in the queue is settled: completed, failed or, when a teacher
\* cancels it, cancelled, though the worker crashes and loses its connection on the way.
Undelivered(j) == queue[j] > 0 /\ jobs[j].status \in {"queued", "processing", "cancelling"}
JobsSettle == \A j \in Jobs : (j \in Rows /\ Undelivered(j)) ~> (j \in Rows /\ Settled(j))

=============================================================================
