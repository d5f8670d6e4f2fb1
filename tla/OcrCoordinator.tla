--------------------------- MODULE OcrCoordinator ---------------------------
(***************************************************************************)
(* Distributed OCR of one uploaded material: the server-side coordinator   *)
(* (apps/api/src/ocr/ocr-coordinator.service.ts), the job row it drives    *)
(* (jobs.service.ts), the process/retry endpoint that starts it            *)
(* (materials.service.ts) and the external workers that pull page ranges   *)
(* (apps/workers/ocr-worker/ocr_worker/app.py).                            *)
(*                                                                         *)
(* Grain.  One database statement or transaction is one step.  A handler   *)
(* that reads, and later writes what it decided from that read, takes      *)
(* several steps and carries what it read; every other actor may move in   *)
(* between.  Leases carry no clock: a live lease may expire at any moment  *)
(* and a heartbeat makes it live again.  Page text is abstracted to the    *)
(* set of pages it covers; materials.progress is a display field and is    *)
(* left out.                                                               *)
(***************************************************************************)
EXTENDS Naturals, FiniteSets

CONSTANTS
  Workers,        \* registered ocr_workers rows, one worker process each
  Users,          \* concurrent API requests of staff members
  Sweepers,       \* sweep() runs that may overlap (the timer awaits nothing)
  MaxJobs,        \* bound: MATERIAL_PROCESS job rows
  PageCount,      \* pages of the source document
  ChunkSize,      \* CHUNK_SIZE
  SinglePage,     \* TRUE for images and plain text, FALSE for a PDF
  MaxAttempts,    \* MAX_ATTEMPTS
  Scenarios,      \* bound: how often each environment event may happen, per scenario
  NoWorker, NoRef

Events == {"fault", "expire", "timeout", "workerCrash", "apiCrash", "dbError",
           "toggle", "overlap", "process", "retryMaterial", "createJob", "cancel", "retryJob"}

ASSUME OcrAssumption ==
  /\ MaxJobs \in Nat \ {0} /\ PageCount \in Nat \ {0} /\ ChunkSize \in Nat \ {0}
  /\ MaxAttempts \in Nat \ {0} /\ SinglePage \in BOOLEAN
  /\ SinglePage => PageCount = 1
  /\ Scenarios \subseteq [Events -> Nat]
  /\ NoWorker \notin Workers

Jobs == 1 .. MaxJobs
LastIndex == (PageCount - 1) \div ChunkSize + 1
AllPages == 1 .. PageCount
NoPages == 0                               \* documentPages IS NULL

\* Page range of a chunk row: the first one is cut before the page count is known.
StartPage(i) == (i - 1) * ChunkSize + 1
EndPage(i) == IF i = 1 \/ i * ChunkSize < PageCount THEN i * ChunkSize ELSE PageCount

\* What extract_range returns for the chunk, and whether it accepts the window.
PagesOf(i) == StartPage(i) .. (IF EndPage(i) < PageCount THEN EndPage(i) ELSE PageCount)
Extractable(i) == SinglePage => StartPage(i) = 1 /\ EndPage(i) = 1
ReportedTotal == IF SinglePage THEN NoPages ELSE PageCount

\* materializeNextChunk stops when the next chunk would start behind the last page.
\* Mutations: one page too early, one page too late.
BeyondEndEarly(i) == StartPage(i) >= ReportedTotal
BeyondEndLate(i) == StartPage(i) > ReportedTotal + 1
BeyondEnd(i) == StartPage(i) > ReportedTotal

JobStatus == {"none", "queued", "processing", "cancelling",
              "completed", "failed", "cancelled"}
ChunkStatus == {"pending", "claimed", "submitted", "failed", "cancelled"}
Lease == {"none", "live", "expired"}
MaterialStatus == {"UPLOADED", "QUEUED", "PROCESSING", "READY", "FAILED"}

VARIABLES
  job,        \* jobs.status, "none" before the row is inserted
  chunk,      \* ocr_chunks: per job, the rows that exist, by chunk index
  gen,        \* how often a job's chunk set was re-created (row identity)
  material,   \* materials.processing_status and text_content
  registry,   \* ocr_workers.enabled and current_chunk_id
  worker,     \* the worker processes
  calls,      \* result / fail requests the API has accepted and not finished
  user,       \* process / retry / cancel requests in progress
  sweep,      \* sweep() runs in progress
  budget      \* environment events still to come

vars == <<job, chunk, gen, material, registry, worker, calls, user, sweep, budget>>

Ref == [job : Jobs, index : 1 .. LastIndex, gen : Nat]
Row == [gen : Nat, status : ChunkStatus, by : Workers \cup {NoWorker}, lease : Lease,
        attempts : Nat, total : Nat, pages : SUBSET AllPages, permanent : BOOLEAN]
Call == [op : {"submit", "fail"}, worker : Workers, ref : Ref, attempts : Nat,
         total : Nat, permanent : BOOLEAN, pc : {"tx", "next"}, waiting : BOOLEAN]
IdleUser == [pc |-> "idle", job |-> 1, seen |-> "none"]
IdleSweep == [pc |-> "idle", todo |-> {}, job |-> 1, text |-> {}]
IdleWorker == [pc |-> "idle", ref |-> NoRef, permanent |-> FALSE]

-----------------------------------------------------------------------------
(* Rows *)

Exists(r) == r.index \in DOMAIN chunk[r.job] /\ chunk[r.job][r.index].gen = r.gen
RowOf(r) == chunk[r.job][r.index]
Refs == UNION {{[job |-> j, index |-> i, gen |-> chunk[j][i].gen] : i \in DOMAIN chunk[j]}
               : j \in Jobs}

NewRow(g, total) ==
  [gen |-> g, status |-> "pending", by |-> NoWorker, lease |-> "none",
   attempts |-> 0, total |-> total, pages |-> {}, permanent |-> FALSE]
\* Mutation: the lease survives the release of the chunk.
ReleasedKeepingLease(row, status) == [row EXCEPT !.status = status, !.by = NoWorker]
Released(row, status) == [row EXCEPT !.status = status, !.by = NoWorker, !.lease = "none"]
WithRow(rows, i, row) == [k \in DOMAIN rows \cup {i} |-> IF k = i THEN row ELSE rows[k]]

\* UPDATE ocr_chunks ... WHERE id = r: no row is touched when it was deleted.
UpdateRow(r, row) ==
  chunk' = IF Exists(r) THEN [chunk EXCEPT ![r.job][r.index] = row] ELSE chunk

\* assertHeld, read outside the transaction that acts on it.
Held(w, r) == Exists(r) /\ RowOf(r).status = "claimed" /\ RowOf(r).by = w

\* The guard on every worker route: a disabled worker is refused.
Authorized(w) == registry[w].enabled

Spend(e) == budget[e] > 0 /\ budget' = [budget EXCEPT ![e] = @ - 1]
SetJob(j, status) == job' = [job EXCEPT ![j] = status]
SetMaterial(status) == material' = [material EXCEPT !.status = status]

\* enqueueJob's transaction: a fresh first chunk, material PROCESSING.
ResetChunks(j) ==
  /\ chunk' = [chunk EXCEPT ![j] = [i \in {1} |-> NewRow(gen[j] + 1, NoPages)]]
  /\ gen' = [gen EXCEPT ![j] = @ + 1]
  /\ SetMaterial("PROCESSING")

Init ==
  /\ job = [j \in Jobs |-> "none"]
  /\ chunk = [j \in Jobs |-> [i \in {} |-> NewRow(0, NoPages)]]
  /\ gen = [j \in Jobs |-> 0]
  /\ material = [status |-> "UPLOADED", text |-> {}]
  /\ registry = [w \in Workers |-> [enabled |-> TRUE, current |-> NoRef]]
  /\ worker = [w \in Workers |-> IdleWorker]
  /\ calls = {}
  /\ user = [u \in Users |-> IdleUser]
  /\ sweep = [s \in Sweepers |-> IdleSweep]
  /\ budget \in Scenarios

-----------------------------------------------------------------------------
(* Worker process and worker-facing API *)

\* Mutation: a claimed chunk is offered again whether or not its lease expired.
ClaimableAnyLease(r) ==
  job[r.job] = "processing" /\ RowOf(r).status \in {"pending", "claimed"}
Claimable(r) ==
  /\ job[r.job] = "processing"
  /\ \/ RowOf(r).status = "pending"
     \/ RowOf(r).status = "claimed" /\ RowOf(r).lease = "expired"

\* claim: one transaction.  Any eligible row may be taken, because SKIP LOCKED
\* passes over a lower chunk that another transaction holds at that moment.
Claim(w) ==
  /\ worker[w].pc = "idle" /\ Authorized(w)
  /\ \E r \in Refs :
       /\ Claimable(r)
       /\ UpdateRow(r, [RowOf(r) EXCEPT !.status = "claimed", !.by = w, !.lease = "live",
                                        !.attempts = @ + 1])
       /\ registry' = [registry EXCEPT ![w].current = r]
       /\ worker' = [worker EXCEPT ![w] = [IdleWorker EXCEPT !.pc = "extract", !.ref = r]]
  /\ UNCHANGED <<job, gen, material, calls, user, sweep, budget>>

\* A claim refused by the guard ends the poll loop.
ClaimRefused(w) ==
  /\ worker[w].pc = "idle" /\ ~Authorized(w)
  /\ worker' = [worker EXCEPT ![w].pc = "down"]
  /\ UNCHANGED <<job, chunk, gen, material, registry, calls, user, sweep, budget>>

Goto(w, pc, permanent) ==
  worker' = [worker EXCEPT ![w].pc = pc, ![w].permanent = permanent]

\* fetch_source, then extraction off the event loop: pages, a permanent (422)
\* rejection of the window, an injected extraction fault, or a refused fetch.
Extract(w) ==
  LET r == worker[w].ref IN
  /\ worker[w].pc = "extract"
  /\ \/ /\ Held(w, r) /\ Authorized(w)
        /\ IF Extractable(r.index) THEN Goto(w, "submit", FALSE) ELSE Goto(w, "fail", TRUE)
        /\ UNCHANGED budget
     \/ /\ Held(w, r) /\ Authorized(w)
        /\ Spend("fault")
        /\ \E permanent \in BOOLEAN : Goto(w, "fail", permanent)
     \/ /\ ~(Held(w, r) /\ Authorized(w))
        /\ Goto(w, "fail", FALSE)
        /\ UNCHANGED budget
  /\ UNCHANGED <<job, chunk, gen, material, registry, calls, user, sweep>>

\* A heartbeat while a chunk is processed renews the lease of current_chunk_id.
Heartbeat(w) ==
  LET r == registry[w].current IN
  /\ worker[w].pc \in {"extract", "submit", "fail", "wait"} /\ Authorized(w)
  /\ r # NoRef /\ Exists(r) /\ RowOf(r).by = w /\ RowOf(r).lease = "expired"
  /\ UpdateRow(r, [RowOf(r) EXCEPT !.lease = "live"])
  /\ UNCHANGED <<job, gen, material, registry, worker, calls, user, sweep, budget>>

Accept(w, op) ==
  LET r == worker[w].ref IN
  /\ calls' = calls \cup {[op |-> op, worker |-> w, ref |-> r,
                           attempts |-> RowOf(r).attempts, total |-> RowOf(r).total,
                           permanent |-> worker[w].permanent, pc |-> "tx", waiting |-> TRUE]}
  /\ Goto(w, "wait", worker[w].permanent)

\* submitResult up to assertHeld; a refusal makes the worker report a failure.
Submit(w) ==
  /\ worker[w].pc = "submit"
  /\ IF Held(w, worker[w].ref) /\ Authorized(w)
       THEN Accept(w, "submit")
       ELSE Goto(w, "fail", FALSE) /\ UNCHANGED calls
  /\ UNCHANGED <<job, chunk, gen, material, registry, user, sweep, budget>>

\* failChunk up to assertHeld; a refusal escapes process_chunk: the worker exits.
ReportFailure(w) ==
  /\ worker[w].pc = "fail"
  /\ IF Held(w, worker[w].ref) /\ Authorized(w)
       THEN Accept(w, "fail")
       ELSE Goto(w, "down", FALSE) /\ UNCHANGED calls
  /\ UNCHANGED <<job, chunk, gen, material, registry, user, sweep, budget>>

\* The response reaches the worker only if it still waits for this call.
Respond(c, pc) ==
  /\ calls' = calls \ {c}
  /\ worker' = IF c.waiting THEN [worker EXCEPT ![c.worker].pc = pc] ELSE worker

\* submitResult's transaction: unconditional on the row id.
SubmitTx(c) ==
  LET total == IF ReportedTotal # NoPages THEN ReportedTotal ELSE c.total IN
  /\ c.op = "submit" /\ c.pc = "tx"
  /\ UpdateRow(c.ref, [Released(RowOf(c.ref), "submitted")
                         EXCEPT !.pages = PagesOf(c.ref.index), !.total = total])
  /\ registry' = [registry EXCEPT ![c.worker].current = NoRef]
  /\ IF ReportedTotal # NoPages
       THEN calls' = (calls \ {c}) \cup {[c EXCEPT !.pc = "next"]} /\ UNCHANGED worker
       ELSE Respond(c, "idle")
  /\ UNCHANGED <<job, gen, material, user, sweep, budget>>

\* materializeNextChunk, after the transaction committed; the unique index on
\* (job, chunk index) turns a second insertion into an error response.
MaterializeNextChunk(c) ==
  LET j == c.ref.job
      next == c.ref.index + 1 IN
  /\ c.op = "submit" /\ c.pc = "next"
  /\ IF BeyondEnd(next)
       THEN UNCHANGED chunk /\ Respond(c, "idle")
     ELSE IF next \in DOMAIN chunk[j]
       THEN UNCHANGED chunk /\ Respond(c, "fail")
     ELSE /\ chunk' = [chunk EXCEPT ![j] = WithRow(@, next, NewRow(gen[j], ReportedTotal))]
          /\ Respond(c, "idle")
  /\ UNCHANGED <<job, gen, material, registry, user, sweep, budget>>

\* failChunk's transaction: the ceiling is judged on the attempts read before.
FailTx(c) ==
  /\ c.op = "fail" /\ c.pc = "tx"
  /\ LET terminal == c.permanent \/ c.attempts >= MaxAttempts IN
     UpdateRow(c.ref, [Released(RowOf(c.ref), IF terminal THEN "failed" ELSE "pending")
                         EXCEPT !.permanent = c.permanent])
  /\ registry' = [registry EXCEPT ![c.worker].current = NoRef]
  /\ Respond(c, "idle")
  /\ UNCHANGED <<job, gen, material, user, sweep, budget>>

-----------------------------------------------------------------------------
(* Environment of the workers *)

LeaseExpires(r) ==
  /\ RowOf(r).lease = "live" /\ Spend("expire")
  /\ UpdateRow(r, [RowOf(r) EXCEPT !.lease = "expired"])
  /\ UNCHANGED <<job, gen, material, registry, worker, calls, user, sweep>>

\* httpx gives up while the API still works on the call: a result that timed
\* out is reported as a transport failure, a failure report ends the process.
ClientTimeout(c) ==
  /\ c.waiting /\ Spend("timeout")
  /\ calls' = (calls \ {c}) \cup {[c EXCEPT !.waiting = FALSE]}
  /\ Goto(c.worker, IF c.op = "submit" THEN "fail" ELSE "down", FALSE)
  /\ UNCHANGED <<job, chunk, gen, material, registry, user, sweep>>

WorkerCrash(w) ==
  /\ worker[w].pc # "down" /\ Spend("workerCrash")
  /\ worker' = [worker EXCEPT ![w] = [IdleWorker EXCEPT !.pc = "down"]]
  /\ calls' = {IF c.worker = w THEN [c EXCEPT !.waiting = FALSE] ELSE c : c \in calls}
  /\ UNCHANGED <<job, chunk, gen, material, registry, user, sweep>>

WorkerRestart(w) ==
  /\ worker[w].pc = "down"
  /\ worker' = [worker EXCEPT ![w] = IdleWorker]
  /\ UNCHANGED <<job, chunk, gen, material, registry, calls, user, sweep, budget>>

\* PATCH /ocr/workers/:id {enabled}
SetEnabled(w) ==
  /\ Spend("toggle")
  /\ registry' = [registry EXCEPT ![w].enabled = ~@]
  /\ UNCHANGED <<job, chunk, gen, material, worker, calls, user, sweep>>

\* The API process dies: every handler and sweep is lost, the waiting workers
\* see a broken connection, the database keeps what was committed.
ApiCrash ==
  /\ Spend("apiCrash")
  /\ calls' = {}
  /\ user' = [u \in Users |-> IdleUser]
  /\ sweep' = [s \in Sweepers |-> IdleSweep]
  /\ worker' = [w \in Workers |->
       IF \E c \in calls : c.worker = w /\ c.waiting /\ c.op = "submit"
         THEN [worker[w] EXCEPT !.pc = "fail", !.permanent = FALSE]
       ELSE IF \E c \in calls : c.worker = w /\ c.waiting
         THEN [worker[w] EXCEPT !.pc = "down"]
       ELSE worker[w]]
  /\ UNCHANGED <<job, chunk, gen, material, registry>>

-----------------------------------------------------------------------------
(* Requests of the staff: MaterialsService and JobsService *)

Created == {j \in Jobs : job[j] # "none"}
Fresh(j) == job[j] = "none" /\ \A k \in Jobs : k < j => job[k] # "none"
LatestLive == \E j \in Created : /\ \A k \in Created : k <= j
                                 /\ job[j] \in {"queued", "processing"}
SetUser(u, pc, j, seen) == user' = [user EXCEPT ![u] = [pc |-> pc, job |-> j, seen |-> seen]]
EndUser(u) == user' = [user EXCEPT ![u] = IdleUser]
UserAt(u, pc) == user[u].pc = pc

\* enqueueProcessing's first transaction, which locks the material row.
ProcessMaterial(u) ==
  /\ UserAt(u, "idle") /\ Spend("process")
  /\ material.status = "UPLOADED"
  /\ SetMaterial("QUEUED")
  /\ SetUser(u, "insert", 1, "UPLOADED")
  /\ UNCHANGED <<job, chunk, gen, registry, worker, calls, sweep>>

RetryMaterial(u) ==
  /\ UserAt(u, "idle") /\ Spend("retryMaterial")
  /\ \/ material.status = "FAILED"
     \/ material.status = "QUEUED" /\ ~LatestLive
  /\ SetMaterial("QUEUED")
  /\ SetUser(u, "insert", 1, material.status)
  /\ UNCHANGED <<job, chunk, gen, registry, worker, calls, sweep>>

InsertJob(u) ==
  /\ UserAt(u, "insert")
  /\ \E j \in Jobs : /\ Fresh(j) /\ SetJob(j, "queued")
                     /\ SetUser(u, "enqueue", j, user[u].seen)
  /\ UNCHANGED <<chunk, gen, material, registry, worker, calls, sweep, budget>>

EnqueueJob(u) ==
  /\ UserAt(u, "enqueue")
  /\ ResetChunks(user[u].job)
  /\ SetUser(u, "mark", user[u].job, user[u].seen)
  /\ UNCHANGED <<job, registry, worker, calls, sweep, budget>>

MarkProcessing(u) ==
  /\ UserAt(u, "mark")
  /\ SetJob(user[u].job, "processing")
  /\ EndUser(u)
  /\ UNCHANGED <<chunk, gen, material, registry, worker, calls, sweep, budget>>

\* A database error in insertJob / enqueueJob leads to the catch block: it fails the job, if
\* there is one, and then puts the material back, if it is still QUEUED.  An error while the
\* job is failed is swallowed, one in the revert ends the request.
EnqueueError(u) ==
  /\ user[u].pc \in {"insert", "enqueue", "mark", "failing", "revert"} /\ Spend("dbError")
  /\ CASE user[u].pc \in {"enqueue", "mark"} -> SetUser(u, "failing", user[u].job, user[u].seen)
       [] user[u].pc \in {"insert", "failing"} -> SetUser(u, "revert", user[u].job, user[u].seen)
       [] OTHER -> EndUser(u)
  /\ UNCHANGED <<job, chunk, gen, material, registry, worker, calls, sweep>>

FailEnqueued(u) ==
  /\ UserAt(u, "failing")
  /\ SetJob(user[u].job, "failed")
  /\ SetUser(u, "revert", user[u].job, user[u].seen)
  /\ UNCHANGED <<chunk, gen, material, registry, worker, calls, sweep, budget>>

RevertMaterial(u) ==
  /\ UserAt(u, "revert")
  /\ IF material.status = "QUEUED" THEN SetMaterial(user[u].seen) ELSE UNCHANGED material
  /\ EndUser(u)
  /\ UNCHANGED <<job, chunk, gen, registry, worker, calls, sweep, budget>>

\* POST /jobs with type MATERIAL_PROCESS: the row only, publishJob returns early.
CreateJob(u) ==
  /\ UserAt(u, "idle") /\ Spend("createJob")
  /\ \E j \in Jobs : Fresh(j) /\ SetJob(j, "queued")
  /\ UNCHANGED <<chunk, gen, material, registry, worker, calls, user, sweep>>

\* cancelJob and retryJob read the row in one statement and write it in another.
CancelRead(u) ==
  /\ UserAt(u, "idle") /\ Spend("cancel")
  /\ \E j \in Created :
       /\ job[j] \in {"queued", "processing", "cancelling"}
       /\ SetUser(u, "cancel", j, job[j])
  /\ UNCHANGED <<job, chunk, gen, material, registry, worker, calls, sweep>>

\* Mutation: a queued job, too, has to be settled by the sweep.
CancelTargetAlwaysCancelling(seen) == "cancelling"
CancelTarget(seen) == IF seen = "queued" THEN "cancelled" ELSE "cancelling"
CancelWrite(u) ==
  /\ UserAt(u, "cancel")
  /\ SetJob(user[u].job, CancelTarget(user[u].seen))
  /\ EndUser(u)
  /\ UNCHANGED <<chunk, gen, material, registry, worker, calls, sweep, budget>>

RetryJobRead(u) ==
  /\ UserAt(u, "idle") /\ Spend("retryJob")
  /\ \E j \in Created : job[j] \in {"failed", "cancelled"} /\ SetUser(u, "requeue", j, job[j])
  /\ UNCHANGED <<job, chunk, gen, material, registry, worker, calls, sweep>>

RetryJobWrite(u) ==
  /\ UserAt(u, "requeue")
  /\ SetJob(user[u].job, "queued")
  /\ EndUser(u)
  /\ UNCHANGED <<chunk, gen, material, registry, worker, calls, sweep, budget>>

-----------------------------------------------------------------------------
(* sweep() *)

SweepAt(s, pc) == sweep[s].pc = pc
SetSweep(s, rec) == sweep' = [sweep EXCEPT ![s] = rec]
GotoSweep(s, pc) == sweep' = [sweep EXCEPT ![s].pc = pc]
Picked(s, pc, entry, text) ==
  SetSweep(s, [pc |-> pc, todo |-> sweep[s].todo \ {entry}, job |-> entry[1], text |-> text])
JobsIn(S) == {<<j, job[j]>> : j \in {k \in Jobs : job[k] \in S}}

Reclaimable(row) ==
  /\ row.status = "claimed"
  /\ row.lease = "expired" \/ ~registry[row.by].enabled

\* Expired leases and the leases of disabled workers go back to pending.
Reclaim(s) ==
  /\ SweepAt(s, "idle") /\ GotoSweep(s, "retry")
  /\ IF \A t \in Sweepers : SweepAt(t, "idle") THEN UNCHANGED budget ELSE Spend("overlap")
  /\ chunk' = [j \in Jobs |-> [i \in DOMAIN chunk[j] |->
       IF Reclaimable(chunk[j][i]) THEN Released(chunk[j][i], "pending") ELSE chunk[j][i]]]
  /\ registry' = [w \in Workers |->
       IF registry[w].current \in {r \in Refs : Reclaimable(RowOf(r))}
         THEN [registry[w] EXCEPT !.current = NoRef] ELSE registry[w]]
  /\ UNCHANGED <<job, gen, material, worker, calls, user>>

\* Every failed chunk below the attempt ceiling goes back to pending.
RetryFailed(s) ==
  /\ SweepAt(s, "retry")
  /\ chunk' = [j \in Jobs |-> [i \in DOMAIN chunk[j] |->
       IF chunk[j][i].status = "failed" /\ chunk[j][i].attempts < MaxAttempts
         THEN [chunk[j][i] EXCEPT !.status = "pending", !.permanent = FALSE]
         ELSE chunk[j][i]]]
  /\ GotoSweep(s, "queued")
  /\ UNCHANGED <<job, gen, material, registry, worker, calls, user, budget>>

\* The two job queries of a sweep.  Mutations: running jobs are adopted again,
\* cancelling jobs are not settled.
AdoptableAndRunning == {"queued", "processing"}
Adoptable == {"queued"}
ActiveWithoutCancelling == {"processing"}
Active == {"processing", "cancelling"}

ReadQueued(s) ==
  /\ SweepAt(s, "queued")
  /\ SetSweep(s, [IdleSweep EXCEPT !.pc = "adopt", !.todo = JobsIn(Adoptable)])
  /\ UNCHANGED <<job, chunk, gen, material, registry, worker, calls, user, budget>>

\* The material is read for each queued job; a READY one is skipped.
ReadMaterial(s) ==
  /\ SweepAt(s, "adopt")
  /\ \E entry \in sweep[s].todo :
       Picked(s, IF material.status = "READY" THEN "adopt" ELSE "enqueue", entry, {})
  /\ UNCHANGED <<job, chunk, gen, material, registry, worker, calls, user, budget>>

Adopt(s) ==
  /\ SweepAt(s, "enqueue") /\ GotoSweep(s, "mark")
  /\ ResetChunks(sweep[s].job)
  /\ UNCHANGED <<job, registry, worker, calls, user, budget>>

MarkAdopted(s) ==
  /\ SweepAt(s, "mark") /\ GotoSweep(s, "adopt")
  /\ SetJob(sweep[s].job, "processing")
  /\ UNCHANGED <<chunk, gen, material, registry, worker, calls, user, budget>>

ReadActive(s) ==
  /\ SweepAt(s, "adopt") /\ sweep[s].todo = {}
  /\ SetSweep(s, [IdleSweep EXCEPT !.pc = "settle", !.todo = JobsIn(Active)])
  /\ UNCHANGED <<job, chunk, gen, material, registry, worker, calls, user, budget>>

\* documentPagesOf, coveredPages and isCompleteCoverage over the rows read.
DocumentPages(rows) ==
  LET totals == {rows[i].total : i \in DOMAIN rows} IN
  CHOOSE t \in totals : \A other \in totals : other <= t
CoveredPages(rows) == UNION {rows[i].pages : i \in DOMAIN rows}
\* Mutation: a reported page count is taken for complete coverage.
CoverageUnchecked(rows) == DocumentPages(rows) # NoPages
CompleteCoverage(rows) ==
  DocumentPages(rows) # NoPages /\ CoveredPages(rows) = 1 .. DocumentPages(rows)

\* The status decided from the job row read at ReadActive and the chunks read now.
SettleRead(s) ==
  /\ SweepAt(s, "settle")
  /\ \E entry \in sweep[s].todo :
       LET rows == chunk[entry[1]]
           next == IF DOMAIN rows = {} THEN "settle"
                   ELSE IF entry[2] = "cancelling" THEN "cancel"
                   ELSE IF \E i \in DOMAIN rows : rows[i].status = "failed" THEN "fail"
                   ELSE IF /\ \A i \in DOMAIN rows : rows[i].status = "submitted"
                           /\ CompleteCoverage(rows) THEN "ready"
                   ELSE "settle" IN
       Picked(s, next, entry, IF next = "ready" THEN CoveredPages(rows) ELSE {})
  /\ UNCHANGED <<job, chunk, gen, material, registry, worker, calls, user, budget>>

\* cancelJobChunks' transaction.
CancelChunks(s) ==
  LET j == sweep[s].job IN
  /\ SweepAt(s, "cancel") /\ GotoSweep(s, "cancelled")
  /\ chunk' = [chunk EXCEPT ![j] = [i \in DOMAIN @ |->
       IF @[i].status = "submitted" THEN @[i] ELSE Released(@[i], "cancelled")]]
  /\ SetMaterial("QUEUED")
  /\ UNCHANGED <<job, gen, registry, worker, calls, user, budget>>

\* finalizeFailed's transaction.  Mutation: only the job is failed.
FailJobOnly(s) ==
  /\ SweepAt(s, "fail") /\ GotoSweep(s, "failed")
  /\ UNCHANGED <<job, chunk, gen, material, registry, worker, calls, user, budget>>
FailMaterial(s) ==
  /\ SweepAt(s, "fail") /\ GotoSweep(s, "failed")
  /\ SetMaterial("FAILED")
  /\ UNCHANGED <<job, chunk, gen, registry, worker, calls, user, budget>>

\* finalizeReady's transaction: the text and READY in one update.
ReadyMaterial(s) ==
  /\ SweepAt(s, "ready") /\ GotoSweep(s, "completed")
  /\ material' = [status |-> "READY", text |-> sweep[s].text]
  /\ UNCHANGED <<job, chunk, gen, registry, worker, calls, user, budget>>

\* updateJobStatus after each of the three, without a condition on the status.
SettleJob(s) ==
  /\ sweep[s].pc \in {"cancelled", "failed", "completed"}
  /\ SetJob(sweep[s].job, sweep[s].pc)
  /\ GotoSweep(s, "settle")
  /\ UNCHANGED <<chunk, gen, material, registry, worker, calls, user, budget>>

EndSweep(s) ==
  /\ SweepAt(s, "settle") /\ sweep[s].todo = {}
  /\ SetSweep(s, IdleSweep)
  /\ UNCHANGED <<job, chunk, gen, material, registry, worker, calls, user, budget>>

-----------------------------------------------------------------------------
WorkerStep(w) ==
  \/ Claim(w) \/ ClaimRefused(w) \/ Extract(w) \/ Heartbeat(w)
  \/ Submit(w) \/ ReportFailure(w)
CallStep == \E c \in calls : SubmitTx(c) \/ MaterializeNextChunk(c) \/ FailTx(c)
RequestStep(u) ==
  \/ InsertJob(u) \/ EnqueueJob(u) \/ MarkProcessing(u)
  \/ FailEnqueued(u) \/ RevertMaterial(u) \/ CancelWrite(u) \/ RetryJobWrite(u)
StaffStep(u) ==
  \/ ProcessMaterial(u) \/ RetryMaterial(u) \/ CreateJob(u)
  \/ CancelRead(u) \/ RetryJobRead(u)
SweepStep(s) ==
  \/ Reclaim(s) \/ RetryFailed(s) \/ ReadQueued(s) \/ ReadMaterial(s) \/ Adopt(s)
  \/ MarkAdopted(s) \/ ReadActive(s) \/ SettleRead(s) \/ CancelChunks(s)
  \/ FailMaterial(s) \/ ReadyMaterial(s) \/ SettleJob(s) \/ EndSweep(s)
Environment ==
  \/ \E r \in Refs : LeaseExpires(r)
  \/ \E c \in calls : ClientTimeout(c)
  \/ \E w \in Workers : WorkerCrash(w) \/ WorkerRestart(w) \/ SetEnabled(w)
  \/ \E u \in Users : EnqueueError(u)
  \/ ApiCrash

Next ==
  \/ \E w \in Workers : WorkerStep(w)
  \/ CallStep
  \/ \E u \in Users : RequestStep(u) \/ StaffStep(u)
  \/ \E s \in Sweepers : SweepStep(s)
  \/ Environment

Spec == Init /\ [][Next]_vars

\* A live worker polls and works on, an accepted call and a request in progress
\* run to their end, and the sweep timer keeps firing.  Nobody has to restart a
\* worker process, to press a button or to inject a fault.
Fairness ==
  /\ \A w \in Workers : WF_vars(WorkerStep(w))
  /\ WF_vars(CallStep)
  /\ \A u \in Users : WF_vars(RequestStep(u))
  /\ \A s \in Sweepers : WF_vars(SweepStep(s))
LiveSpec == Spec /\ Fairness

-----------------------------------------------------------------------------
(* Properties *)

\* Every stored value has the type of its column, every process a legal state.
TypeOK ==
  /\ job \in [Jobs -> JobStatus]
  /\ \A j \in Jobs : DOMAIN chunk[j] \subseteq 1 .. LastIndex
                     /\ \A i \in DOMAIN chunk[j] : chunk[j][i] \in Row
  /\ DOMAIN chunk = Jobs
  /\ gen \in [Jobs -> Nat]
  /\ material \in [status : MaterialStatus, text : SUBSET AllPages]
  /\ registry \in [Workers -> [enabled : BOOLEAN, current : Ref \cup {NoRef}]]
  /\ worker \in [Workers -> [pc : {"idle", "extract", "submit", "fail", "wait", "down"},
                             ref : Ref \cup {NoRef}, permanent : BOOLEAN]]
  /\ calls \subseteq Call
  /\ user \in [Users -> [pc : {"idle", "insert", "enqueue", "mark", "failing", "revert", "cancel", "requeue"},
                         job : Jobs, seen : JobStatus \cup MaterialStatus]]
  /\ sweep \in [Sweepers ->
       [pc : {"idle", "retry", "queued", "adopt", "enqueue", "mark", "settle", "cancel",
              "fail", "ready", "cancelled", "failed", "completed"},
        todo : SUBSET (Jobs \X JobStatus), job : Jobs, text : SUBSET AllPages]]
  /\ budget \in [Events -> Nat]

\* docs/architecture/ocr-distributed-workers.md section 5: a material never goes
\* READY, and a job never completes, with only some of the pages in the text.
ReadyIsWhole ==
  material.status = "READY" \/ (\E j \in Jobs : job[j] = "completed")
    => material.text = AllPages

\* A lease belongs to exactly the rows in status claimed, and each such row
\* names its holder: no transition forgets one of the three columns.
LeaseCoherent ==
  \A r \in Refs : LET row == RowOf(r) IN
    /\ row.status = "claimed" <=> row.by # NoWorker
    /\ row.status = "claimed" <=> row.lease # "none"

\* While a worker's lease is live no other worker gets the chunk.
LiveLeaseNotStolen ==
  [][\A r \in Refs :
       RowOf(r).lease = "live" /\ Exists(r)' =>
         RowOf(r)'.by \in {RowOf(r).by, NoWorker}]_vars

\* Comment at materializeNextChunk: all chunks exist by the time the final chunk
\* submits.  When every row of a running job is submitted and no result is still
\* being handled, the rows cover the document; otherwise the job never settles.
AllSubmitted(j) ==
  /\ DOMAIN chunk[j] # {}
  /\ \A i \in DOMAIN chunk[j] : chunk[j][i].status = "submitted"
AllChunksMaterialized ==
  \A j \in Jobs :
    job[j] = "processing" /\ AllSubmitted(j) /\ (\A c \in calls : c.ref.job # j)
      => CoveredPages(chunk[j]) = AllPages

\* No material is left PROCESSING without a job, a sweep or a request that can
\* still move it on: neither the sweep nor the retry endpoint would touch it.
\* Only a cancel that has read queued leaves one, over a job adopted meanwhile.
NoOrphanProcessing ==
  material.status = "PROCESSING" =>
    \/ \E j \in Jobs : job[j] \in {"queued", "processing", "cancelling", "cancelled"}
    \/ \E u \in Users : ~UserAt(u, "idle")
    \/ \E s \in Sweepers : ~SweepAt(s, "idle")

\* settleActiveJobs passes over a job without chunk rows, and claim never offers
\* one: an active job without chunks would stay active for ever.
ActiveJobHasChunks ==
  \A j \in Jobs : job[j] \in {"processing", "cancelling"} => DOMAIN chunk[j] # {}

\* Comment at enqueueJob: the chunks dropped are those a previous run left on a
\* re-queued job.  The chunk set of a job that runs, or has run, is not rebuilt.
RunningChunksKept ==
  [][\A j \in Jobs : job[j] \in {"processing", "completed"} => gen'[j] = gen[j]]_vars

\* A material that started processing is settled, READY or FAILED, unless its job is
\* cancelled, as long as worker processes keep coming back: a worker that lost its
\* lease exits, and nothing in the repository restarts it.  In a run whose budget has
\* a crash of the API it need not: see AllChunksMaterialized.
ProcessingSettles ==
  budget.apiCrash = 0 /\ []<>(\E w \in Workers : worker[w].pc # "down")
    => (material.status = "PROCESSING" ~>
          material.status \in {"READY", "FAILED"} \/ \E j \in Jobs : job[j] = "cancelled")

\* A job that is cancelling does not stay so: the next sweep settles it.
CancellingSettles ==
  \A j \in Jobs : job[j] = "cancelling" ~> job[j] # "cancelling"

-----------------------------------------------------------------------------
(* What a comment says of the program, and the code does not keep *)

\* jobs.service.ts, cancelJob: processing -> cancelling, which the sweep settles
\* to cancelled; it never becomes failed, and nothing is persisted.
CancellingEndsCancelled ==
  [][\A j \in Jobs : job[j] = "cancelling" => job'[j] \in {"cancelling", "cancelled"}]_vars
=============================================================================
