----------------------------- MODULE AiJobsProof -----------------------------
(***************************************************************************)
(* Proofs about AiJobs: for every number of jobs, threads, requests,       *)
(* retries, crashes, lost connections and edits.                           *)
(***************************************************************************)
EXTENDS AiJobs, FiniteMaximum

-----------------------------------------------------------------------------
(* The inductive invariant.                                                *)

\* A job that was asked for.
IsRow(j) == j \in Rows

ItemsOK ==
  /\ items = [i \in DOMAIN items |-> items[i]]
  /\ \A i \in DOMAIN items :
       /\ DOMAIN items[i] = {"target", "type", "live", "current", "versions", "rows", "edits", "set"}
       /\ items[i].current \in Nat
       /\ items[i].versions = 1..items[i].current /\ items[i].rows = items[i].current

CandidatesOK ==
  /\ candidates = [c \in TargetsOf(workload, "answer") |-> candidates[c]]
  /\ \A c \in DOMAIN candidates :
       /\ DOMAIN candidates[c] = {"status", "revision", "answer", "payload", "edits"}
       /\ candidates[c].revision \in Nat /\ candidates[c].edits \in Nat
       /\ candidates[c].payload = candidates[c].edits

TablesOK ==
  /\ workload \in Workloads
  /\ materials \in [Targets -> Nat]
  /\ ItemsOK /\ CandidatesOK
  /\ syllabi = [s \in DOMAIN syllabi |-> syllabi[s]]
  /\ \A s \in DOMAIN syllabi : DOMAIN syllabi[s] = {"status", "analysis", "draft"}

JobsOK ==
  /\ jobs = [j \in Rows |-> jobs[j]]
  /\ \A j \in Rows : /\ DOMAIN jobs[j] = {"status", "started", "dependent"}
                     /\ jobs[j].dependent => materials[Target(j)] > 0

QueueOK ==
  /\ queue = [j \in Rows |-> queue[j]]
  /\ \A j \in Rows : queue[j] # 0 => IsRow(j)

RequestOK(q) == q = Idle \/ ({"op", "job"} \subseteq DOMAIN q /\ IsRow(q.job))
RequestsOK ==
  /\ requests = [r \in Requests |-> requests[r]]
  /\ \A r \in Requests : RequestOK(requests[r])

BootOK ==
  /\ boot.stage \in {"reset", "republish", "resend"} =>
       {"stage", "todo"} \subseteq DOMAIN boot /\ \A j \in boot.todo : IsRow(j)
  /\ boot.stage = "resend" => IsRow(boot.job)

\* What a run has read of a candidate is what the candidate still is, or was before a later
\* revision.
StillRead(seen, c) ==
  /\ seen.revision \in Nat /\ seen.revision <= c.revision
  /\ seen.revision = c.revision => seen.payload = c.payload

\* A thread at work: its job may run, and what it is about to write fits what it has read.
IsWork(w) ==
  /\ DOMAIN w = {"stage", "job", "held", "todo", "seen"}
  /\ IsRow(w.job)
  /\ w.stage = "mark" => Kind(w.job) = "syllabus"
  /\ w.stage \in {"ask", "check", "persist"} /\ Kind(w.job) = "answer" =>
       StillRead(w.seen, candidates[Target(w.job)])
  /\ w.stage = "persist" /\ Kind(w.job) = "questions" => \A q \in w.seen.read : ~q.touched
  /\ w.stage = "persist" /\ Kind(w.job) = "content" /\ w.seen.read.item # Null =>
       /\ w.seen.read.item \in DOMAIN items /\ w.seen.read.current \in Nat
       /\ w.seen.read.current <= items[w.seen.read.item].current
  /\ w.stage = "persist" /\ Kind(w.job) = "starter" /\ w.seen.read => materials[Target(w.job)] > 0
  /\ w.stage = "complete" /\ Kind(w.job) = "starter" => materials[Target(w.job)] > 0
  /\ w.stage \in {"dependents", "publish"} => materials[Target(w.job)] > 0
  /\ w.stage = "publish" => IsRow(w.seen)

ThreadOK(w) == w = Free \/ IsWork(w)
ThreadsOK ==
  /\ threads = [t \in Threads |-> threads[t]]
  /\ \A t \in Threads : ThreadOK(threads[t])

IInv == TablesOK /\ JobsOK /\ QueueOK /\ RequestsOK /\ BootOK /\ ThreadsOK

-----------------------------------------------------------------------------
(* Results only grow: what was read of them stays true or is outdated.     *)

Grows ==
  /\ workload' = workload
  /\ \A x \in Targets : materials[x] > 0 => materials'[x] > 0
  /\ \A i \in DOMAIN items : i \in DOMAIN items' /\ items[i].current <= items'[i].current
  /\ \A c \in DOMAIN candidates :
       candidates'[c] = candidates[c] \/ candidates[c].revision < candidates'[c].revision

LEMMA TargetIn ==
  ASSUME TablesOK, NEW j \in Rows
  PROVE  Target(j) \in Targets
BY AiJobsAssumption DEF TablesOK, IsWorkload, IsJobSpec, Rows, Target

LEMMA IsRowGrows ==
  ASSUME Grows, NEW j, IsRow(j)
  PROVE  IsRow(j)'
BY DEF Grows, Rows, IsRow

LEMMA MaterialStays ==
  ASSUME TablesOK, Grows, NEW j \in Rows, materials[Target(j)] > 0
  PROVE  (materials[Target(j)] > 0)'
<1>1. Target(j)' = Target(j)
  BY DEF Grows, Target
<1> QED
  BY <1>1, TargetIn DEF Grows

LEMMA AnswerTarget ==
  ASSUME TablesOK, NEW j \in Rows, Kind(j) = "answer"
  PROVE  Target(j) \in DOMAIN candidates
BY DEF TablesOK, CandidatesOK, TargetsOf, Rows, Kind, Target

\* A thread that is as it was, or steps to what would have been right before the step.
LEMMA ThreadCarried ==
  ASSUME TablesOK, TablesOK', Grows, NEW t, NEW w, ThreadOK(w), threads'[t] = w
  PROVE  ThreadOK(threads[t])'
<1>1. CASE w = Free
  BY <1>1 DEF ThreadOK, Free
<1>2. CASE IsWork(w)
  <2>1. w.job \in Rows /\ Target(w.job) \in Targets
    BY <1>2, TargetIn DEF IsWork, IsRow
  <2>2. Kind(w.job)' = Kind(w.job) /\ Target(w.job)' = Target(w.job) /\ Rows' = Rows
    BY DEF Grows, Kind, Target, Rows
  <2>3. w.stage = "publish" => w.seen \in Rows /\ Target(w.seen) \in Targets
    BY <1>2, TargetIn DEF IsWork, IsRow
  <2> DEFINE c == Target(w.job)
  <2>4. ASSUME w.stage \in {"ask", "check", "persist"}, Kind(w.job) = "answer"
        PROVE  StillRead(w.seen, candidates'[c])
    <3>1. c \in DOMAIN candidates /\ DOMAIN candidates' = DOMAIN candidates
      BY <2>1, <2>4, AnswerTarget DEF Grows, TablesOK, CandidatesOK
    <3>2. StillRead(w.seen, candidates[c]) /\ candidates[c].revision \in Nat /\ candidates'[c].revision \in Nat
      BY <1>2, <2>4, <3>1 DEF IsWork, TablesOK, CandidatesOK
    <3> QED
      BY <3>1, <3>2 DEF StillRead, Grows
  <2>5. ASSUME w.stage = "persist", Kind(w.job) = "content", w.seen.read.item # Null
        PROVE  /\ w.seen.read.item \in DOMAIN items' /\ w.seen.read.current \in Nat
               /\ w.seen.read.current <= items'[w.seen.read.item].current
    <3> DEFINE i == w.seen.read.item
    <3>1. i \in DOMAIN items /\ w.seen.read.current \in Nat /\ w.seen.read.current <= items[i].current
      BY <1>2, <2>5 DEF IsWork
    <3>2. i \in DOMAIN items' /\ items[i].current \in Nat /\ items'[i].current \in Nat
      BY <3>1 DEF Grows, TablesOK, ItemsOK
    <3> QED
      BY <3>1, <3>2 DEF Grows
  <2>6. materials[Target(w.job)] > 0 => materials'[Target(w.job)] > 0
    BY <2>1 DEF Grows
  <2>7. IsRow(w.job)' /\ (w.stage = "publish" => IsRow(w.seen)')
    BY <1>2, IsRowGrows DEF IsWork
  <2>8. IsWork(w)'
    BY <1>2, <2>2, <2>4, <2>5, <2>6, <2>7 DEF IsWork
  <2> QED
    BY <2>8 DEF ThreadOK, IsWork, StillRead
<1> QED
  BY <1>1, <1>2 DEF ThreadOK

-----------------------------------------------------------------------------
(* A step changes little: what it leaves alone, or sets to what may run, is right after it.  *)

LEMMA Quiet ==
  ASSUME IInv, UNCHANGED <<workload, results>>
  PROVE  TablesOK' /\ Grows
<1> USE DEF IInv
<1>0. /\ workload' = workload /\ items' = items /\ candidates' = candidates
      /\ materials' = materials /\ syllabi' = syllabi
  BY DEF results
<1>1. TablesOK'
  BY <1>0 DEF TablesOK, ItemsOK, CandidatesOK
<1>2. Grows
  BY DEF Grows, TablesOK, ItemsOK, results
<1> QED
  BY <1>1, <1>2

LEMMA JobsSame ==
  ASSUME IInv, TablesOK', Grows, UNCHANGED jobs
  PROVE  JobsOK'
<1>1. Rows' = Rows
  BY DEF Rows, Grows
<1>2. \A j \in Rows : materials[Target(j)] > 0 => (materials[Target(j)] > 0)'
  BY MaterialStays DEF IInv
<1> QED
  BY <1>1, <1>2 DEF IInv, JobsOK

\* One job row is written.
LEMMA JobsWritten ==
  ASSUME IInv, TablesOK', Grows, NEW j \in Rows, NEW row,
         DOMAIN row = {"status", "started", "dependent"}, row.dependent => materials[Target(j)] > 0,
         jobs' = [jobs EXCEPT ![j] = row]
  PROVE  JobsOK'
<1>1. Rows' = Rows
  BY DEF Rows, Grows
<1>2. \A k \in Rows : materials[Target(k)] > 0 => (materials[Target(k)] > 0)'
  BY MaterialStays DEF IInv
<1> QED
  BY <1>1, <1>2 DEF IInv, JobsOK

LEMMA JobsSet ==
  ASSUME IInv, TablesOK', Grows, NEW j \in Rows, NEW status,
         \/ SetStatus(j, status)
         \/ \E started : jobs' = [jobs EXCEPT ![j].status = status, ![j].started = started]
  PROVE  JobsOK'
<1>1. DOMAIN jobs[j] = {"status", "started", "dependent"} /\ (jobs[j].dependent => materials[Target(j)] > 0)
  BY DEF IInv, JobsOK
<1>2. CASE SetStatus(j, status)
  <2> DEFINE row == [jobs[j] EXCEPT !.status = status]
  <2>1. jobs' = [jobs EXCEPT ![j] = row]
    BY <1>2 DEF SetStatus
  <2>2. DOMAIN row = {"status", "started", "dependent"} /\ row.dependent = jobs[j].dependent
    BY <1>1
  <2> HIDE DEF row
  <2> QED
    BY <1>1, <2>1, <2>2, JobsWritten
<1>3. ASSUME NEW started, jobs' = [jobs EXCEPT ![j].status = status, ![j].started = started]
      PROVE  JobsOK'
  <2> DEFINE row == [jobs[j] EXCEPT !.status = status, !.started = started]
  <2>1. jobs' = [jobs EXCEPT ![j] = row]
    BY <1>3 DEF IInv, JobsOK
  <2>2. DOMAIN row = {"status", "started", "dependent"} /\ row.dependent = jobs[j].dependent
    BY <1>1
  <2> HIDE DEF row
  <2> QED
    BY <1>1, <2>1, <2>2, JobsWritten
<1> QED
  BY <1>2, <1>3

LEMMA QueueSame ==
  ASSUME IInv, TablesOK', Grows,
         \/ UNCHANGED queue
         \/ \E j \in Rows : IsRow(j) /\ Send(j)
         \/ \E j \in Rows : queue[j] > 0 /\ queue' = [queue EXCEPT ![j] = @ - 1]
  PROVE  QueueOK'
<1>1. Rows' = Rows
  BY DEF Rows, Grows
<1>2. \A k : IsRow(k) => IsRow(k)'
  BY IsRowGrows DEF IInv
<1>3. CASE UNCHANGED queue
  BY <1>1, <1>2, <1>3 DEF IInv, QueueOK
<1>4. CASE \E j \in Rows : IsRow(j) /\ Send(j)
  BY <1>1, <1>2, <1>4 DEF IInv, QueueOK, Send
<1>5. ASSUME NEW j \in Rows, queue[j] > 0, queue' = [queue EXCEPT ![j] = @ - 1]
      PROVE  QueueOK'
  <2>1. IsRow(j)
    BY <1>5 DEF IInv, QueueOK
  <2> QED
    BY <1>1, <1>2, <1>5, <2>1 DEF IInv, QueueOK
<1> QED
  BY <1>3, <1>4, <1>5

LEMMA RequestsSame ==
  ASSUME IInv, TablesOK', Grows,
         \/ UNCHANGED requests
         \/ \E r \in Requests : \E next : RequestOK(next) /\ Goto(r, next)
  PROVE  RequestsOK'
<1>1. \A k : IsRow(k) => IsRow(k)'
  BY IsRowGrows DEF IInv
<1>2. \A q : RequestOK(q) => RequestOK(q)'
  BY <1>1 DEF RequestOK
<1>3. CASE UNCHANGED requests
  BY <1>2, <1>3 DEF IInv, RequestsOK, RequestOK
<1>4. ASSUME NEW r \in Requests, NEW next, RequestOK(next), Goto(r, next)
      PROVE  RequestsOK'
  <2>1. requests' = [q \in Requests |-> IF q = r THEN next ELSE requests[q]]
    BY <1>4 DEF IInv, RequestsOK, Goto
  <2>2. ASSUME NEW q \in Requests PROVE RequestOK(requests[q])'
    BY <1>1, <1>4, <2>1 DEF IInv, RequestsOK, RequestOK
  <2> QED
    BY <2>1, <2>2 DEF RequestsOK
<1> QED
  BY <1>3, <1>4

LEMMA BootSame ==
  ASSUME IInv, TablesOK', Grows, UNCHANGED boot
  PROVE  BootOK'
<1>1. \A k : IsRow(k) => IsRow(k)'
  BY IsRowGrows DEF IInv
<1> QED
  BY <1>1 DEF IInv, BootOK

\* A thread goes on, to what is right after the step.
LEMMA ThreadsChange ==
  ASSUME IInv, TablesOK', Grows, NEW t \in Threads, NEW next, Put(t, next), ThreadOK(threads[t])'
  PROVE  ThreadsOK'
<1>1. Threads' = Threads
  BY DEF Threads, Grows
<1>2. threads' = [u \in Threads |-> IF u = t THEN next ELSE threads[u]]
  BY DEF IInv, ThreadsOK, Put
<1>3. ASSUME NEW u \in Threads, u # t PROVE ThreadOK(threads[u])'
  <2>1. ThreadOK(threads[u]) /\ threads'[u] = threads[u]
    BY <1>2, <1>3 DEF IInv, ThreadsOK
  <2> QED
    BY <2>1, ThreadCarried DEF IInv
<1> QED
  BY <1>1, <1>2, <1>3 DEF ThreadsOK

\* ... and what is right before it, still is.
LEMMA ThreadsPut ==
  ASSUME IInv, TablesOK', Grows, NEW t \in Threads, NEW next, Put(t, next), ThreadOK(next)
  PROVE  ThreadsOK'
<1>1. threads'[t] = next
  BY DEF IInv, ThreadsOK, Put
<1>2. ThreadOK(threads[t])'
  BY <1>1, ThreadCarried DEF IInv
<1> QED
  BY <1>2, ThreadsChange

LEMMA ThreadsSame ==
  ASSUME IInv, TablesOK', Grows, UNCHANGED threads
  PROVE  ThreadsOK'
<1>1. Threads' = Threads
  BY DEF Threads, Grows
<1>2. ASSUME NEW u \in Threads PROVE ThreadOK(threads[u])'
  <2>1. ThreadOK(threads[u])
    BY DEF IInv, ThreadsOK
  <2> QED
    BY <2>1, ThreadCarried DEF IInv
<1> QED
  BY <1>1, <1>2 DEF IInv, ThreadsOK

LEMMA Working ==
  ASSUME IInv, NEW t \in Threads, threads[t].stage # "free"
  PROVE  IsWork(threads[t]) /\ threads[t].job \in Rows /\ IsRow(threads[t].job)
BY DEF IInv, ThreadsOK, ThreadOK, Free, IsWork, IsRow

\* Stages whose statement needs nothing of what the thread has read.
Plain == {"status", "settle", "begin", "read", "unmark", "withdraw", "fail", "ack", "prepare"}

LEMMA ThreadsGo ==
  ASSUME IInv, TablesOK', Grows, NEW t \in Threads, threads[t].stage # "free",
         NEW stage, GotoStage(t, stage),
         \/ stage \in Plain
         \/ stage = "complete" /\ Kind(threads[t].job) # "starter"
         \/ stage = "complete" /\ materials[Target(threads[t].job)] > 0
         \/ stage = "dependents" /\ materials[Target(threads[t].job)] > 0
  PROVE  ThreadsOK'
<1> DEFINE next == [threads[t] EXCEPT !.stage = stage]
<1>1. IsWork(threads[t])
  BY Working
<1>2. DOMAIN next = DOMAIN threads[t] /\ next.stage = stage /\ next.job = threads[t].job
  BY <1>1 DEF IsWork
<1>3. IsWork(next)
  BY <1>1, <1>2 DEF IsWork, Plain
<1>4. ThreadOK(next) /\ Put(t, next)
  BY <1>3 DEF ThreadOK, GotoStage
<1> QED
  BY <1>4, ThreadsPut

-----------------------------------------------------------------------------
(* The API.                                                                *)

\* One row of syllabi is written and nothing else of the results.
LEMMA SyllabiWritten ==
  ASSUME IInv, UNCHANGED <<workload, items, candidates, materials>>,
         NEW s, NEW row, syllabi' = [syllabi EXCEPT ![s] = row],
         s \in DOMAIN syllabi => DOMAIN row = {"status", "analysis", "draft"}
  PROVE  TablesOK' /\ Grows
<1> USE DEF IInv
<1>1. TablesOK'
  BY DEF TablesOK, ItemsOK, CandidatesOK
<1>2. Grows
  BY DEF Grows, TablesOK, ItemsOK
<1> QED
  BY <1>1, <1>2

LEMMA Asked ==
  ASSUME IInv, NEW r \in Requests, requests[r] # Idle
  PROVE  /\ {"op", "job"} \subseteq DOMAIN requests[r] /\ IsRow(requests[r].job)
         /\ requests[r].job \in Rows
BY DEF IInv, RequestsOK, RequestOK, IsRow

\* One candidate is left as it is, or gets a new revision.
LEMMA CandidateWritten ==
  ASSUME IInv, UNCHANGED <<workload, items, materials, syllabi>>,
         NEW c \in DOMAIN candidates, NEW row, candidates' = [candidates EXCEPT ![c] = row],
         DOMAIN row = {"status", "revision", "answer", "payload", "edits"},
         row.revision \in Nat, row.edits \in Nat, row.payload = row.edits,
         row = candidates[c] \/ candidates[c].revision < row.revision
  PROVE  TablesOK' /\ Grows
<1> USE DEF IInv
<1>1. CandidatesOK'
  BY DEF TablesOK, CandidatesOK
<1>2. TablesOK'
  BY <1>1 DEF TablesOK, ItemsOK
<1>3. Grows
  <2>1. \A k \in DOMAIN candidates :
          candidates'[k] = candidates[k] \/ candidates[k].revision < candidates'[k].revision
    OBVIOUS
  <2>2. \A i \in DOMAIN items : items[i].current <= items'[i].current
    BY DEF TablesOK, ItemsOK
  <2> QED
    BY <2>1, <2>2 DEF Grows
<1> QED
  BY <1>2, <1>3

\* A review leaves the candidate with its last edit's payload; of a row that is none, nothing is known.
LEMMA ReviewedRow ==
  ASSUME IInv, UNCHANGED <<workload, items, materials, syllabi>>, NEW c, NEW act,
         candidates' = [candidates EXCEPT ![c] = Reviewed(@, act)]
  PROVE  TablesOK' /\ Grows
<1>1. CASE c \in DOMAIN candidates
  <2> DEFINE old == candidates[c]
             row == Reviewed(old, act)
  <2>1. candidates' = [candidates EXCEPT ![c] = row]
    BY <1>1
  <2>2. /\ DOMAIN old = {"status", "revision", "answer", "payload", "edits"}
        /\ old.revision \in Nat /\ old.edits \in Nat /\ old.payload = old.edits
    BY <1>1 DEF IInv, TablesOK, CandidatesOK
  <2>3. /\ DOMAIN row = {"status", "revision", "answer", "payload", "edits"}
        /\ row.revision \in Nat /\ row.edits \in Nat /\ row.payload = row.edits
        /\ row = old \/ old.revision < row.revision
    <3> HIDE DEF old
    <3>1. CASE row = old
      BY <2>2, <3>1
    <3>2. CASE row = [old EXCEPT !.revision = @ + 1, !.answer = "edited", !.edits = @ + 1, !.payload = old.edits + 1]
      BY <2>2, <3>2
    <3>3. CASE \E status : row = [old EXCEPT !.revision = @ + 1, !.status = status]
      BY <2>2, <3>3
    <3> QED
      BY <3>1, <3>2, <3>3 DEF Reviewed
  <2> HIDE DEF row
  <2> QED
    BY <1>1, <2>1, <2>3, CandidateWritten
<1>2. CASE c \notin DOMAIN candidates
  <2>1. candidates' = candidates
    BY <1>2 DEF IInv, TablesOK, CandidatesOK
  <2> QED
    BY <2>1 DEF IInv, TablesOK, ItemsOK, CandidatesOK, Grows
<1> QED
  BY <1>1, <1>2

LEMMA RequestStep ==
  ASSUME IInv, NEW r \in Requests, Request(r)
  PROVE  IInv'
<1> DEFINE q == requests[r]
<1>0. RequestOK(Idle)
  BY DEF RequestOK
<1>1. ASSUME NEW j \in Rows,
             \/ RequestRead(r, j) \/ CancelRead(r, j) \/ RetryRead(r, j)
             \/ \E act \in {"update", "accept", "discard"} : ReviewRead(r, j, act)
      PROVE  IInv'
  <2>1. TablesOK' /\ Grows
    BY <1>1, Quiet DEF RequestRead, CancelRead, RetryRead, ReviewRead
  <2>2. IsRow(j)
    BY DEF IsRow
  <2>3. \E next : RequestOK(next) /\ Goto(r, next)
    <3>1. CASE RequestRead(r, j)
      <4>1. RequestOK([op |-> "generate", stage |-> "insert", job |-> j])
        BY <2>2 DEF RequestOK
      <4> QED
        BY <3>1, <4>1 DEF RequestRead
    <3>2. CASE CancelRead(r, j)
      <4>1. RequestOK([op |-> "cancel", job |-> j, next |-> NextStatus(jobs[j].status)])
        BY <2>2 DEF RequestOK
      <4> QED
        BY <3>2, <4>1 DEF CancelRead
    <3>3. CASE RetryRead(r, j)
      <4>1. RequestOK([op |-> "retry", stage |-> "requeue", job |-> j])
        BY <2>2 DEF RequestOK
      <4> QED
        BY <3>3, <4>1 DEF RetryRead
    <3>4. ASSUME NEW act, ReviewRead(r, j, act)
          PROVE  \E next : RequestOK(next) /\ Goto(r, next)
      <4>1. RequestOK([op |-> "review", job |-> j, act |-> act])
        BY <2>2 DEF RequestOK
      <4> QED
        BY <3>4, <4>1 DEF ReviewRead
    <3> QED
      BY <1>1, <3>1, <3>2, <3>3, <3>4
  <2>4. JobsOK' /\ QueueOK' /\ RequestsOK' /\ BootOK' /\ ThreadsOK'
    BY <1>1, <2>1, <2>3, JobsSame, QueueSame, RequestsSame, BootSame, ThreadsSame
    DEF RequestRead, CancelRead, RetryRead, ReviewRead
  <2> QED
    BY <2>1, <2>4 DEF IInv
<1>2. CASE RequestInsert(r) \/ RetryRequeue(r)
  <2>1. TablesOK' /\ Grows
    BY <1>2, Quiet DEF RequestInsert, RetryRequeue
  <2>2. q # Idle /\ IsRow(q.job) /\ q.job \in Rows /\ {"op", "job"} \subseteq DOMAIN q
    BY <1>2, Asked DEF RequestInsert, RetryRequeue, Idle
  <2>3. UNCHANGED jobs \/ SetStatus(q.job, "queued")
    BY <1>2 DEF RequestInsert, RetryRequeue
  <2>4. \E next : RequestOK(next) /\ Goto(r, next)
    <3>1. \A stage : RequestOK([q EXCEPT !.stage = stage])
      BY <2>2 DEF RequestOK
    <3> QED
      BY <1>0, <1>2, <3>1 DEF RequestInsert, RetryRequeue, End
  <2>5. JobsOK'
    BY <2>1, <2>2, <2>3, JobsSame, JobsSet
  <2>6. QueueOK' /\ RequestsOK' /\ BootOK' /\ ThreadsOK'
    BY <1>2, <2>1, <2>4, QueueSame, RequestsSame, BootSame, ThreadsSame
    DEF RequestInsert, RetryRequeue
  <2> QED
    BY <2>1, <2>5, <2>6 DEF IInv
<1>3. CASE RequestMark(r)
  <2> DEFINE s == Target(q.job)
  <2>1. syllabi' = [syllabi EXCEPT ![s] = [syllabi[s] EXCEPT !.analysis = "PROCESSING"]]
    BY <1>3 DEF RequestMark
  <2>2. s \in DOMAIN syllabi =>
          DOMAIN [syllabi[s] EXCEPT !.analysis = "PROCESSING"] = {"status", "analysis", "draft"}
    BY DEF IInv, TablesOK
  <2>3. TablesOK' /\ Grows
    <3> HIDE DEF s
    <3> QED
      BY <1>3, <2>1, <2>2, SyllabiWritten DEF RequestMark
  <2>4. RequestOK([q EXCEPT !.stage = "publish"])
    BY <1>3, Asked DEF RequestMark, Idle, RequestOK
  <2>5. JobsOK' /\ QueueOK' /\ RequestsOK' /\ BootOK' /\ ThreadsOK'
    BY <1>3, <2>3, <2>4, JobsSame, QueueSame, RequestsSame, BootSame, ThreadsSame DEF RequestMark
  <2> QED
    BY <2>3, <2>5 DEF IInv
<1>4. CASE RequestPublish(r)
  <2>1. TablesOK' /\ Grows
    BY <1>4, Quiet DEF RequestPublish
  <2>2. IsRow(q.job) /\ q.job \in Rows
    BY <1>4, Asked DEF RequestPublish, Publishing, Idle
  <2>3. JobsOK' /\ QueueOK' /\ RequestsOK' /\ BootOK' /\ ThreadsOK'
    BY <1>0, <1>4, <2>1, <2>2, JobsSame, QueueSame, RequestsSame, BootSame, ThreadsSame
    DEF RequestPublish, End
  <2> QED
    BY <2>1, <2>3 DEF IInv
<1>5. CASE RequestPublishFails(r)
  <2> DEFINE s == Target(q.job)
  <2>1. IsRow(q.job) /\ q.job \in Rows
    BY <1>5, Asked DEF RequestPublishFails, Publishing, Idle
  <2>2. ASSUME UNCHANGED syllabi PROVE TablesOK' /\ Grows
    BY <1>5, <2>2, Quiet DEF RequestPublishFails, results
  <2>3. ASSUME ~UNCHANGED syllabi PROVE TablesOK' /\ Grows
    <3>1. syllabi' = [syllabi EXCEPT ![s] = [syllabi[s] EXCEPT !.analysis = "FAILED"]]
      BY <1>5, <2>3 DEF RequestPublishFails
    <3>2. s \in DOMAIN syllabi =>
            DOMAIN [syllabi[s] EXCEPT !.analysis = "FAILED"] = {"status", "analysis", "draft"}
      BY DEF IInv, TablesOK
    <3> HIDE DEF s
    <3> QED
      BY <1>5, <3>1, <3>2, SyllabiWritten DEF RequestPublishFails
  <2>4. TablesOK' /\ Grows
    BY <2>2, <2>3
  <2>5. UNCHANGED jobs \/ SetStatus(q.job, "failed")
    BY <1>5 DEF RequestPublishFails
  <2>6. JobsOK'
    BY <2>1, <2>4, <2>5, JobsSame, JobsSet
  <2>7. QueueOK' /\ RequestsOK' /\ BootOK' /\ ThreadsOK'
    BY <1>0, <1>5, <2>4, QueueSame, RequestsSame, BootSame, ThreadsSame DEF RequestPublishFails, End
  <2> QED
    BY <2>4, <2>6, <2>7 DEF IInv
<1>6. CASE RequestDies(r) \/ CancelWrite(r)
  <2>1. TablesOK' /\ Grows
    BY <1>6, Quiet DEF RequestDies, CancelWrite
  <2>2. q # Idle /\ IsRow(q.job) /\ q.job \in Rows
    BY <1>6, Asked DEF RequestDies, CancelWrite, Idle
  <2>3. UNCHANGED jobs \/ SetStatus(q.job, q.next)
    BY <1>6 DEF RequestDies, CancelWrite
  <2>4. JobsOK'
    BY <2>1, <2>2, <2>3, JobsSame, JobsSet
  <2>5. QueueOK' /\ RequestsOK' /\ BootOK' /\ ThreadsOK'
    BY <1>0, <1>6, <2>1, QueueSame, RequestsSame, BootSame, ThreadsSame
    DEF RequestDies, CancelWrite, End
  <2> QED
    BY <2>1, <2>4, <2>5 DEF IInv
<1>7. CASE ReviewWrite(r)
  <2>1. q.job \in Rows
    BY <1>7, Asked DEF ReviewWrite, Idle
  <2>2. TablesOK' /\ Grows
    BY <1>7, <2>1, ReviewedRow DEF ReviewWrite
  <2>3. JobsOK' /\ QueueOK' /\ RequestsOK' /\ BootOK' /\ ThreadsOK'
    BY <1>0, <1>7, <2>2, JobsSame, QueueSame, RequestsSame, BootSame, ThreadsSame DEF ReviewWrite, End
  <2> QED
    BY <2>2, <2>3 DEF IInv
<1> QED
  BY <1>1, <1>2, <1>3, <1>4, <1>5, <1>6, <1>7 DEF Request

-----------------------------------------------------------------------------
(* Faults and the worker's start.                                          *)

LEMMA FaultStep ==
  ASSUME IInv, Crash \/ \E t \in Threads : LoseConnection(t)
  PROVE  IInv'
<1>0. TablesOK' /\ Grows
  BY Quiet DEF Crash, LoseConnection
<1>1. CASE Crash
  <2> DEFINE held(j) == {t \in Threads : Holding(t) /\ threads[t].job = j}
  <2>1. Rows' = Rows /\ Threads' = Threads
    BY <1>0 DEF Grows, Rows, Threads
  <2>2. ASSUME NEW j \in Rows, queue'[j] # 0 PROVE IsRow(j)
    <3>1. CASE queue[j] # 0
      BY <3>1 DEF IInv, QueueOK
    <3>2. CASE queue[j] = 0
      <4>1. queue'[j] = 0 + Cardinality(held(j))
        BY <1>1, <3>2 DEF Crash
      <4>2. held(j) # {}
        BY <2>2, <4>1, FS_EmptySet
      <4>3. PICK t \in Threads : Holding(t) /\ threads[t].job = j
        BY <4>2
      <4> QED
        BY <4>3, Working DEF Holding
    <3> QED
      BY <3>1, <3>2
  <2>3. queue' = [j \in Rows |-> queue'[j]]
    BY <1>1 DEF Crash
  <2>4. QueueOK'
    BY <1>0, <2>1, <2>2, <2>3, IsRowGrows DEF QueueOK, IInv
  <2>5. BootOK' /\ ThreadsOK'
    BY <1>1, <2>1 DEF Crash, BootOK, ThreadsOK, ThreadOK, Free
  <2>6. JobsOK' /\ RequestsOK'
    BY <1>0, <1>1, JobsSame, RequestsSame DEF Crash
  <2> QED
    BY <1>0, <2>4, <2>5, <2>6 DEF IInv
<1>2. ASSUME NEW t \in Threads, LoseConnection(t) PROVE IInv'
  <2> DEFINE next == [threads[t] EXCEPT !.held = FALSE]
  <2>1. IsWork(threads[t]) /\ IsRow(threads[t].job) /\ threads[t].job \in Rows
    BY <1>2, Working DEF LoseConnection, Holding
  <2>2. /\ DOMAIN next = DOMAIN threads[t] /\ next.stage = threads[t].stage
        /\ next.job = threads[t].job /\ next.seen = threads[t].seen
    BY <2>1 DEF IsWork
  <2>3. ThreadOK(next) /\ Put(t, next)
    BY <1>2, <2>1, <2>2 DEF IsWork, ThreadOK, LoseConnection
  <2>4. ThreadsOK'
    BY <1>0, <2>3, ThreadsPut
  <2>5. JobsOK' /\ QueueOK' /\ RequestsOK' /\ BootOK'
    BY <1>0, <1>2, <2>1, JobsSame, QueueSame, RequestsSame, BootSame DEF LoseConnection
  <2> QED
    BY <1>0, <2>4, <2>5 DEF IInv
<1> QED
  BY <1>1, <1>2

LEMMA BootStep ==
  ASSUME IInv, Boot
  PROVE  IInv'
<1>0. /\ TablesOK' /\ Grows
  BY Quiet DEF Boot, SweepRead, SweepReset, SweepRepublish, SweepResend, SweepDone
<1>1. \A k : IsRow(k) => IsRow(k)'
  BY <1>0, IsRowGrows DEF IInv
<1>2. RequestsOK' /\ ThreadsOK'
  BY <1>0, RequestsSame, ThreadsSame
  DEF Boot, SweepRead, SweepReset, SweepRepublish, SweepResend, SweepDone
<1>3. ASSUME SweepRead("processing", "reset", StaleProcessing)
             \/ SweepRead("queued", "republish", StaleQueued)
      PROVE  JobsOK' /\ QueueOK' /\ BootOK'
  <2>1. PICK stale : /\ \A j \in stale : j \in Rows
                     /\ \/ boot' = [stage |-> "reset", todo |-> stale]
                        \/ boot' = [stage |-> "republish", todo |-> stale]
    BY <1>3 DEF SweepRead, StaleProcessing, StaleQueued
  <2>2. \A j \in stale : IsRow(j)
    BY <2>1 DEF IsRow
  <2>3. BootOK'
    BY <1>1, <2>1, <2>2 DEF BootOK
  <2> QED
    BY <1>0, <1>3, <2>3, JobsSame, QueueSame DEF SweepRead
<1>4. ASSUME NEW j \in Rows, SweepReset(j) PROVE JobsOK' /\ QueueOK' /\ BootOK'
  <2>1. IsRow(j) /\ {"stage", "todo"} \subseteq DOMAIN boot /\ \A k \in boot.todo : IsRow(k)
    BY <1>4 DEF SweepReset, IInv, BootOK
  <2>2. BootOK'
    BY <1>1, <1>4, <2>1 DEF SweepReset, BootOK
  <2>3. \/ UNCHANGED jobs
        \/ \E started : jobs' = [jobs EXCEPT ![j].status = "queued", ![j].started = started]
    BY <1>4 DEF SweepReset
  <2>5. JobsOK'
    BY <1>0, <2>3, JobsSame, JobsSet
  <2> QED
    BY <1>0, <1>4, <2>2, <2>5, QueueSame DEF SweepReset
<1>5. ASSUME NEW j \in Rows, SweepRepublish(j) PROVE JobsOK' /\ QueueOK' /\ BootOK'
  <2>1. IsRow(j) /\ {"stage", "todo"} \subseteq DOMAIN boot /\ \A k \in boot.todo : IsRow(k)
    BY <1>5 DEF SweepRepublish, IInv, BootOK
  <2>2. BootOK'
    BY <1>1, <1>5, <2>1 DEF SweepRepublish, BootOK
  <2> QED
    BY <1>0, <1>5, <2>1, <2>2, JobsSame, QueueSame DEF SweepRepublish
<1>6. ASSUME SweepResend PROVE JobsOK' /\ QueueOK' /\ BootOK'
  <2>1. IsRow(boot.job) /\ boot.job \in Rows /\ \A k \in boot.todo : IsRow(k)
    BY <1>6 DEF SweepResend, IInv, BootOK, IsRow
  <2>2. BootOK'
    BY <1>1, <1>6, <2>1 DEF SweepResend, BootOK
  <2> QED
    BY <1>0, <1>6, <2>1, <2>2, JobsSame, QueueSame DEF SweepResend
<1>7. ASSUME SweepDone PROVE JobsOK' /\ QueueOK' /\ BootOK'
  <2>1. BootOK'
    BY <1>7 DEF SweepDone, BootOK
  <2> QED
    BY <1>0, <1>7, <2>1, JobsSame, QueueSame DEF SweepDone
<1> QED
  BY <1>0, <1>2, <1>3, <1>4, <1>5, <1>6, <1>7 DEF Boot, IInv

-----------------------------------------------------------------------------
(* Teachers.                                                               *)

\* Items keep their place and their versions.
LEMMA ItemsWritten ==
  ASSUME IInv, UNCHANGED <<workload, materials, candidates, syllabi>>, ItemsOK',
         \A i \in DOMAIN items : i \in DOMAIN items' /\ items[i].current <= items'[i].current
  PROVE  TablesOK' /\ Grows
BY DEF IInv, TablesOK, CandidatesOK, Grows

\* A new version is numbered from the current one.
LEMMA NextVersion ==
  ASSUME NEW n \in Nat
  PROVE  (1..n) \cup {n + 1} = 1..(n + 1)
OBVIOUS

LEMMA TeacherStep ==
  ASSUME IInv, Teacher
  PROVE  IInv'
<1>1. TablesOK' /\ Grows
  <2>1. ASSUME NEW q \in questions, TouchQuestion(q) PROVE TablesOK' /\ Grows
    <3>1. ItemsOK' /\ \A i \in DOMAIN items : items[i].current <= items'[i].current
      BY <2>1 DEF TouchQuestion, IInv, TablesOK, ItemsOK
    <3> QED
      BY <2>1, <3>1, ItemsWritten DEF TouchQuestion
  <2>2. ASSUME NEW i \in DOMAIN items, UpdateContent(i) PROVE TablesOK' /\ Grows
    <3> DEFINE n == items[i].current
    <3>1. ItemsOK /\ n \in Nat /\ items[i].versions = 1..n /\ items[i].rows = n
      BY DEF IInv, TablesOK, ItemsOK
    <3>2. items[i].versions \cup {n + 1} = 1..(n + 1)
      BY <3>1, NextVersion
    <3>3. /\ DOMAIN items' = DOMAIN items /\ items' = [k \in DOMAIN items' |-> items'[k]]
          /\ \A k \in DOMAIN items \ {i} : items'[k] = items[k]
      BY <2>2, <3>1 DEF UpdateContent, ItemsOK
    <3>4. /\ DOMAIN items'[i] = DOMAIN items[i] /\ items'[i].current = n + 1
          /\ items'[i].versions = items[i].versions \cup {n + 1} /\ items'[i].rows = n + 1
      BY <2>2, <3>1 DEF UpdateContent, ItemsOK
    <3> HIDE DEF n
    <3>5. ItemsOK'
      <4>1. DOMAIN items'[i] = {"target", "type", "live", "current", "versions", "rows", "edits", "set"}
        BY <3>1, <3>4 DEF ItemsOK
      <4>2. /\ items'[i].current \in Nat /\ items'[i].rows = items'[i].current
            /\ items'[i].versions = 1..items'[i].current
        BY <3>1, <3>2, <3>4
      <4> QED
        BY <3>1, <3>3, <4>1, <4>2 DEF ItemsOK
    <3>6. \A k \in DOMAIN items : k \in DOMAIN items' /\ items[k].current <= items'[k].current
      BY <3>1, <3>3, <3>4 DEF ItemsOK, n
    <3> QED
      BY <2>2, <3>5, <3>6, ItemsWritten DEF UpdateContent
  <2>3. ASSUME NEW i \in DOMAIN items, SetContentStatus(i) PROVE TablesOK' /\ Grows
    <3> DEFINE row == [items[i] EXCEPT !.live = ~items[i].live, !.set = TRUE, !.edits = items[i].edits + 1]
    <3>1. ItemsOK
      BY DEF IInv, TablesOK
    <3>2. items' = [items EXCEPT ![i] = row]
      BY <2>3, <3>1 DEF SetContentStatus, ItemsOK
    <3>3. /\ DOMAIN row = {"target", "type", "live", "current", "versions", "rows", "edits", "set"}
          /\ row.current = items[i].current /\ row.versions = items[i].versions /\ row.rows = items[i].rows
      BY <3>1 DEF ItemsOK
    <3> HIDE DEF row
    <3>4. ItemsOK' /\ \A k \in DOMAIN items : k \in DOMAIN items' /\ items[k].current <= items'[k].current
      <4>1. DOMAIN items' = DOMAIN items /\ items' = [k \in DOMAIN items' |-> items'[k]]
        BY <3>2
      <4>2. ASSUME NEW k \in DOMAIN items
            PROVE  /\ DOMAIN items'[k] = {"target", "type", "live", "current", "versions", "rows", "edits", "set"}
                   /\ items'[k].current = items[k].current /\ items'[k].versions = items[k].versions
                   /\ items'[k].rows = items[k].rows
        BY <3>1, <3>2, <3>3 DEF ItemsOK
      <4> QED
        BY <3>1, <4>1, <4>2 DEF ItemsOK
    <3> QED
      BY <2>3, <3>4, ItemsWritten DEF SetContentStatus
  <2>5. ASSUME NEW s \in DOMAIN syllabi, ConfirmSyllabus(s) PROVE TablesOK' /\ Grows
    <3> DEFINE row == [syllabi[s] EXCEPT !.status = "CONFIRMED"]
    <3>1. syllabi' = [syllabi EXCEPT ![s] = row]
      BY <2>5 DEF ConfirmSyllabus
    <3>2. DOMAIN row = {"status", "analysis", "draft"}
      BY DEF IInv, TablesOK
    <3> HIDE DEF row
    <3> QED
      BY <2>5, <3>1, <3>2, SyllabiWritten DEF ConfirmSyllabus
  <2>6. ASSUME NEW p \in DOMAIN patterns, ApprovePattern(p) PROVE TablesOK' /\ Grows
    <3>1. ItemsOK' /\ \A i \in DOMAIN items : items[i].current <= items'[i].current
      BY <2>6 DEF ApprovePattern, IInv, TablesOK, ItemsOK
    <3> QED
      BY <2>6, <3>1, ItemsWritten DEF ApprovePattern
  <2> QED
    BY <2>1, <2>2, <2>3, <2>5, <2>6 DEF Teacher
<1>2. UNCHANGED <<jobs, queue, threads, boot, requests>>
  BY DEF Teacher, TouchQuestion, UpdateContent, SetContentStatus,
         ConfirmSyllabus, ApprovePattern
<1>3. JobsOK' /\ QueueOK' /\ RequestsOK' /\ BootOK' /\ ThreadsOK'
  BY <1>1, <1>2, JobsSame, QueueSame, RequestsSame, BootSame, ThreadsSame
<1> QED
  BY <1>1, <1>3 DEF IInv

-----------------------------------------------------------------------------
(* The worker: steps that write no result.                                 *)

\* Steps that change nothing but the thread.
LEMMA WalkStep ==
  ASSUME IInv, NEW t \in Threads,
         \/ ReadStatus(t) \/ Read(t) \/ Ask(t) \/ RunFails(t) \/ Check(t) \/ Prepare(t)
         \/ SkipDependent(t) \/ DependentsDone(t) \/ PersistContentFails(t) \/ Ack(t)
  PROVE  IInv'
<1> DEFINE w == threads[t]
<1>0. TablesOK' /\ Grows
  BY Quiet DEF ReadStatus, Read, Ask, RunFails, Check, Prepare, SkipDependent, DependentsDone,
               PersistContentFails, Ack
<1>1. IsWork(w) /\ w.job \in Rows
  BY Working DEF ReadStatus, Read, Ask, RunFails, Check, Prepare, SkipDependent, DependentsDone,
                 PersistContentFails, Persisting, Ack, At
<1>2. ThreadsOK'
  <2>1. CASE ReadStatus(t) \/ RunFails(t) \/ PersistContentFails(t)
    <3>1. PICK stage \in Plain : GotoStage(t, stage)
      BY <2>1 DEF ReadStatus, AfterStatus, RunFails, Failing, PersistContentFails, Plain
    <3>2. w.stage # "free"
      BY <2>1 DEF ReadStatus, RunFails, PersistContentFails, Persisting, At
    <3> QED
      BY <1>0, <3>1, <3>2, ThreadsGo
  <2>2. CASE Read(t)
    <3> DEFINE j == w.job
               next == [w EXCEPT !.stage = IF Kind(j) = "syllabus" THEN "mark" ELSE "ask", !.seen = Source(j)]
    <3>1. Put(t, next)
      BY <2>2 DEF Read
    <3>2. /\ DOMAIN next = DOMAIN w /\ next.job = j /\ next.seen = Source(j)
          /\ next.stage = IF Kind(j) = "syllabus" THEN "mark" ELSE "ask"
      BY <1>1 DEF IsWork
    <3>3. Kind(j) = "answer" => StillRead(Source(j), candidates[Target(j)])
      <4>1. ASSUME Kind(j) = "answer" PROVE Source(j) = candidates[Target(j)]
        BY <2>2, <4>1 DEF Read, Source
      <4> QED
        BY <1>1, <4>1, AnswerTarget DEF IInv, TablesOK, CandidatesOK, StillRead
    <3> HIDE DEF next
    <3>4. IsWork(next)
      BY <1>1, <3>2, <3>3 DEF IsWork
    <3> QED
      BY <1>0, <3>1, <3>4, ThreadsPut DEF ThreadOK
  <2>8. CASE Ask(t)
    <3>1. PICK parts : Put(t, [w EXCEPT !.stage = "check", !.todo = parts])
      BY <2>8 DEF Ask
    <3> DEFINE next == [w EXCEPT !.stage = "check", !.todo = parts]
    <3>2. /\ DOMAIN next = DOMAIN w /\ next.job = w.job /\ next.seen = w.seen /\ next.stage = "check"
          /\ w.stage = "ask"
      BY <1>1, <2>8 DEF IsWork, Ask, At
    <3>3. IsWork(next)
      BY <1>1, <3>2 DEF IsWork
    <3> QED
      BY <1>0, <3>1, <3>3, ThreadsPut DEF ThreadOK
  <2>3. CASE Check(t)
    <3>0. w.stage = "check"
      BY <2>3 DEF Check, At
    <3>1. CASE \E stage \in Plain : GotoStage(t, stage)
      BY <1>0, <3>0, <3>1, ThreadsGo
    <3>2. CASE ~ReadsFirst(Kind(w.job)) /\ GotoStage(t, "persist")
      <4> DEFINE next == [w EXCEPT !.stage = "persist"]
      <4>1. /\ DOMAIN next = DOMAIN w /\ next.job = w.job /\ next.seen = w.seen
            /\ next.stage = "persist"
        BY <1>1 DEF IsWork
      <4>2. IsWork(next)
        BY <1>1, <3>0, <3>2, <4>1 DEF IsWork, ReadsFirst
      <4> QED
        BY <1>0, <3>2, <4>2, ThreadsPut DEF ThreadOK, GotoStage
    <3> QED
      BY <2>3, <3>1, <3>2 DEF Check, Cancelling, Plain
  <2>4. CASE Prepare(t)
    <3> DEFINE j == w.job
               Next0(part, read) == [w EXCEPT !.stage = "persist", !.seen = [part |-> part, read |-> read]]
    <3>1. PICK part, read : read \in Prepared(j, part) /\ Put(t, Next0(part, read))
      BY <2>4 DEF Prepare
    <3> DEFINE next == Next0(part, read)
    <3>2. /\ DOMAIN next = DOMAIN w /\ next.job = j /\ next.stage = "persist"
          /\ next.seen.read = read
      BY <1>1 DEF IsWork
    <3>3. Kind(j) \in {"questions", "content", "starter"}
      BY <3>1 DEF Prepared
    <3>4. Kind(j) = "questions" => \A q \in read : ~q.touched
      BY <3>1 DEF Prepared, Purged, Untouched
    <3>5. Kind(j) = "starter" => (read => materials[Target(j)] > 0)
      BY <3>1 DEF Prepared
    <3>6. ASSUME Kind(j) = "content", read.item # Null
          PROVE  /\ read.item \in DOMAIN items /\ read.current \in Nat
                 /\ read.current <= items[read.item].current
      <4>1. PICK i \in DOMAIN items : read = [item |-> i, current |-> items[i].current]
        BY <3>1, <3>6 DEF Prepared, Newest, LiveItems
      <4> QED
        BY <4>1 DEF IInv, TablesOK, ItemsOK
    <3> HIDE DEF next
    <3>7. IsWork(next)
      BY <1>1, <3>2, <3>3, <3>4, <3>5, <3>6 DEF IsWork
    <3> QED
      BY <1>0, <3>1, <3>7, ThreadsPut DEF ThreadOK, next
  <2>5. CASE SkipDependent(t)
    <3>1. PICK todo : Put(t, [w EXCEPT !.todo = todo])
      BY <2>5 DEF SkipDependent
    <3> DEFINE next == [w EXCEPT !.todo = todo]
    <3>2. /\ DOMAIN next = DOMAIN w /\ next.job = w.job /\ next.seen = w.seen
          /\ next.stage = w.stage
      BY <1>1 DEF IsWork
    <3>3. IsWork(next)
      BY <1>1, <3>2 DEF IsWork
    <3> QED
      BY <1>0, <3>1, <3>3, ThreadsPut DEF ThreadOK
  <2>6. CASE DependentsDone(t)
    <3>1. GotoStage(t, "ack") /\ w.stage # "free"
      BY <2>6 DEF DependentsDone, At
    <3> QED
      BY <1>0, <3>1, ThreadsGo DEF Plain
  <2>7. CASE Ack(t)
    BY <1>0, <2>7, ThreadsPut DEF Ack, ThreadOK
  <2> QED
    BY <2>1, <2>2, <2>3, <2>4, <2>5, <2>6, <2>7, <2>8
<1>3. JobsOK' /\ QueueOK' /\ RequestsOK' /\ BootOK'
  BY <1>0, JobsSame, QueueSame, RequestsSame, BootSame
  DEF ReadStatus, Read, Ask, RunFails, Check, Prepare, SkipDependent, DependentsDone,
      PersistContentFails, Ack
<1> QED
  BY <1>0, <1>2, <1>3 DEF IInv

\* Steps that write a job row or a message, or mark a syllabus.
LEMMA JobStep ==
  ASSUME IInv, NEW t \in Threads,
         \/ Begin(t) \/ Settle(t) \/ Complete(t) \/ Fail(t) \/ PublishDependent(t)
         \/ EnqueueDependent(t) \/ \E j \in Rows : Deliver(t, j)
  PROVE  IInv'
<1> DEFINE w == threads[t]
<1>0. TablesOK' /\ Grows
  BY Quiet DEF Begin, Settle, Complete, Fail, PublishDependent, EnqueueDependent, Deliver
<1>1. RequestsOK' /\ BootOK'
  BY <1>0, RequestsSame, BootSame
  DEF Begin, Settle, Complete, Fail, PublishDependent, EnqueueDependent, Deliver
<1>2. CASE Begin(t) \/ Settle(t) \/ Complete(t) \/ Fail(t)
  <2>1. IsWork(w) /\ w.job \in Rows /\ IsRow(w.job) /\ w.stage # "free"
    BY <1>2, Working DEF Begin, Settle, Complete, Fail, At
  <2>2. \/ UNCHANGED jobs
        \/ \E started : jobs' = [jobs EXCEPT ![w.job].status = "processing", ![w.job].started = started]
        \/ \E status : SetStatus(w.job, status)
    BY <1>2 DEF Begin, Settle, Complete, Fail
  <2>4. JobsOK'
    BY <1>0, <2>1, <2>2, JobsSame, JobsSet
  <2>5. ThreadsOK'
    <3>1. CASE \E stage \in Plain : GotoStage(t, stage)
      BY <1>0, <2>1, <3>1, ThreadsGo
    <3>2. CASE Complete(t) /\ Kind(w.job) = "starter"
      <4>1. w.stage = "complete" /\ GotoStage(t, "dependents")
        BY <3>2 DEF Complete, At
      <4>2. materials[Target(w.job)] > 0
        BY <2>1, <3>2, <4>1 DEF IsWork
      <4> QED
        BY <1>0, <2>1, <4>1, <4>2, ThreadsGo
    <3> QED
      BY <1>2, <3>1, <3>2 DEF Begin, Settle, Complete, Fail, Cancelling, Plain
  <2>6. QueueOK'
    BY <1>0, <1>2, QueueSame DEF Begin, Settle, Complete, Fail
  <2> QED
    BY <1>0, <1>1, <2>4, <2>5, <2>6 DEF IInv
<1>3. CASE PublishDependent(t)
  <2>1. IsWork(w) /\ w.stage = "publish" /\ w.stage # "free"
    BY <1>3, Working DEF PublishDependent, At
  <2>2. IsRow(w.seen) /\ w.seen \in Rows /\ materials[Target(w.job)] > 0
    BY <2>1 DEF IsWork, IsRow
  <2>3. QueueOK'
    BY <1>0, <1>3, <2>2, QueueSame DEF PublishDependent
  <2>4. GotoStage(t, "dependents") \/ GotoStage(t, "fail")
    BY <1>3 DEF PublishDependent
  <2>5. ThreadsOK'
    BY <1>0, <2>1, <2>2, <2>4, ThreadsGo DEF Plain
  <2>6. JobsOK'
    BY <1>0, <1>3, JobsSame DEF PublishDependent
  <2> QED
    BY <1>0, <1>1, <2>3, <2>5, <2>6 DEF IInv
<1>4. CASE EnqueueDependent(t)
  <2>1. IsWork(w) /\ w.job \in Rows /\ w.stage = "dependents"
    BY <1>4, Working DEF EnqueueDependent, At
  <2>2. PICK todo, kind, k :
           /\ k \in DependentRows(w.job, kind)
           /\ jobs' = [jobs EXCEPT ![k].status = "queued", ![k].dependent = TRUE]
           /\ Put(t, [w EXCEPT !.stage = "publish", !.todo = todo, !.seen = k])
    BY <1>4 DEF EnqueueDependent
  <2>3. materials[Target(w.job)] > 0
    BY <2>1 DEF IsWork
  <2>4. k \in Rows /\ IsRow(k) /\ materials[Target(k)] > 0
    BY <2>2, <2>3 DEF DependentRows, IsRow
  <2> DEFINE next == [w EXCEPT !.stage = "publish", !.todo = todo, !.seen = k]
  <2>5. DOMAIN next = DOMAIN w /\ next.stage = "publish" /\ next.job = w.job /\ next.seen = k
    BY <2>1 DEF IsWork
  <2>6. IsWork(next)
    BY <2>1, <2>3, <2>4, <2>5 DEF IsWork
  <2>7. ThreadsOK'
    BY <1>0, <2>2, <2>6, ThreadsPut DEF ThreadOK
  <2>8. JobsOK'
    <3> DEFINE row == [jobs[k] EXCEPT !.status = "queued", !.dependent = TRUE]
    <3>1. jobs' = [jobs EXCEPT ![k] = row]
      BY <2>2, <2>4 DEF IInv, JobsOK
    <3>2. DOMAIN row = {"status", "started", "dependent"}
      BY <2>4 DEF IInv, JobsOK
    <3> HIDE DEF row
    <3> QED
      BY <1>0, <2>4, <3>1, <3>2, JobsWritten
  <2>9. QueueOK'
    BY <1>0, <1>4, QueueSame DEF EnqueueDependent
  <2> QED
    BY <1>0, <1>1, <2>7, <2>8, <2>9 DEF IInv
<1>5. ASSUME NEW j \in Rows, Deliver(t, j) PROVE IInv'
  <2>1. IsRow(j)
    BY <1>5 DEF Deliver, IInv, QueueOK
  <2> DEFINE next == [stage |-> "status", job |-> j, held |-> TRUE,
                      todo |-> workload.specs[j].parts, seen |-> Null]
  <2>2. IsWork(next)
    BY <2>1 DEF IsWork
  <2>3. ThreadsOK'
    BY <1>0, <1>5, <2>2, ThreadsPut DEF ThreadOK, Deliver
  <2>4. QueueOK' /\ JobsOK'
    BY <1>0, <1>5, QueueSame, JobsSame DEF Deliver
  <2> QED
    BY <1>0, <1>1, <2>3, <2>4 DEF IInv
<1> QED
  BY <1>2, <1>3, <1>4, <1>5

-----------------------------------------------------------------------------
(* The worker: results.                                                    *)

\* Steps that write a result leave jobs, messages, requests and the worker's start alone.
LEMMA ResultFrame ==
  ASSUME IInv, TablesOK', Grows, ThreadsOK', UNCHANGED <<jobs, queue, boot, requests>>
  PROVE  IInv'
BY JobsSame, QueueSame, BootSame, RequestsSame DEF IInv

LEMMA SyllabusStep ==
  ASSUME IInv, NEW t \in Threads, Mark(t) \/ Unmark(t) \/ PersistSyllabus(t)
  PROVE  IInv'
<1> DEFINE w == threads[t]
           s == Target(w.job)
<1>1. IsWork(w) /\ w.job \in Rows /\ w.stage # "free"
  BY Working DEF Mark, Unmark, PersistSyllabus, Persisting, At
<1>2. \E row : /\ syllabi' = [syllabi EXCEPT ![s] = row]
               /\ s \in DOMAIN syllabi => DOMAIN row = {"status", "analysis", "draft"}
  <2>1. CASE Mark(t)
    <3> DEFINE row == [syllabi[s] EXCEPT !.analysis = "PROCESSING"]
    <3>1. syllabi' = [syllabi EXCEPT ![s] = row]
      BY <2>1 DEF Mark
    <3>2. s \in DOMAIN syllabi => DOMAIN row = {"status", "analysis", "draft"}
      BY DEF IInv, TablesOK
    <3> QED
      BY <3>1, <3>2
  <2>2. CASE Unmark(t)
    <3> DEFINE row == [syllabi[s] EXCEPT !.analysis = IF syllabi[s].status = "CONFIRMED" THEN @ ELSE "FAILED"]
    <3>1. syllabi' = [syllabi EXCEPT ![s] = row]
      BY <2>2 DEF Unmark
    <3>2. s \in DOMAIN syllabi => DOMAIN row = {"status", "analysis", "draft"}
      BY DEF IInv, TablesOK
    <3> QED
      BY <3>1, <3>2
  <2>3. CASE PersistSyllabus(t)
    <3> DEFINE row == Analysed(syllabi[s])
    <3>1. syllabi' = [syllabi EXCEPT ![s] = row]
      BY <2>3 DEF PersistSyllabus
    <3>2. s \in DOMAIN syllabi => DOMAIN row = {"status", "analysis", "draft"}
      BY DEF IInv, TablesOK, Analysed
    <3> QED
      BY <3>1, <3>2
  <2> QED
    BY <2>1, <2>2, <2>3
<1>3. TablesOK' /\ Grows
  <2> HIDE DEF s
  <2> QED
    BY <1>2, SyllabiWritten DEF Mark, Unmark, PersistSyllabus
<1>4. ThreadsOK'
  <2>1. CASE Mark(t)
    <3> DEFINE next == [w EXCEPT !.stage = "ask"]
    <3>1. w.stage = "mark" /\ Put(t, next)
      BY <2>1 DEF Mark, At, GotoStage
    <3>2. DOMAIN next = DOMAIN w /\ next.stage = "ask" /\ next.job = w.job /\ next.seen = w.seen
      BY <1>1 DEF IsWork
    <3>3. IsWork(next)
      BY <1>1, <3>1, <3>2 DEF IsWork
    <3> QED
      BY <1>3, <3>1, <3>3, ThreadsPut DEF ThreadOK
  <2>2. CASE Unmark(t)
    BY <1>1, <1>3, <2>2, ThreadsGo DEF Unmark, Plain
  <2>3. CASE PersistSyllabus(t)
    BY <1>1, <1>3, <2>3, ThreadsGo DEF PersistSyllabus, Persisting
  <2> QED
    BY <2>1, <2>2, <2>3
<1> QED
  BY <1>3, <1>4, ResultFrame DEF Mark, Unmark, PersistSyllabus

\* Questions and patterns are not read back by a run.
LEMMA AppendStep ==
  ASSUME IInv, NEW t \in Threads, PersistQuestions(t) \/ PersistBlueprint(t)
  PROVE  IInv'
<1> DEFINE w == threads[t]
<1>1. w.stage # "free" /\ Kind(w.job) # "starter" /\ GotoStage(t, "complete")
  BY DEF PersistQuestions, PersistBlueprint, Persisting, At
<1>2. UNCHANGED <<workload, materials, candidates, syllabi, items>>
  BY DEF PersistQuestions, PersistBlueprint
<1>3. ItemsOK' /\ \A i \in DOMAIN items : i \in DOMAIN items' /\ items[i].current <= items'[i].current
  BY <1>2 DEF IInv, TablesOK, ItemsOK
<1>4. TablesOK' /\ Grows
  BY <1>2, <1>3, ItemsWritten
<1>5. ThreadsOK'
  BY <1>1, <1>4, ThreadsGo
<1> QED
  BY <1>4, <1>5, ResultFrame DEF PersistQuestions, PersistBlueprint

\* The version that was read is still the current one if the next is not taken.
LEMMA ContentStep ==
  ASSUME IInv, NEW t \in Threads, PersistContent(t)
  PROVE  IInv'
<1> DEFINE w == threads[t]
           read == w.seen.read
           version == read.current + 1
<1>1. IsWork(w) /\ w.job \in Rows /\ w.stage = "persist" /\ Kind(w.job) = "content"
  BY Working DEF PersistContent, Persisting, At
<1>2. ItemsOK' /\ \A k \in DOMAIN items : k \in DOMAIN items' /\ items[k].current <= items'[k].current
  <2>1. CASE items' = Created(Target(w.job), w.seen.part)
    <3> DEFINE new == Cardinality(DOMAIN items) + 1
    <3>1. 1..1 = {1}
      OBVIOUS
    <3>2. /\ DOMAIN items' = DOMAIN items \cup {new} /\ items' = [k \in DOMAIN items' |-> items'[k]]
          /\ \A k \in DOMAIN items : items'[k] = items[k]
          /\ new \notin DOMAIN items =>
               items'[new] = [target |-> Target(w.job), type |-> w.seen.part, live |-> TRUE, current |-> 1,
                              versions |-> {1}, rows |-> 1, edits |-> 0, set |-> FALSE]
      BY <2>1 DEF Created
    <3> DEFINE fresh == [target |-> Target(w.job), type |-> w.seen.part, live |-> TRUE, current |-> 1,
                         versions |-> 1..1, rows |-> 1, edits |-> 0, set |-> FALSE]
    <3>3. /\ DOMAIN fresh = {"target", "type", "live", "current", "versions", "rows", "edits", "set"}
          /\ fresh.current = 1 /\ fresh.versions = 1..1 /\ fresh.rows = 1
      OBVIOUS
    <3>4. new \notin DOMAIN items => items'[new] = fresh
      BY <3>1, <3>2
    <3> HIDE DEF new, fresh
    <3>5. ItemsOK'
      <4>1. ASSUME NEW k \in DOMAIN items'
            PROVE  \/ k \in DOMAIN items /\ items'[k] = items[k]
                   \/ items'[k] = fresh
        BY <3>2, <3>4
      <4>2. ASSUME NEW k \in DOMAIN items'
            PROVE  /\ DOMAIN items'[k] = {"target", "type", "live", "current", "versions", "rows", "edits", "set"}
                   /\ items'[k].current \in Nat
                   /\ items'[k].versions = 1..items'[k].current /\ items'[k].rows = items'[k].current
        <5>1. CASE k \in DOMAIN items /\ items'[k] = items[k]
          BY <5>1 DEF IInv, TablesOK, ItemsOK
        <5>2. CASE ~(k \in DOMAIN items /\ items'[k] = items[k])
          <6>1. items'[k] = fresh
            BY <4>1, <5>2
          <6>2. fresh.current \in Nat /\ fresh.versions = 1..fresh.current /\ fresh.rows = fresh.current
            BY <3>3
          <6> QED
            BY <3>3, <6>1, <6>2
        <5> QED
          BY <5>1, <5>2
      <4> QED
        BY <3>2, <4>2 DEF ItemsOK
    <3> QED
      BY <3>2, <3>5 DEF IInv, TablesOK, ItemsOK
  <2>2. CASE read.item # Null /\ VersionFree(read.item, version) /\ items' = Appended(read.item, version)
    <3> DEFINE i == read.item
               n == items[i].current
    <3>1. ItemsOK /\ i \in DOMAIN items /\ read.current \in Nat /\ read.current <= n
      BY <1>1, <2>2 DEF IsWork, IInv, TablesOK
    <3>2. n \in Nat /\ items[i].versions = 1..n /\ items[i].rows = n
      BY <3>1 DEF ItemsOK
    <3>3. version = n + 1
      <4>1. version \notin 1..n /\ version \in Nat /\ version >= 1
        BY <2>2, <3>1, <3>2 DEF VersionFree
      <4> QED
        BY <3>1, <3>2, <4>1
    <3>4. items[i].versions \cup {version} = 1..(n + 1)
      BY <3>2, <3>3, NextVersion
    <3>5. /\ DOMAIN items' = DOMAIN items /\ items' = [k \in DOMAIN items' |-> items'[k]]
          /\ items'[i] = [items[i] EXCEPT !.current = version, !.versions = @ \cup {version}, !.rows = @ + 1]
          /\ \A k \in DOMAIN items \ {i} :
               items'[k] = items[k] \/ items'[k] = [items[k] EXCEPT !.live = FALSE]
      BY <2>2, <3>1 DEF Appended
    <3>6. DOMAIN items[i] = {"target", "type", "live", "current", "versions", "rows", "edits", "set"}
      BY <3>1 DEF ItemsOK
    <3>7. /\ DOMAIN items'[i] = DOMAIN items[i] /\ items'[i].current = n + 1
          /\ items'[i].versions = 1..(n + 1) /\ items'[i].rows = n + 1
      BY <3>2, <3>3, <3>4, <3>5, <3>6
    <3>8. ASSUME NEW k \in DOMAIN items \ {i}
          PROVE  /\ DOMAIN items'[k] = DOMAIN items[k] /\ items'[k].current = items[k].current
                 /\ items'[k].versions = items[k].versions /\ items'[k].rows = items[k].rows
      BY <3>1, <3>5 DEF ItemsOK
    <3> HIDE DEF n, i, version
    <3>9. n + 1 \in Nat /\ n <= n + 1
      BY <3>2
    <3>10. ItemsOK'
      <4>1. ASSUME NEW k \in DOMAIN items
            PROVE  /\ DOMAIN items'[k] = {"target", "type", "live", "current", "versions", "rows", "edits", "set"}
                   /\ items'[k].current \in Nat
                   /\ items'[k].versions = 1..items'[k].current /\ items'[k].rows = items'[k].current
        <5>1. CASE k = i
          BY <3>6, <3>7, <3>9, <5>1
        <5>2. CASE k # i
          BY <3>1, <3>8, <5>2 DEF ItemsOK
        <5> QED
          BY <5>1, <5>2
      <4> QED
        BY <3>5, <4>1 DEF ItemsOK
    <3>11. ASSUME NEW k \in DOMAIN items
           PROVE  k \in DOMAIN items' /\ items[k].current <= items'[k].current
      <4>1. CASE k = i
        BY <3>5, <3>7, <3>9, <4>1 DEF n
      <4>2. CASE k # i
        BY <3>1, <3>5, <3>8, <4>2 DEF ItemsOK
      <4> QED
        BY <4>1, <4>2
    <3> QED
      BY <3>10, <3>11
  <2> QED
    BY <2>1, <2>2 DEF PersistContent
<1>3. TablesOK' /\ Grows
  BY <1>2, ItemsWritten DEF PersistContent
<1>4. PICK stage \in {"complete", "check"} :
        \E rest : Put(t, [w EXCEPT !.stage = stage, !.todo = rest])
  BY DEF PersistContent
<1>5. PICK rest : Put(t, [w EXCEPT !.stage = stage, !.todo = rest])
  BY <1>4
<1> DEFINE next == [w EXCEPT !.stage = stage, !.todo = rest]
<1>6. DOMAIN next = DOMAIN w /\ next.stage = stage /\ next.job = w.job
  BY <1>1 DEF IsWork
<1>7. IsWork(next)
  BY <1>1, <1>6 DEF IsWork
<1>8. ThreadsOK'
  BY <1>3, <1>5, <1>7, ThreadsPut DEF ThreadOK
<1> QED
  BY <1>3, <1>8, ResultFrame DEF PersistContent

\* The answer is merged into the payload as it is, if the row is the one that was read.
LEMMA AnswerStep ==
  ASSUME IInv, NEW t \in Threads, PersistAnswer(t)
  PROVE  IInv' /\ Grows
<1> DEFINE w == threads[t]
           c == Target(w.job)
           old == candidates[c]
           row == Answered(old, w.seen)
<1>1. IsWork(w) /\ w.job \in Rows /\ w.stage = "persist" /\ Kind(w.job) = "answer"
  BY Working DEF PersistAnswer, Persisting, At
<1>2. c \in DOMAIN candidates
  BY <1>1, AnswerTarget DEF IInv
<1>3. candidates' = [candidates EXCEPT ![c] = row]
  BY DEF PersistAnswer
<1>4. /\ DOMAIN old = {"status", "revision", "answer", "payload", "edits"}
      /\ old.revision \in Nat /\ old.edits \in Nat /\ old.payload = old.edits
  BY <1>2 DEF IInv, TablesOK, CandidatesOK
<1>5. Answerable(old, w.seen) => w.seen.payload = old.payload
  BY <1>1 DEF IsWork, StillRead, Answerable
<1>6. /\ DOMAIN row = {"status", "revision", "answer", "payload", "edits"}
      /\ row.revision \in Nat /\ row.edits \in Nat /\ row.payload = row.edits
      /\ row = old \/ old.revision < row.revision
  <2>1. CASE Answerable(old, w.seen)
    <3>1. row = [old EXCEPT !.revision = @ + 1, !.answer = "generated", !.payload = w.seen.payload]
      BY <2>1 DEF Answered
    <3> HIDE DEF row, old
    <3> QED
      BY <1>4, <1>5, <2>1, <3>1
  <2>2. CASE ~Answerable(old, w.seen)
    BY <1>4, <2>2 DEF Answered
  <2> QED
    BY <2>1, <2>2
<1>7. TablesOK' /\ Grows
  <2>1. UNCHANGED <<workload, items, materials, syllabi>>
    BY DEF PersistAnswer
  <2> HIDE DEF row, c
  <2> QED
    BY <1>2, <1>3, <1>6, <2>1, CandidateWritten
<1>8. ThreadsOK'
  BY <1>1, <1>7, ThreadsGo DEF PersistAnswer
<1> QED
  BY <1>7, <1>8, ResultFrame DEF PersistAnswer

\* After it, the topic has a material.
LEMMA StarterStep ==
  ASSUME IInv, NEW t \in Threads, PersistStarter(t)
  PROVE  IInv'
<1> DEFINE w == threads[t]
           topic == Target(w.job)
<1>1. IsWork(w) /\ w.job \in Rows /\ IsRow(w.job) /\ w.stage = "persist" /\ Kind(w.job) = "starter"
  BY Working DEF PersistStarter, Persisting, At
<1>2. topic \in Targets /\ materials \in [Targets -> Nat]
  BY <1>1, TargetIn DEF IInv, TablesOK
<1>3. materials' \in [Targets -> Nat] /\ materials'[topic] > 0
      /\ \A x \in Targets : materials[x] > 0 => materials'[x] > 0
  <2>1. w.seen.read => materials[topic] > 0
    BY <1>1 DEF IsWork
  <2>2. materials' = [materials EXCEPT ![topic] = IF w.seen.read THEN @ ELSE @ + 1]
    BY DEF PersistStarter
  <2> HIDE DEF topic
  <2> QED
    BY <1>2, <2>1, <2>2
<1>4. UNCHANGED <<workload, items, candidates, syllabi>>
  BY DEF PersistStarter
<1>5. TablesOK' /\ Grows
  <2>1. ItemsOK' /\ \A k \in DOMAIN items : k \in DOMAIN items' /\ items[k].current <= items'[k].current
    BY <1>4 DEF IInv, TablesOK, ItemsOK
  <2>2. TablesOK'
    BY <1>3, <1>4, <2>1 DEF IInv, TablesOK, CandidatesOK
  <2> QED
    BY <1>3, <1>4, <2>1, <2>2 DEF Grows
<1>6. ThreadOK(threads[t])'
  <2> DEFINE next == [w EXCEPT !.stage = "complete"]
  <2>1. threads'[t] = next
    BY DEF PersistStarter, GotoStage, Put, IInv, ThreadsOK
  <2>2. DOMAIN next = DOMAIN w /\ next.stage = "complete" /\ next.job = w.job
    BY <1>1 DEF IsWork
  <2>3. /\ \A k : IsRow(k) => IsRow(k)'
        /\ \A k : Kind(k)' = Kind(k) /\ Target(k)' = Target(k)
    BY <1>5, IsRowGrows DEF IInv, Grows, Kind, Target
  <2>4. /\ DOMAIN threads'[t] = {"stage", "job", "held", "todo", "seen"}
        /\ threads'[t].stage = "complete" /\ threads'[t].job = w.job
    BY <1>1, <2>1, <2>2 DEF IsWork
  <2>5. IsRow(threads[t].job)'
    BY <1>1, <2>3, <2>4
  <2>6. materials'[Target(threads[t].job)'] > 0
    BY <1>3, <2>3, <2>4
  <2>7. IsWork(threads[t])'
    BY <2>4, <2>5, <2>6 DEF IsWork
  <2> QED
    BY <2>7 DEF ThreadOK
<1>7. ThreadsOK'
  BY <1>5, <1>6, ThreadsChange DEF PersistStarter, GotoStage
<1> QED
  BY <1>5, <1>7, ResultFrame DEF PersistStarter

-----------------------------------------------------------------------------
(* The invariant.                                                          *)

LEMMA InitIInv ==
  Init => IInv
<1> SUFFICES ASSUME Init PROVE IInv
  OBVIOUS
<1> USE DEF Init
<1>1. ItemsOK /\ CandidatesOK
  <2>1. CandidatesOK
    BY DEF CandidatesOK
  <2> QED
    BY <2>1 DEF ItemsOK
<1>2. TablesOK
  BY <1>1 DEF TablesOK
<1>3. JobsOK /\ QueueOK /\ RequestsOK /\ BootOK /\ ThreadsOK
  BY DEF JobsOK, QueueOK, RequestsOK, RequestOK, BootOK, ThreadsOK, ThreadOK
<1> QED
  BY <1>2, <1>3 DEF IInv

LEMMA ThreadIInv ==
  ASSUME IInv, NEW t \in Threads, ThreadStep(t)
  PROVE  IInv'
BY WalkStep, JobStep, SyllabusStep, AppendStep, ContentStep, AnswerStep, StarterStep
DEF ThreadStep, Persist

LEMMA NextIInv ==
  ASSUME IInv, [Next]_vars
  PROVE  IInv'
<1>1. CASE Next
  <2>1. ASSUME NEW r \in Requests, Request(r) PROVE IInv'
    BY <2>1, RequestStep
  <2>2. ASSUME NEW t \in Threads, ThreadStep(t) PROVE IInv'
    BY <2>2, ThreadIInv
  <2>3. CASE Crash \/ \E t \in Threads : LoseConnection(t)
    BY <2>3, FaultStep
  <2>4. CASE Boot
    BY <2>4, BootStep
  <2>5. CASE Teacher
    BY <2>5, TeacherStep
  <2> QED
    BY <1>1, <2>1, <2>2, <2>3, <2>4, <2>5 DEF Next
<1>2. CASE UNCHANGED vars
  <2>1. UNCHANGED <<workload, results>> /\ UNCHANGED <<jobs, queue, threads, boot, requests>>
    BY <1>2 DEF vars
  <2>2. TablesOK' /\ Grows
    BY <2>1, Quiet
  <2> QED
    BY <2>1, <2>2, ThreadsSame, ResultFrame
<1> QED
  BY <1>1, <1>2

THEOREM AlwaysIInv == Spec => []IInv
<1>1. IInv /\ [Next]_vars => IInv'
  BY NextIInv
<1> QED
  BY InitIInv, <1>1, PTL DEF Spec

-----------------------------------------------------------------------------
(* The properties.                                                         *)

\* However many runs of its answer jobs and edits of its teachers meet, a candidate's
\* payload stems from its last edit (write_generated_answer's expected_updated_at).
THEOREM EditsAlwaysInEffect == Spec => []EditsInEffect
<1>1. IInv => EditsInEffect
  BY DEF IInv, TablesOK, CandidatesOK, EditsInEffect
<1> QED
  BY AlwaysIInv, <1>1, PTL

\* However many runs and teachers append versions to an item, they are 1 to current_version,
\* each once (insert_ai_content, updateContent and the unique index).
THEOREM VersionsAlwaysGapless == Spec => []VersionsGapless
<1>1. IInv => VersionsGapless
  BY DEF IInv, TablesOK, ItemsOK, VersionsGapless
<1> QED
  BY AlwaysIInv, <1>1, PTL

\* Few actions write questions, and few write syllabi.
LEMMA QuestionsChange ==
  ASSUME Next, ~UNCHANGED questions
  PROVE  (\E t \in Threads : PersistQuestions(t)) \/ \E q \in questions : TouchQuestion(q)
<1>1. ASSUME NEW r \in Requests, Request(r) PROVE FALSE
  BY <1>1 DEF Request, RequestInsert, RequestMark, RequestPublish, RequestPublishFails, RequestDies,
              CancelWrite, RetryRequeue, RequestRead, CancelRead, RetryRead, ReviewRead, ReviewWrite, results
<1>2. ASSUME NEW t \in Threads, ThreadStep(t) PROVE PersistQuestions(t)
  <2>1. CASE Persist(t)
    BY <2>1 DEF Persist, PersistContent, PersistContentFails, PersistAnswer, PersistStarter,
                PersistSyllabus, PersistBlueprint, results
  <2>2. CASE ~Persist(t)
    BY <1>2, <2>2 DEF ThreadStep, Deliver, ReadStatus, Begin, Read, Ask, RunFails, Mark, Check, Settle,
                      Unmark, Prepare, Complete, EnqueueDependent, SkipDependent, DependentsDone,
                      PublishDependent, Fail, Ack, results
  <2> QED
    BY <2>1, <2>2
<1>3. ASSUME Crash \/ Boot \/ \E t \in Threads : LoseConnection(t) PROVE FALSE
  BY <1>3 DEF Crash, LoseConnection, Boot, SweepRead, SweepReset, SweepRepublish, SweepResend,
              SweepDone, results
<1>4. ASSUME Teacher PROVE \E q \in questions : TouchQuestion(q)
  BY <1>4 DEF Teacher, UpdateContent, SetContentStatus, ConfirmSyllabus, ApprovePattern
<1> QED
  BY <1>1, <1>2, <1>3, <1>4 DEF Next

LEMMA SyllabiChange ==
  ASSUME Next, ~UNCHANGED syllabi
  PROVE  \/ \E r \in Requests : RequestMark(r) \/ RequestPublishFails(r)
         \/ \E t \in Threads : Mark(t) \/ Unmark(t) \/ PersistSyllabus(t)
         \/ \E s \in DOMAIN syllabi : ConfirmSyllabus(s)
<1>1. ASSUME NEW r \in Requests, Request(r) PROVE RequestMark(r) \/ RequestPublishFails(r)
  BY <1>1 DEF Request, RequestInsert, RequestPublish, RequestDies,
              CancelWrite, RetryRequeue, RequestRead, CancelRead, RetryRead, ReviewRead, ReviewWrite, results
<1>2. ASSUME NEW t \in Threads, ThreadStep(t) PROVE Mark(t) \/ Unmark(t) \/ PersistSyllabus(t)
  <2>1. CASE Persist(t)
    BY <2>1 DEF Persist, PersistQuestions, PersistContent, PersistContentFails, PersistAnswer,
                PersistStarter, PersistBlueprint, results
  <2>2. CASE ~Persist(t)
    BY <1>2, <2>2 DEF ThreadStep, Deliver, ReadStatus, Begin, Read, Ask, RunFails, Check, Settle,
                      Prepare, Complete, EnqueueDependent, SkipDependent, DependentsDone,
                      PublishDependent, Fail, Ack, results
  <2> QED
    BY <2>1, <2>2
<1>3. ASSUME Crash \/ Boot \/ \E t \in Threads : LoseConnection(t) PROVE FALSE
  BY <1>3 DEF Crash, LoseConnection, Boot, SweepRead, SweepReset, SweepRepublish, SweepResend,
              SweepDone, results
<1>4. ASSUME Teacher PROVE \E s \in DOMAIN syllabi : ConfirmSyllabus(s)
  BY <1>4 DEF Teacher, TouchQuestion, UpdateContent, SetContentStatus, ApprovePattern
<1> QED
  BY <1>1, <1>2, <1>3, <1>4 DEF Next

\* Whatever reruns of their job purge, questions someone has touched are kept
\* (insert_generated_questions): what a run purges was untouched when it read it, and
\* nobody touches it before the run commits.
THEOREM TouchedAlwaysKept == Spec => TouchedKept
<1>1. IInv /\ [Next]_vars => [\A q \in questions : q.touched => q \in questions']_vars
  <2> SUFFICES ASSUME IInv, Next, NEW q \in questions, q.touched PROVE q \in questions'
    OBVIOUS
  <2>1. CASE UNCHANGED questions
    BY <2>1
  <2>2. ASSUME NEW t \in Threads, PersistQuestions(t) PROVE q \in questions'
    <3>1. \A p \in threads[t].seen.read : ~p.touched
      <4>1. IsWork(threads[t]) /\ threads[t].stage = "persist" /\ Kind(threads[t].job) = "questions"
        BY <2>2, Working DEF PersistQuestions, Persisting, At
      <4> QED
        BY <4>1 DEF IsWork
    <3> QED
      BY <2>2, <3>1 DEF PersistQuestions
  <2>3. ASSUME NEW p \in questions, TouchQuestion(p) PROVE q \in questions'
    BY <2>3 DEF TouchQuestion
  <2> QED
    BY <2>1, <2>2, <2>3, QuestionsChange
<1> QED
  BY AlwaysIInv, <1>1, PTL DEF Spec, TouchedKept

\* No request, run or failure changes a confirmed syllabus or its structure
\* (complete_syllabus_analysis and fail_syllabus_analysis spare it).
THEOREM ConfirmedAlwaysKept == Spec => ConfirmedKept
<1>1. IInv /\ [Next]_vars =>
        [\A s \in DOMAIN syllabi : syllabi[s].status = "CONFIRMED" =>
           syllabi'[s].draft = syllabi[s].draft /\ syllabi'[s].status = "CONFIRMED"]_vars
  <2> SUFFICES ASSUME IInv, Next, NEW s \in DOMAIN syllabi, syllabi[s].status = "CONFIRMED"
               PROVE  syllabi'[s].draft = syllabi[s].draft /\ syllabi'[s].status = "CONFIRMED"
    OBVIOUS
  <2>0. DOMAIN syllabi[s] = {"status", "analysis", "draft"}
    BY DEF IInv, TablesOK
  <2>1. CASE UNCHANGED syllabi
    BY <2>1
  <2>2. ASSUME NEW r \in Requests, RequestMark(r) \/ RequestPublishFails(r)
        PROVE  syllabi'[s].draft = syllabi[s].draft /\ syllabi'[s].status = "CONFIRMED"
    BY <2>0, <2>2 DEF RequestMark, RequestPublishFails
  <2>3. ASSUME NEW t \in Threads, Mark(t) \/ Unmark(t)
        PROVE  syllabi'[s].draft = syllabi[s].draft /\ syllabi'[s].status = "CONFIRMED"
    BY <2>0, <2>3 DEF Mark, Unmark
  <2>4. ASSUME NEW t \in Threads, PersistSyllabus(t)
        PROVE  syllabi'[s].draft = syllabi[s].draft /\ syllabi'[s].status = "CONFIRMED"
    BY <2>0, <2>4 DEF PersistSyllabus, Analysed
  <2>5. ASSUME NEW u \in DOMAIN syllabi, ConfirmSyllabus(u)
        PROVE  syllabi'[s].draft = syllabi[s].draft /\ syllabi'[s].status = "CONFIRMED"
    BY <2>0, <2>5 DEF ConfirmSyllabus
  <2> QED
    BY <2>1, <2>2, <2>3, <2>4, <2>5, SyllabiChange
<1> QED
  BY AlwaysIInv, <1>1, PTL DEF Spec, ConfirmedKept
-----------------------------------------------------------------------------
(* Which steps change what.                                                *)

\* A step leaves its workload alone and changes one kind of result at most.
LEMMA FrameStep ==
  ASSUME [Next]_vars
  PROVE  /\ workload' = workload
         /\ \/ UNCHANGED results
            \/ \E r \in Requests : RequestMark(r) \/ RequestPublishFails(r) \/ ReviewWrite(r)
            \/ \E t \in Threads : Mark(t) \/ Unmark(t) \/ Persist(t)
            \/ Teacher
<1>1. ASSUME NEW r \in Requests, Request(r)
      PROVE  /\ workload' = workload
             /\ UNCHANGED results \/ RequestMark(r) \/ RequestPublishFails(r) \/ ReviewWrite(r)
  BY <1>1 DEF Request, RequestInsert, RequestMark, RequestPublish, RequestPublishFails, RequestDies,
              CancelWrite, RetryRequeue, RequestRead, CancelRead, RetryRead, ReviewRead, ReviewWrite
<1>2. ASSUME NEW t \in Threads, ThreadStep(t)
      PROVE  workload' = workload /\ (UNCHANGED results \/ Mark(t) \/ Unmark(t) \/ Persist(t))
  BY <1>2 DEF ThreadStep, Deliver, ReadStatus, Begin, Read, Ask, RunFails, Mark, Check, Settle,
              Unmark, Prepare, Complete, EnqueueDependent, SkipDependent, DependentsDone,
              PublishDependent, Fail, Ack, Persist, PersistQuestions, PersistContent, PersistContentFails,
              PersistAnswer, PersistStarter, PersistSyllabus, PersistBlueprint
<1>3. ASSUME Crash \/ Boot \/ \E t \in Threads : LoseConnection(t)
      PROVE  workload' = workload /\ UNCHANGED results
  BY <1>3 DEF Crash, LoseConnection, Boot, SweepRead, SweepReset, SweepRepublish, SweepResend, SweepDone
<1>4. ASSUME Teacher PROVE workload' = workload
  BY <1>4 DEF Teacher, TouchQuestion, UpdateContent, SetContentStatus, ConfirmSyllabus,
              ApprovePattern
<1> QED
  BY <1>1, <1>2, <1>3, <1>4 DEF Next, vars

LEMMA ItemsChange ==
  ASSUME [Next]_vars
  PROVE  \/ items' = items
         \/ \E t \in Threads : PersistContent(t)
         \/ \E i \in DOMAIN items : UpdateContent(i) \/ SetContentStatus(i)
BY FrameStep DEF results, RequestMark, RequestPublishFails, ReviewWrite, Mark, Unmark, Persist, PersistQuestions,
   PersistContentFails, PersistAnswer, PersistStarter, PersistSyllabus, PersistBlueprint, Teacher,
   TouchQuestion, ConfirmSyllabus, ApprovePattern

LEMMA MaterialsChange ==
  ASSUME [Next]_vars
  PROVE  materials' = materials \/ \E t \in Threads : PersistStarter(t)
BY FrameStep DEF results, RequestMark, RequestPublishFails, ReviewWrite, Mark, Unmark, Persist, PersistQuestions,
   PersistContent, PersistContentFails, PersistAnswer, PersistSyllabus, PersistBlueprint, Teacher,
   TouchQuestion, UpdateContent, SetContentStatus, ConfirmSyllabus, ApprovePattern

LEMMA CandidatesChange ==
  ASSUME [Next]_vars
  PROVE  \/ candidates' = candidates
         \/ \E r \in Requests : ReviewWrite(r)
         \/ \E t \in Threads : PersistAnswer(t)
BY FrameStep DEF results, RequestMark, RequestPublishFails, Mark, Unmark, Persist, PersistQuestions,
   PersistContent, PersistContentFails, PersistStarter, PersistSyllabus, PersistBlueprint, Teacher,
   TouchQuestion, UpdateContent, SetContentStatus, ConfirmSyllabus, ApprovePattern

LEMMA PatternsChange ==
  ASSUME [Next]_vars
  PROVE  \/ patterns' = patterns
         \/ \E t \in Threads : PersistBlueprint(t)
         \/ \E p \in DOMAIN patterns : ApprovePattern(p)
BY FrameStep DEF results, RequestMark, RequestPublishFails, ReviewWrite, Mark, Unmark, Persist, PersistQuestions,
   PersistContent, PersistContentFails, PersistAnswer, PersistStarter, PersistSyllabus, Teacher,
   TouchQuestion, UpdateContent, SetContentStatus, ConfirmSyllabus

LEMMA JobsChange ==
  ASSUME [Next]_vars
  PROVE  \/ jobs' = jobs
         \/ \E r \in Requests : RequestInsert(r) \/ RequestPublishFails(r) \/ CancelWrite(r) \/ RetryRequeue(r)
         \/ \E t \in Threads : Begin(t) \/ Settle(t) \/ Complete(t) \/ EnqueueDependent(t) \/ Fail(t)
         \/ \E j \in Rows : SweepReset(j)
<1>1. ASSUME NEW r \in Requests, Request(r)
      PROVE  jobs' = jobs \/ RequestInsert(r) \/ RequestPublishFails(r) \/ CancelWrite(r) \/ RetryRequeue(r)
  BY <1>1 DEF Request, RequestMark, RequestPublish, RequestDies, RequestRead, CancelRead, RetryRead, ReviewRead, ReviewWrite
<1>2. ASSUME NEW t \in Threads, ThreadStep(t)
      PROVE  jobs' = jobs \/ Begin(t) \/ Settle(t) \/ Complete(t) \/ EnqueueDependent(t) \/ Fail(t)
  BY <1>2 DEF ThreadStep, Deliver, ReadStatus, Read, Ask, RunFails, Mark, Check,
              Unmark, Prepare, SkipDependent, DependentsDone,
              PublishDependent, Ack, Persist, PersistQuestions, PersistContent, PersistContentFails,
              PersistAnswer, PersistStarter, PersistSyllabus, PersistBlueprint
<1>3. ASSUME Crash \/ Boot \/ \E t \in Threads : LoseConnection(t)
      PROVE  jobs' = jobs \/ \E j \in Rows : SweepReset(j)
  BY <1>3 DEF Crash, LoseConnection, Boot, SweepRead, SweepRepublish, SweepResend, SweepDone
<1>4. ASSUME Teacher PROVE jobs' = jobs
  BY <1>4 DEF Teacher, TouchQuestion, UpdateContent, SetContentStatus, ConfirmSyllabus,
              ApprovePattern
<1> QED
  BY <1>1, <1>2, <1>3, <1>4 DEF Next, vars

LEMMA ThreadsMove ==
  ASSUME [Next]_vars
  PROVE  \/ threads' = threads
         \/ Crash
         \/ \E t \in Threads : LoseConnection(t) \/ ThreadStep(t)
<1>1. ASSUME NEW r \in Requests, Request(r) PROVE threads' = threads
  BY <1>1 DEF Request, RequestInsert, RequestMark, RequestPublish, RequestPublishFails, RequestDies,
              CancelWrite, RetryRequeue, RequestRead, CancelRead, RetryRead, ReviewRead, ReviewWrite
<1>2. ASSUME Boot \/ Teacher PROVE threads' = threads
  BY <1>2 DEF Boot, SweepRead, SweepReset, SweepRepublish, SweepResend, SweepDone, Teacher, TouchQuestion,
              UpdateContent, SetContentStatus, ConfirmSyllabus, ApprovePattern
<1> QED
  BY <1>1, <1>2 DEF Next, vars

-----------------------------------------------------------------------------
(* What a run stores.                                                      *)

Parts(j) == workload.specs[j].parts

\* The numbers given to questions have a bound, so a next one can be found.
Purging(w) == w.stage = "persist" /\ Kind(w.job) = "questions"
NumberedTo(n) ==
  /\ \A q \in questions : q.id <= n
  /\ \A t \in Threads : Purging(threads[t]) => \A q \in threads[t].seen.read : q.id <= n
QuestionsOK ==
  /\ questions \subseteq [id : Nat, job : Rows, touched : BOOLEAN]
  /\ \E n \in Nat : NumberedTo(n)

\* A syllabus is analysed or confirmed only with a structure.
SyllabiOK ==
  /\ DOMAIN syllabi = TargetsOf(workload, "syllabus")
  /\ \A s \in DOMAIN syllabi :
       /\ syllabi[s].draft \in Nat
       /\ syllabi[s].analysis = "READY" \/ syllabi[s].status = "CONFIRMED" => syllabi[s].draft > 0
PatternsOK ==
  /\ patterns = [p \in TargetsOf(workload, "blueprint") |-> patterns[p]]
  /\ \A p \in DOMAIN patterns : DOMAIN patterns[p] = {"status", "draft"} /\ patterns[p].draft \in Nat

\* From here on a run works on what it has read of its source.
Drawing == {"ask", "check", "prepare", "persist"}
Draws(w) == w.stage \in Drawing /\ Kind(w.job) \in {"content", "questions"}

\* What a run is about to write is of its own job, whose topic has a material if it is drawn
\* from one; once it is complete its result is stored.
RunOK(w) ==
  w.stage # "free" =>
    /\ w.stage \in Stages
    /\ Kind(w.job) = "content" => w.todo \subseteq Parts(w.job)
    /\ Purging(w) => \A q \in w.seen.read : q.job = w.job /\ q.id \in Nat
    /\ w.stage = "persist" /\ Kind(w.job) = "content" =>
         /\ w.seen.part \in w.todo
         /\ w.seen.read.item # Null =>
              /\ items[w.seen.read.item].target = Target(w.job)
              /\ items[w.seen.read.item].type = w.seen.part
    /\ Draws(w) => materials[Target(w.job)] > 0
    /\ w.stage = "complete" => Stored(w.job)
RunsOK == \A t \in Threads : RunOK(threads[t])

\* A cancellation writes one of two statuses.
CancelsOK == \A r \in Requests : requests[r].op = "cancel" => requests[r].next \in {"cancelled", "cancelling"}

\* Items are numbered without a gap, so a new one has a number of its own.
ItemsCounted == \E n \in Nat : DOMAIN items = 1..n

\* A candidate is out of review only by a later revision.
ReviewsOK == \A c \in DOMAIN candidates : candidates[c].status # "REVIEW" => candidates[c].revision > 0

\* Content and questions are of topics with a material.
DrawnOK ==
  /\ \A i \in DOMAIN items : items[i].target \in Targets /\ materials[items[i].target] > 0
  /\ \A q \in questions : materials[Target(q.job)] > 0

SInv == /\ QuestionsOK /\ ItemsCounted /\ SyllabiOK /\ PatternsOK /\ ReviewsOK /\ DrawnOK
        /\ RunsOK /\ CancelsOK /\ CompletedIsStored

LEMMA SameRows ==
  ASSUME [Next]_vars
  PROVE  /\ Rows' = Rows /\ Threads' = Threads
         /\ \A j : Kind(j)' = Kind(j) /\ Target(j)' = Target(j) /\ Parts(j)' = Parts(j)
         /\ \A kind : TargetsOf(workload, kind)' = TargetsOf(workload, kind)
BY FrameStep DEF Rows, Threads, Kind, Target, Parts

\* Items keep their topic and type.
LEMMA ItemsKeep ==
  ASSUME IInv, [Next]_vars
  PROVE  \A i \in DOMAIN items : /\ i \in DOMAIN items'
                                 /\ items'[i].target = items[i].target /\ items'[i].type = items[i].type
<1>0. \A i \in DOMAIN items : DOMAIN items[i] = {"target", "type", "live", "current", "versions", "rows", "edits", "set"}
  BY DEF IInv, TablesOK, ItemsOK
<1>1. CASE items' = items
  BY <1>1
<1>2. ASSUME NEW t \in Threads, PersistContent(t), NEW i \in DOMAIN items
      PROVE  i \in DOMAIN items' /\ items'[i].target = items[i].target /\ items'[i].type = items[i].type
  <2>1. CASE \E target, type : items' = Created(target, type)
    BY <2>1 DEF Created
  <2>2. CASE \E k, version : items' = Appended(k, version)
    <3>1. PICK k, version : items' = Appended(k, version)
      BY <2>2
    <3>2. /\ i \in DOMAIN items'
          /\ \/ i = k /\ items'[i] = [items[k] EXCEPT !.current = version, !.versions = @ \cup {version}, !.rows = @ + 1]
             \/ items'[i] = [items[i] EXCEPT !.live = FALSE]
             \/ items'[i] = items[i]
      BY <3>1 DEF Appended
    <3> QED
      BY <1>0, <3>2
  <2> QED
    BY <1>2, <2>1, <2>2 DEF PersistContent
<1>3. ASSUME NEW k \in DOMAIN items, UpdateContent(k), NEW i \in DOMAIN items
      PROVE  i \in DOMAIN items' /\ items'[i].target = items[i].target /\ items'[i].type = items[i].type
  <2>1. PICK n, S, m, e : items' = [items EXCEPT ![k].current = n, ![k].versions = S, ![k].rows = m, ![k].edits = e]
    BY <1>3 DEF UpdateContent
  <2> QED
    BY <1>0, <2>1
<1>4. ASSUME NEW k \in DOMAIN items, SetContentStatus(k), NEW i \in DOMAIN items
      PROVE  i \in DOMAIN items' /\ items'[i].target = items[i].target /\ items'[i].type = items[i].type
  <2>1. PICK l, e : items' = [items EXCEPT ![k].live = l, ![k].set = TRUE, ![k].edits = e]
    BY <1>4 DEF SetContentStatus
  <2> QED
    BY <1>0, <2>1
<1> QED
  BY <1>1, <1>2, <1>3, <1>4, ItemsChange

LEMMA MaterialsKeep ==
  ASSUME IInv, [Next]_vars
  PROVE  \A x \in Targets : materials[x] > 0 => materials'[x] > 0
<1>1. CASE materials' = materials
  BY <1>1
<1>2. ASSUME NEW t \in Threads, PersistStarter(t), NEW x \in Targets, materials[x] > 0
      PROVE  materials'[x] > 0
  <2>1. materials \in [Targets -> Nat]
    BY DEF IInv, TablesOK
  <2> QED
    BY <1>2, <2>1 DEF PersistStarter
<1> QED
  BY <1>1, <1>2, MaterialsChange

\* A candidate is as it was, or has a later revision.
LEMMA CandidatesKeep ==
  ASSUME IInv, SInv, [Next]_vars
  PROVE  /\ DOMAIN candidates' = DOMAIN candidates
         /\ \A c \in DOMAIN candidates :
              /\ candidates[c].revision \in Nat /\ candidates'[c].revision \in Nat
              /\ candidates'[c] = candidates[c] \/ candidates[c].revision < candidates'[c].revision
         /\ ReviewsOK'
<1>0. TablesOK /\ TablesOK'
  BY NextIInv DEF IInv
<1>1. /\ DOMAIN candidates' = DOMAIN candidates
      /\ \A c \in DOMAIN candidates : candidates[c].revision \in Nat /\ candidates'[c].revision \in Nat
  BY <1>0, SameRows DEF TablesOK, CandidatesOK
<1>2. ASSUME NEW c \in DOMAIN candidates
      PROVE  candidates'[c] = candidates[c] \/ candidates[c].revision < candidates'[c].revision
  <2>1. CASE candidates' = candidates
    BY <2>1
  <2>2. ASSUME NEW r \in Requests, ReviewWrite(r)
        PROVE  candidates'[c] = candidates[c] \/ candidates[c].revision < candidates'[c].revision
    BY <2>2, ReviewedRow DEF ReviewWrite, Grows
  <2>3. ASSUME NEW t \in Threads, PersistAnswer(t)
        PROVE  candidates'[c] = candidates[c] \/ candidates[c].revision < candidates'[c].revision
    BY <2>3, AnswerStep DEF Grows
  <2> QED
    BY <2>1, <2>2, <2>3, CandidatesChange
<1>3. ReviewsOK'
  <2> SUFFICES ASSUME NEW c \in DOMAIN candidates, candidates'[c].status # "REVIEW"
               PROVE  candidates'[c].revision > 0
    BY <1>1 DEF ReviewsOK
  <2> QED
    BY <1>1, <1>2 DEF SInv, ReviewsOK
<1> QED
  BY <1>1, <1>2, <1>3

\* What a thread about to write questions has read.
LEMMA PurgeOwn ==
  ASSUME IInv, SInv, NEW t \in Threads, PersistQuestions(t)
  PROVE  /\ threads[t].job \in Rows /\ Kind(threads[t].job) = "questions"
         /\ \A q \in threads[t].seen.read : q.job = threads[t].job /\ ~q.touched
<1>1. /\ IsWork(threads[t]) /\ threads[t].stage = "persist" /\ Kind(threads[t].job) = "questions"
      /\ threads[t].job \in Rows
  BY Working DEF PersistQuestions, Persisting, At
<1>2. RunOK(threads[t])
  BY DEF SInv, RunsOK
<1> QED
  BY <1>1, <1>2 DEF IsWork, RunOK, Purging

\* A job that has questions keeps some.
LEMMA QuestionsKeep ==
  ASSUME IInv, SInv, [Next]_vars, NEW j, GeneratedBy(j) # {}
  PROVE  GeneratedBy(j)' # {}
<1>1. PICK q \in questions : q.job = j
  BY DEF GeneratedBy
<1>2. \E p \in questions' : p.job = j
  <2>1. CASE questions' = questions
    BY <1>1, <2>1
  <2>2. ASSUME NEW t \in Threads, PersistQuestions(t) PROVE \E p \in questions' : p.job = j
    <3> DEFINE new == [id |-> FreshId, job |-> threads[t].job, touched |-> FALSE]
    <3>1. questions' = (questions \ threads[t].seen.read) \cup {new} /\ new.job = threads[t].job
      BY <2>2 DEF PersistQuestions
    <3> HIDE DEF new
    <3> QED
      BY <1>1, <2>2, <3>1, PurgeOwn
  <2>3. ASSUME NEW p \in questions, TouchQuestion(p) PROVE \E u \in questions' : u.job = j
    <3>1. p.job = [p EXCEPT !.touched = TRUE].job
      BY DEF SInv, QuestionsOK
    <3> QED
      BY <1>1, <2>3, <3>1 DEF TouchQuestion
  <2> QED
    BY <2>1, <2>2, <2>3, QuestionsChange DEF vars, results
<1> QED
  BY <1>2 DEF GeneratedBy
\* Where a thread goes.
Ends(t) ==
  PersistQuestions(t) \/ PersistAnswer(t) \/ PersistStarter(t) \/ PersistSyllabus(t) \/ PersistBlueprint(t)
LEMMA ThreadGoes ==
  ASSUME NEW t, ThreadStep(t)
  PROVE  \/ \E stage \in Stages \ {"free", "persist", "complete"} :
              /\ GotoStage(t, stage) /\ threads[t].stage # "free"
              /\ stage \in Drawing => threads[t].stage \in Drawing \cup {"mark"}
         \/ Check(t) /\ ~ReadsFirst(Kind(threads[t].job)) /\ GotoStage(t, "persist")
         \/ Ends(t) /\ GotoStage(t, "complete")
         \/ \E j \in Rows : Deliver(t, j)
         \/ Read(t) \/ Ask(t) \/ Prepare(t) \/ EnqueueDependent(t) \/ SkipDependent(t) \/ PersistContent(t) \/ Ack(t)
<1> DEFINE Goes == \E stage \in Stages \ {"free", "persist", "complete"} :
                     /\ GotoStage(t, stage) /\ threads[t].stage # "free"
                     /\ stage \in Drawing => threads[t].stage \in Drawing \cup {"mark"}
<1>1. ASSUME ReadStatus(t) \/ Begin(t) \/ RunFails(t) \/ Mark(t) PROVE Goes
  BY <1>1 DEF ReadStatus, AfterStatus, Begin, RunFails, Failing, Mark, At, Stages, Drawing
<1>2. ASSUME Settle(t) \/ Unmark(t) \/ PersistContentFails(t) \/ Complete(t) PROVE Goes
  BY <1>2 DEF Settle, Cancelling, Unmark, PersistContentFails, Persisting, Complete, At, Stages, Drawing
<1>3. ASSUME DependentsDone(t) \/ PublishDependent(t) \/ Fail(t) PROVE Goes
  BY <1>3 DEF DependentsDone, PublishDependent, Fail, At, Stages, Drawing
<1>4. ASSUME Check(t)
      PROVE  Goes \/ (~ReadsFirst(Kind(threads[t].job)) /\ GotoStage(t, "persist"))
  BY <1>4 DEF Check, Cancelling, At, Stages, Drawing
<1>5. ASSUME Ends(t) PROVE GotoStage(t, "complete")
  BY <1>5 DEF Ends, PersistQuestions, PersistAnswer, PersistStarter, PersistSyllabus, PersistBlueprint
<1> QED
  BY <1>1, <1>2, <1>3, <1>4, <1>5 DEF ThreadStep, Persist, Ends

\* Syllabi and patterns with a structure keep one.
LEMMA SyllabiStep ==
  ASSUME IInv, SInv, [Next]_vars
  PROVE  SyllabiOK' /\ \A s \in DOMAIN syllabi : syllabi[s].draft > 0 => syllabi'[s].draft > 0
<1> DEFINE Good == /\ DOMAIN syllabi' = DOMAIN syllabi
                   /\ \A s \in DOMAIN syllabi :
                        /\ syllabi'[s].draft \in Nat
                        /\ syllabi'[s].analysis = "READY" \/ syllabi'[s].status = "CONFIRMED" => syllabi'[s].draft > 0
                        /\ syllabi[s].draft > 0 => syllabi'[s].draft > 0
<1>0. /\ \A s \in DOMAIN syllabi : DOMAIN syllabi[s] = {"status", "analysis", "draft"}
      /\ SyllabiOK
  BY DEF IInv, TablesOK, SInv
<1>1. syllabi' = syllabi => Good
  BY <1>0 DEF SyllabiOK
<1>2. ASSUME NEW s, NEW analysis, analysis # "READY", syllabi' = [syllabi EXCEPT ![s].analysis = analysis]
      PROVE  Good
  BY <1>0, <1>2 DEF SyllabiOK
<1>3. ASSUME NEW r \in Requests, RequestMark(r) \/ RequestPublishFails(r) PROVE Good
  <2>1. syllabi' = syllabi \/ \E s : \E analysis \in {"PROCESSING", "FAILED"} :
                                        syllabi' = [syllabi EXCEPT ![s].analysis = analysis]
    BY <1>3 DEF RequestMark, RequestPublishFails
  <2> QED
    BY <1>1, <1>2, <2>1
<1>4. ASSUME NEW t \in Threads, Mark(t) \/ Unmark(t) PROVE Good
  <2>1. CASE Mark(t)
    BY <1>2, <2>1 DEF Mark
  <2>2. CASE Unmark(t)
    BY <1>0, <2>2 DEF Unmark, SyllabiOK
  <2> QED
    BY <1>4, <2>1, <2>2
<1>5. ASSUME NEW t \in Threads, PersistSyllabus(t) PROVE Good
  BY <1>0, <1>5 DEF PersistSyllabus, Analysed, SyllabiOK
<1>6. ASSUME NEW s \in DOMAIN syllabi, ConfirmSyllabus(s) PROVE Good
  BY <1>0, <1>6 DEF ConfirmSyllabus, SyllabiOK
<1>7. Good
  BY <1>1, <1>3, <1>4, <1>5, <1>6, SyllabiChange DEF vars, results
<1> QED
  BY <1>0, <1>7, SameRows DEF SyllabiOK

LEMMA PatternsStep ==
  ASSUME IInv, SInv, [Next]_vars
  PROVE  PatternsOK' /\ \A p \in DOMAIN patterns : patterns[p].draft > 0 => patterns'[p].draft > 0
<1> DEFINE Good == /\ patterns' = [p \in DOMAIN patterns |-> patterns'[p]]
                   /\ \A p \in DOMAIN patterns :
                        /\ DOMAIN patterns'[p] = {"status", "draft"} /\ patterns'[p].draft \in Nat
                        /\ patterns[p].draft > 0 => patterns'[p].draft > 0
<1>0. PatternsOK
  BY DEF SInv
<1>1. patterns' = patterns => Good
  BY <1>0 DEF PatternsOK
<1>2. ASSUME NEW t \in Threads, PersistBlueprint(t) PROVE Good
  BY <1>0, <1>2 DEF PersistBlueprint, PatternsOK
<1>3. ASSUME NEW p \in DOMAIN patterns, ApprovePattern(p) PROVE Good
  BY <1>0, <1>3 DEF ApprovePattern, PatternsOK
<1>4. Good
  BY <1>1, <1>2, <1>3, PatternsChange
<1>5. DOMAIN patterns = TargetsOf(workload, "blueprint")
  BY <1>0 DEF PatternsOK
<1> QED
  BY <1>4, <1>5, SameRows DEF PatternsOK

\* What is stored for a job stays stored.
LEMMA StoredKeep ==
  ASSUME IInv, SInv, [Next]_vars, NEW j \in Rows, Stored(j)
  PROVE  Stored(j)'
<1>1. Kind(j)' = Kind(j) /\ Target(j)' = Target(j) /\ Parts(j)' = Parts(j)
  BY SameRows
<1>2. CASE Kind(j) = "questions"
  BY <1>1, <1>2, QuestionsKeep DEF Stored
<1>3. CASE Kind(j) = "content"
  BY <1>1, <1>3, ItemsKeep DEF Stored, Parts
<1>4. CASE Kind(j) = "starter"
  BY <1>1, <1>4, MaterialsKeep, TargetIn DEF Stored, IInv
<1>5. CASE Kind(j) = "syllabus"
  <2>1. Target(j) \in DOMAIN syllabi
    BY <1>5 DEF SInv, SyllabiOK, TargetsOf, Rows, Kind, Target
  <2> QED
    BY <1>1, <1>5, <2>1, SyllabiStep DEF Stored
<1>6. CASE Kind(j) = "blueprint"
  <2>1. Target(j) \in DOMAIN patterns
    BY <1>6 DEF SInv, PatternsOK, TargetsOf, Rows, Kind, Target
  <2> QED
    BY <1>1, <1>6, <2>1, PatternsStep DEF Stored
<1>7. CASE Kind(j) \notin {"questions", "content", "starter", "syllabus", "blueprint"}
  <2>1. Kind(j) = "answer"
    BY <1>7, AiJobsAssumption DEF IInv, TablesOK, IsWorkload, IsJobSpec, Kinds, Rows, Kind
  <2>2. Target(j) \in DOMAIN candidates
    BY <2>1, AnswerTarget DEF IInv
  <2> QED
    BY <1>1, <2>1, <2>2, CandidatesKeep DEF Stored
<1> QED
  BY <1>2, <1>3, <1>4, <1>5, <1>6, <1>7
\* A created item gets the next number.
LEMMA CreatedNext ==
  ASSUME ItemsCounted, NEW target, NEW type
  PROVE  \E n \in Nat : /\ DOMAIN items = 1..n
                        /\ DOMAIN Created(target, type) = 1..(n + 1)
                        /\ \A k \in DOMAIN items : Created(target, type)[k] = items[k]
                        /\ Created(target, type)[n + 1] =
                             [target |-> target, type |-> type, live |-> TRUE, current |-> 1,
                              versions |-> {1}, rows |-> 1, edits |-> 0, set |-> FALSE]
<1>1. PICK n \in Nat : DOMAIN items = 1..n
  BY DEF ItemsCounted
<1>2. Cardinality(DOMAIN items) = n
  BY <1>1, FS_Interval
<1>3. DOMAIN items \cup {n + 1} = 1..(n + 1) /\ n + 1 \notin DOMAIN items
  BY <1>1
<1> QED
  BY <1>1, <1>2, <1>3 DEF Created

LEMMA CountStep ==
  ASSUME SInv, [Next]_vars
  PROVE  ItemsCounted'
<1>1. PICK n \in Nat : DOMAIN items = 1..n
  BY DEF SInv, ItemsCounted
<1>2. CASE items' = items
  BY <1>1, <1>2 DEF ItemsCounted
<1>3. ASSUME NEW t \in Threads, PersistContent(t) PROVE ItemsCounted'
  <2>1. CASE \E target, type : items' = Created(target, type)
    <3>1. PICK target, type : items' = Created(target, type)
      BY <2>1
    <3>2. PICK m \in Nat : DOMAIN Created(target, type) = 1..(m + 1)
      BY CreatedNext DEF SInv
    <3> QED
      BY <3>1, <3>2 DEF ItemsCounted
  <2>2. CASE \E k, version : items' = Appended(k, version)
    BY <1>1, <2>2 DEF Appended, ItemsCounted
  <2> QED
    BY <1>3, <2>1, <2>2 DEF PersistContent
<1>4. ASSUME NEW i \in DOMAIN items, UpdateContent(i) PROVE ItemsCounted'
  BY <1>1, <1>4 DEF UpdateContent, ItemsCounted
<1>5. ASSUME NEW i \in DOMAIN items, SetContentStatus(i) PROVE ItemsCounted'
  BY <1>1, <1>5 DEF SetContentStatus, ItemsCounted
<1> QED
  BY <1>2, <1>3, <1>4, <1>5, ItemsChange

\* A run that has written its result has stored it.
LEMMA EndStores ==
  ASSUME IInv, SInv, [Next]_vars, NEW t \in Threads, Ends(t) \/ PersistContent(t),
         NEW j, j = threads[t].job
  PROVE  Stored(j)'
<1> DEFINE w == threads[t]
<1>0. IsWork(w) /\ w.job = j /\ j \in Rows /\ w.stage = "persist" /\ RunOK(w)
  BY Working DEF Ends, PersistQuestions, PersistContent, PersistAnswer, PersistStarter, PersistSyllabus,
                 PersistBlueprint, Persisting, At, SInv, RunsOK
<1>1. Kind(j)' = Kind(j) /\ Target(j)' = Target(j) /\ Parts(j)' = Parts(j)
  BY SameRows
<1>2. CASE PersistQuestions(t)
  <2> DEFINE new == [id |-> FreshId, job |-> threads[t].job, touched |-> FALSE]
  <2>1. new \in questions' /\ new.job = j /\ Kind(j) = "questions"
    BY <1>2 DEF PersistQuestions, Persisting
  <2> HIDE DEF new
  <2>2. GeneratedBy(j)' # {}
    BY <2>1 DEF GeneratedBy
  <2> QED
    BY <1>1, <2>1, <2>2 DEF Stored
<1>3. CASE PersistContent(t)
  <2>1. Kind(j) = "content" /\ w.seen.part \in Parts(j)
    BY <1>0, <1>3 DEF PersistContent, Persisting, RunOK
  <2>2. \E i \in DOMAIN items' : items'[i].target = Target(j) /\ items'[i].type = w.seen.part
    <3>1. CASE w.seen.read.item = Null
      <4>1. items' = Created(Target(j), w.seen.part)
        BY <1>0, <1>3, <3>1 DEF PersistContent
      <4> DEFINE new == Created(Target(j), w.seen.part)
                 row == [target |-> Target(j), type |-> w.seen.part, live |-> TRUE, current |-> 1,
                         versions |-> {1}, rows |-> 1, edits |-> 0, set |-> FALSE]
      <4>2. PICK n \in Nat : DOMAIN new = 1..(n + 1) /\ new[n + 1] = row
        BY CreatedNext DEF SInv
      <4>3. row.target = Target(j) /\ row.type = w.seen.part
        OBVIOUS
      <4> HIDE DEF new, row
      <4>4. items' = new /\ n + 1 \in DOMAIN new
        BY <4>1, <4>2 DEF new
      <4> QED
        BY <4>2, <4>3, <4>4
    <3>2. CASE w.seen.read.item # Null
      <4>1. /\ w.seen.read.item \in DOMAIN items
            /\ items[w.seen.read.item].target = Target(j) /\ items[w.seen.read.item].type = w.seen.part
        BY <1>0, <2>1, <3>2 DEF IsWork, RunOK
      <4> QED
        BY <4>1, ItemsKeep
    <3> QED
      BY <3>1, <3>2
  <2> QED
    BY <1>1, <2>1, <2>2 DEF Stored, Parts
<1>4. CASE PersistAnswer(t)
  <2> DEFINE c == Target(j)
             old == candidates[c]
  <2>1. Kind(j) = "answer" /\ c \in DOMAIN candidates
    BY <1>0, <1>4, AnswerTarget DEF PersistAnswer, Persisting, IInv
  <2>2. /\ DOMAIN old = {"status", "revision", "answer", "payload", "edits"} /\ old.revision \in Nat
        /\ w.seen.revision \in Nat /\ w.seen.revision <= old.revision
        /\ old.status # "REVIEW" => old.revision > 0
    BY <1>0, <2>1 DEF IsWork, StillRead, IInv, TablesOK, CandidatesOK, SInv, ReviewsOK
  <2>3. candidates'[c] = Answered(old, w.seen)
    BY <1>4, <2>1, <1>0 DEF PersistAnswer
  <2>4. Answered(old, w.seen).revision > 0
    <3> HIDE DEF old, c
    <3>1. CASE Answerable(old, w.seen)
      <4>1. PICK p : Answered(old, w.seen) = [old EXCEPT !.revision = @ + 1, !.answer = "generated", !.payload = p]
        BY <3>1 DEF Answered
      <4> QED
        BY <2>2, <4>1
    <3>2. CASE ~Answerable(old, w.seen)
      BY <2>2, <3>2 DEF Answered, Answerable
    <3> QED
      BY <3>1, <3>2
  <2> QED
    BY <1>1, <2>1, <2>3, <2>4 DEF Stored
<1>5. CASE PersistStarter(t)
  <2>1. Kind(j) = "starter" /\ Target(j) \in Targets /\ materials \in [Targets -> Nat]
    BY <1>0, <1>5, TargetIn DEF PersistStarter, Persisting, IInv, TablesOK
  <2>2. w.seen.read => materials[Target(j)] > 0
    BY <1>0, <2>1 DEF IsWork
  <2>3. materials' = [materials EXCEPT ![Target(j)] = IF w.seen.read THEN @ ELSE @ + 1]
    BY <1>5 DEF PersistStarter
  <2>4. materials'[Target(j)] > 0
    BY <2>1, <2>2, <2>3
  <2> QED
    BY <1>1, <2>1, <2>4 DEF Stored
<1>6. CASE PersistSyllabus(t)
  <2>1. Kind(j) = "syllabus" /\ Target(j) \in DOMAIN syllabi
    BY <1>0, <1>6 DEF PersistSyllabus, Persisting, SInv, SyllabiOK, TargetsOf, Rows, Kind, Target
  <2>2. DOMAIN syllabi[Target(j)] = {"status", "analysis", "draft"} /\ SyllabiOK
    BY <2>1 DEF IInv, TablesOK, SInv
  <2>3. syllabi' = [syllabi EXCEPT ![Target(j)] = Analysed(@)]
    BY <1>6 DEF PersistSyllabus
  <2>4. syllabi'[Target(j)].draft > 0
    BY <2>1, <2>2, <2>3 DEF Analysed, SyllabiOK
  <2> QED
    BY <1>1, <2>1, <2>4 DEF Stored
<1>7. CASE PersistBlueprint(t)
  <2>1. Kind(j) = "blueprint" /\ Target(j) \in DOMAIN patterns /\ PatternsOK
    BY <1>0, <1>7 DEF PersistBlueprint, Persisting, SInv, PatternsOK, TargetsOf, Rows, Kind, Target
  <2>2. patterns' = [patterns EXCEPT ![Target(j)] = [status |-> "REVIEW", draft |-> @.draft + 1]]
    BY <1>7 DEF PersistBlueprint
  <2>3. patterns'[Target(j)].draft > 0
    BY <2>1, <2>2 DEF PatternsOK
  <2> QED
    BY <1>1, <2>1, <2>3 DEF Stored
<1> QED
  BY <1>2, <1>3, <1>4, <1>5, <1>6, <1>7 DEF Ends
\* A thread that stays as it is, is as right after the step.
LEMMA RunCarried ==
  ASSUME IInv, SInv, [Next]_vars, NEW t, NEW w, ThreadOK(w), RunOK(w), threads'[t] = w
  PROVE  RunOK(threads[t])'
<1>1. CASE w = Free
  BY <1>1 DEF RunOK, Free
<1>2. CASE IsWork(w) /\ w.stage # "free"
  <2>1. w.job \in Rows
    BY <1>2 DEF IsWork, IsRow
  <2>2. Kind(w.job)' = Kind(w.job) /\ Target(w.job)' = Target(w.job) /\ Parts(w.job)' = Parts(w.job)
    BY SameRows
  <2>3. w.stage = "complete" => Stored(w.job)'
    BY <1>2, <2>1, StoredKeep DEF RunOK
  <2>4. ASSUME w.stage = "persist", Kind(w.job) = "content", w.seen.read.item # Null
        PROVE  /\ items'[w.seen.read.item].target = Target(w.job)
               /\ items'[w.seen.read.item].type = w.seen.part
    <3>1. w.seen.read.item \in DOMAIN items
      BY <1>2, <2>4 DEF IsWork
    <3> QED
      BY <1>2, <2>4, <3>1, ItemsKeep DEF RunOK
  <2>5. Draws(w) => materials'[Target(w.job)] > 0
    BY <1>2, <2>1, TargetIn, MaterialsKeep DEF RunOK, IInv
  <2>6. RunOK(w)'
    BY <1>2, <2>2, <2>3, <2>4, <2>5 DEF RunOK, Purging, Draws
  <2> QED
    BY <2>6 DEF RunOK, Purging, Draws
<1>3. CASE w.stage = "free"
  BY <1>3 DEF RunOK
<1> QED
  BY <1>1, <1>2, <1>3 DEF ThreadOK

\* A thread that goes on.
LEMMA RunMoves ==
  ASSUME IInv, SInv, [Next]_vars, NEW t \in Threads, NEW next, Put(t, next),
         next.stage \in Stages,
         NEW j, next.job = j,
         Kind(j) = "content" => next.todo \subseteq Parts(j),
         next.stage = "persist" /\ Kind(j) = "questions" => \A q \in next.seen.read : q.job = j /\ q.id \in Nat,
         next.stage = "persist" /\ Kind(j) = "content" =>
           /\ next.seen.part \in next.todo
           /\ next.seen.read.item # Null =>
                /\ items'[next.seen.read.item].target = Target(j)
                /\ items'[next.seen.read.item].type = next.seen.part,
         next.stage \in Drawing /\ Kind(j) \in {"content", "questions"} => materials'[Target(j)] > 0,
         next.stage = "complete" => Stored(j)'
  PROVE  RunOK(threads[t])'
<1>1. threads'[t] = next
  BY DEF IInv, ThreadsOK, Put
<1>2. Kind(j)' = Kind(j) /\ Target(j)' = Target(j) /\ Parts(j)' = Parts(j)
  BY SameRows
<1>3. RunOK(next)'
  BY <1>2 DEF RunOK, Purging, Draws
<1> QED
  BY <1>1, <1>3 DEF RunOK, Purging, Draws

\* ... with what it has read.
LEMMA RunGoes ==
  ASSUME IInv, SInv, [Next]_vars, NEW t \in Threads, threads[t].stage # "free",
         NEW stage \in Stages \ {"free"}, GotoStage(t, stage),
         NEW j, j = threads[t].job,
         stage = "persist" => ~ReadsFirst(Kind(j)),
         stage \in Drawing => threads[t].stage \in Drawing \cup {"mark"},
         stage = "complete" => Stored(j)'
  PROVE  RunOK(threads[t])'
<1> DEFINE w == threads[t]
           next == [w EXCEPT !.stage = stage]
<1>1. IsWork(w) /\ RunOK(w)
  BY Working DEF SInv, RunsOK
<1>2. Put(t, next)
  BY DEF GotoStage
<1>3. next.stage = stage /\ next.job = j /\ next.todo = w.todo
  BY <1>1 DEF IsWork
<1>4. Kind(j) = "content" => next.todo \subseteq Parts(j)
  BY <1>1, <1>3 DEF RunOK
<1>5. stage = "persist" => Kind(j) \notin {"questions", "content"}
  BY DEF ReadsFirst
<1>6. ASSUME stage \in Drawing, Kind(j) \in {"content", "questions"} PROVE materials'[Target(j)] > 0
  <2>1. w.stage \in Drawing /\ j \in Rows
    BY <1>1, <1>6 DEF IsWork, IsRow
  <2>2. materials[Target(j)] > 0
    BY <1>1, <1>6, <2>1 DEF RunOK, Draws
  <2> QED
    BY <2>1, <2>2, TargetIn, MaterialsKeep DEF IInv
<1> HIDE DEF next
<1> QED
  BY <1>2, <1>3, <1>4, <1>5, <1>6, RunMoves

LEMMA RunStep ==
  ASSUME IInv, SInv, [Next]_vars, NEW t \in Threads, ThreadStep(t)
  PROVE  RunOK(threads[t])'
<1> DEFINE w == threads[t]
<1>1. CASE \E stage \in Stages \ {"free", "persist", "complete"} :
             /\ GotoStage(t, stage) /\ w.stage # "free"
             /\ stage \in Drawing => w.stage \in Drawing \cup {"mark"}
  BY <1>1, RunGoes
<1>2. CASE Check(t) /\ ~ReadsFirst(Kind(w.job)) /\ GotoStage(t, "persist")
  <2>1. w.stage # "free" /\ w.stage \in Drawing /\ "persist" \in Stages \ {"free"}
    BY <1>2 DEF Check, At, Stages, Drawing
  <2> QED
    BY <1>2, <2>1, RunGoes
<1>3. CASE Ends(t) /\ GotoStage(t, "complete")
  <2>1. w.stage # "free" /\ "complete" \in Stages \ {"free"} /\ "complete" \notin Drawing
    BY <1>3 DEF Ends, PersistQuestions, PersistAnswer, PersistStarter, PersistSyllabus,
                PersistBlueprint, Persisting, At, Stages, Drawing
  <2> QED
    BY <1>3, <2>1, RunGoes, EndStores
<1>4. ASSUME NEW j \in Rows, Deliver(t, j) PROVE RunOK(threads[t])'
  <2> DEFINE next == [stage |-> "status", job |-> j, held |-> TRUE,
                      todo |-> workload.specs[j].parts, seen |-> Null]
  <2>1. Put(t, next) /\ next.stage = "status" /\ next.job = j /\ next.todo = Parts(j)
    BY <1>4 DEF Deliver, Parts
  <2>2. "status" \in Stages /\ "status" \notin Drawing
    BY DEF Stages, Drawing
  <2> HIDE DEF next
  <2> QED
    BY <2>1, <2>2, RunMoves
<1>5. CASE Read(t)
  <2>1. IsWork(w) /\ RunOK(w) /\ w.stage # "free" /\ w.job \in Rows
    BY <1>5, Working DEF Read, At, SInv, RunsOK
  <2>2. PICK stage \in {"mark", "ask"} : Put(t, [w EXCEPT !.stage = stage, !.seen = Source(w.job)])
    BY <1>5 DEF Read
  <2> DEFINE next == [w EXCEPT !.stage = stage, !.seen = Source(w.job)]
  <2>3. next.stage = stage /\ next.job = w.job /\ next.todo = w.todo
    BY <2>1 DEF IsWork
  <2>4. PICK j : j = w.job
    OBVIOUS
  <2>5. stage \in Stages
    BY DEF Stages
  <2>6. Kind(j) = "content" => next.todo \subseteq Parts(j)
    BY <2>1, <2>3, <2>4 DEF RunOK
  <2>7. Put(t, next)
    BY <2>2
  <2>8. ASSUME Kind(j) \in {"content", "questions"} PROVE materials'[Target(j)] > 0
    <3>1. Source(j) # Null
      BY <1>5, <2>4 DEF Read
    <3>2. materials[Target(j)] # 0
      BY <2>8, <3>1 DEF Source
    <3>3. Target(j) \in Targets /\ materials \in [Targets -> Nat]
      BY <2>1, <2>4, TargetIn DEF IInv, TablesOK
    <3> QED
      BY <3>2, <3>3, MaterialsKeep
  <2> HIDE DEF next
  <2> QED
    BY <2>3, <2>4, <2>5, <2>6, <2>7, <2>8, RunMoves
<1>10. CASE Ask(t)
  <2>1. IsWork(w) /\ RunOK(w) /\ w.stage = "ask" /\ w.job \in Rows
    BY <1>10, Working DEF Ask, At, SInv, RunsOK
  <2>2. PICK parts \in Answers(w.job) : Put(t, [w EXCEPT !.stage = "check", !.todo = parts])
    BY <1>10 DEF Ask
  <2> DEFINE next == [w EXCEPT !.stage = "check", !.todo = parts]
  <2>3. next.stage = "check" /\ next.job = w.job /\ next.todo = parts
    BY <2>1 DEF IsWork
  <2>4. PICK j : j = w.job
    OBVIOUS
  <2>5. "check" \in Stages
    BY DEF Stages
  <2>6. Kind(j) = "content" => parts \subseteq Parts(j)
    BY <2>4 DEF Answers, Parts
  <2>7. Put(t, next)
    BY <2>2
  <2>8. ASSUME Kind(j) \in {"content", "questions"} PROVE materials'[Target(j)] > 0
    <3>1. materials[Target(j)] > 0 /\ Target(j) \in Targets
      BY <2>1, <2>4, <2>8, TargetIn DEF RunOK, Draws, Drawing, IInv
    <3> QED
      BY <3>1, MaterialsKeep
  <2> HIDE DEF next
  <2> QED
    BY <2>3, <2>4, <2>5, <2>6, <2>7, <2>8, RunMoves
<1>6. CASE Prepare(t)
  <2>1. IsWork(w) /\ RunOK(w) /\ w.stage # "free"
    BY <1>6, Working DEF Prepare, At, SInv, RunsOK
  <2>2. PICK j : j = w.job
    OBVIOUS
  <2>3. PICK part \in IF Kind(j) = "content" THEN w.todo ELSE {Null} :
           \E read \in Prepared(j, part) :
             Put(t, [w EXCEPT !.stage = "persist", !.seen = [part |-> part, read |-> read]])
    BY <1>6, <2>2 DEF Prepare
  <2>4. PICK read \in Prepared(j, part) :
           Put(t, [w EXCEPT !.stage = "persist", !.seen = [part |-> part, read |-> read]])
    BY <2>3
  <2> DEFINE next == [w EXCEPT !.stage = "persist", !.seen = [part |-> part, read |-> read]]
  <2>5. /\ next.stage = "persist" /\ next.job = j /\ next.todo = w.todo
        /\ next.seen.part = part /\ next.seen.read = read
    BY <2>1, <2>2 DEF IsWork
  <2>6. items' = items /\ "persist" \in Stages
    BY <1>6 DEF Prepare, results, Stages
  <2>7. Kind(j) = "questions" => \A q \in read : q.job = j /\ q.id \in Nat
    BY <2>4 DEF Prepared, Purged, Untouched, GeneratedBy, SInv, QuestionsOK
  <2>8. ASSUME Kind(j) = "content", read.item # Null
        PROVE  items[read.item].target = Target(j) /\ items[read.item].type = part
    <3>1. PICK i \in DOMAIN items : /\ read = [item |-> i, current |-> items[i].current]
                                    /\ items[i].target = Target(j) /\ items[i].type = part
      BY <2>4, <2>8 DEF Prepared, Newest, LiveItems
    <3> QED
      BY <3>1
  <2>9. Put(t, next)
    BY <2>4
  <2>10. Kind(j) = "content" => next.todo \subseteq Parts(j) /\ part \in next.todo
    BY <2>1, <2>2, <2>3, <2>5 DEF RunOK
  <2>11. Kind(j) \in {"content", "questions"} => materials'[Target(j)] > 0
    <3>1. w.stage \in Drawing /\ j \in Rows
      BY <1>6, <2>1, <2>2 DEF Prepare, At, Drawing, IsWork, IsRow
    <3> QED
      BY <2>1, <2>2, <3>1, TargetIn, MaterialsKeep DEF RunOK, Draws, IInv
  <2> HIDE DEF next
  <2> QED
    BY <2>5, <2>6, <2>7, <2>8, <2>9, <2>10, <2>11, RunMoves
<1>7. CASE EnqueueDependent(t) \/ SkipDependent(t)
  <2>1. IsWork(w) /\ RunOK(w) /\ w.stage = "dependents"
    BY <1>7, Working DEF EnqueueDependent, SkipDependent, At, SInv, RunsOK
  <2>2. PICK next : /\ Put(t, next)
                    /\ next.stage \in {"publish", "dependents"} /\ next.job = w.job
                    /\ next.todo \subseteq w.todo
    <3>1. CASE EnqueueDependent(t)
      <4>1. PICK kind, k : Put(t, [w EXCEPT !.stage = "publish", !.todo = @ \ {kind}, !.seen = k])
        BY <3>1 DEF EnqueueDependent
      <4> DEFINE new == [w EXCEPT !.stage = "publish", !.todo = @ \ {kind}, !.seen = k]
      <4>2. new.stage = "publish" /\ new.job = w.job /\ new.todo \subseteq w.todo
        BY <2>1 DEF IsWork
      <4> QED
        BY <4>1, <4>2
    <3>2. CASE SkipDependent(t)
      <4>1. PICK kind : Put(t, [w EXCEPT !.todo = @ \ {kind}])
        BY <3>2 DEF SkipDependent
      <4> DEFINE new == [w EXCEPT !.todo = @ \ {kind}]
      <4>2. new.stage = "dependents" /\ new.job = w.job /\ new.todo \subseteq w.todo
        BY <2>1 DEF IsWork
      <4> QED
        BY <4>1, <4>2
    <3> QED
      BY <1>7, <3>1, <3>2
  <2>3. PICK j : j = w.job
    OBVIOUS
  <2>4. next.stage \in Stages /\ next.stage \notin Drawing
    BY <2>2 DEF Stages, Drawing
  <2>5. Kind(j) = "content" => next.todo \subseteq Parts(j)
    BY <2>1, <2>2, <2>3 DEF RunOK
  <2> QED
    BY <2>2, <2>3, <2>4, <2>5, RunMoves
<1>8. CASE PersistContent(t)
  <2>1. IsWork(w) /\ RunOK(w) /\ w.stage = "persist" /\ Kind(w.job) = "content"
    BY <1>8, Working DEF PersistContent, Persisting, At, SInv, RunsOK
  <2>2. PICK j : j = w.job
    OBVIOUS
  <2> DEFINE rest == w.todo \ {w.seen.part}
             next == [w EXCEPT !.stage = IF rest = {} THEN "complete" ELSE "check", !.todo = rest]
  <2>3. Put(t, next)
    BY <1>8 DEF PersistContent
  <2>4. next.stage \in {"complete", "check"} /\ next.job = j /\ next.todo \subseteq w.todo
    BY <2>1, <2>2 DEF IsWork
  <2>5. Kind(j) = "content" => next.todo \subseteq Parts(j)
    BY <2>1, <2>2, <2>4 DEF RunOK
  <2>6. Stored(j)'
    BY <1>8, <2>2, EndStores
  <2>7. next.stage \in Stages
    BY <2>4 DEF Stages
  <2>8. Kind(j) \in {"content", "questions"} => materials'[Target(j)] > 0
    <3>1. w.stage \in Drawing /\ j \in Rows
      BY <2>1, <2>2 DEF Drawing, IsWork, IsRow
    <3> QED
      BY <2>1, <2>2, <3>1, TargetIn, MaterialsKeep DEF RunOK, Draws, IInv
  <2> HIDE DEF next
  <2> QED
    BY <2>3, <2>4, <2>5, <2>6, <2>7, <2>8, RunMoves
<1>9. CASE Ack(t)
  BY <1>9 DEF Ack, Put, IInv, ThreadsOK, RunOK, Free
<1> QED
  BY <1>1, <1>2, <1>3, <1>4, <1>5, <1>6, <1>7, <1>8, <1>9, <1>10, ThreadGoes
\* What a lost connection leaves a thread with.
LEMMA LostConnection ==
  ASSUME IInv, NEW t \in Threads, LoseConnection(t)
  PROVE  /\ IsWork(threads[t])
         /\ \A u \in Threads \ {t} : threads'[u] = threads[u]
         /\ threads'[t].stage = threads[t].stage /\ threads'[t].job = threads[t].job
         /\ threads'[t].todo = threads[t].todo /\ threads'[t].seen = threads[t].seen
<1>1. IsWork(threads[t])
  BY Working DEF LoseConnection, Holding
<1>2. threads' = [threads EXCEPT ![t] = [threads[t] EXCEPT !.held = FALSE]]
  BY DEF LoseConnection, Put
<1> QED
  BY <1>1, <1>2 DEF IsWork, IInv, ThreadsOK

\* A step of a thread leaves the others alone.
LEMMA OthersStay ==
  ASSUME IInv, NEW t \in Threads, ThreadStep(t)
  PROVE  \E next : Put(t, next) /\ threads'[t] = next /\ \A u \in Threads \ {t} : threads'[u] = threads[u]
<1>1. \E next : Put(t, next)
  BY ThreadGoes DEF GotoStage, Deliver, Read, Ask, Prepare, EnqueueDependent, SkipDependent, PersistContent, Ack
<1> QED
  BY <1>1 DEF Put, IInv, ThreadsOK

LEMMA RunsStep ==
  ASSUME IInv, SInv, [Next]_vars
  PROVE  RunsOK'
<1>0. Threads' = Threads /\ \A t \in Threads : ThreadOK(threads[t]) /\ RunOK(threads[t])
  BY SameRows DEF IInv, ThreadsOK, SInv, RunsOK
<1>1. ASSUME NEW u \in Threads PROVE RunOK(threads[u])'
  <2>1. CASE threads'[u] = threads[u]
    BY <1>0, <2>1, RunCarried
  <2>2. CASE Crash
    BY <2>2 DEF Crash, Free, RunOK
  <2>3. ASSUME NEW t \in Threads, LoseConnection(t), t = u PROVE RunOK(threads[u])'
    <3>1. PICK next : threads'[u] = next
      OBVIOUS
    <3>2. /\ IsWork(threads[u]) /\ next.stage = threads[u].stage /\ next.job = threads[u].job
          /\ next.todo = threads[u].todo /\ next.seen = threads[u].seen
      BY <2>3, <3>1, LostConnection
    <3>3. UNCHANGED <<workload, results>> /\ Put(u, next)
      BY <2>3, <3>1 DEF LoseConnection, Put, IInv, ThreadsOK
    <3>4. PICK j : j = next.job
      OBVIOUS
    <3>5. /\ Kind(j) = "content" => next.todo \subseteq Parts(j)
          /\ next.stage = "persist" /\ Kind(j) = "questions" => \A q \in next.seen.read : q.job = j /\ q.id \in Nat
          /\ next.stage = "persist" /\ Kind(j) = "content" =>
               /\ next.seen.part \in next.todo
               /\ next.seen.read.item # Null =>
                    /\ items'[next.seen.read.item].target = Target(j)
                    /\ items'[next.seen.read.item].type = next.seen.part
          /\ next.stage \in Stages
      <4>1. threads[u].stage # "free" /\ items' = items
        BY <2>3, <3>3 DEF LoseConnection, Holding, results
      <4> QED
        BY <1>0, <3>2, <3>4, <4>1 DEF RunOK, Purging
    <3>6. next.stage = "complete" => Stored(j)'
      <4>1. ASSUME next.stage = "complete" PROVE Stored(j) /\ j \in Rows
        BY <1>0, <3>2, <3>4, <4>1 DEF RunOK, IsWork, IsRow
      <4> QED
        BY <4>1, StoredKeep
    <3>7. ASSUME next.stage \in Drawing, Kind(j) \in {"content", "questions"} PROVE materials'[Target(j)] > 0
      <4>1. threads[u].stage # "free" /\ j \in Rows /\ threads[u].job = j
        BY <2>3, <3>2, <3>4 DEF LoseConnection, Holding, IsWork, IsRow
      <4>2. materials[Target(j)] > 0
        BY <1>0, <3>2, <3>7, <4>1 DEF RunOK, Draws
      <4> QED
        BY <4>1, <4>2, TargetIn, MaterialsKeep DEF IInv
    <3> QED
      BY <3>3, <3>4, <3>5, <3>6, <3>7, RunMoves
  <2>4. ASSUME NEW t \in Threads, ThreadStep(t) PROVE RunOK(threads[u])'
    BY <1>0, <2>1, <2>4, RunStep, OthersStay
  <2> QED
    BY <2>1, <2>2, <2>3, <2>4, ThreadsMove, LostConnection
<1> QED
  BY <1>0, <1>1 DEF RunsOK

\* A thread is about to write a result because it already was, or has just prepared it, or
\* writes a kind that reads nothing first.
LEMMA ToPersist ==
  ASSUME IInv, [Next]_vars, NEW u \in Threads, threads'[u].stage = "persist"
  PROVE  \/ /\ ~ThreadStep(u) /\ threads[u].stage = "persist"
            /\ threads'[u].job = threads[u].job /\ threads'[u].todo = threads[u].todo
            /\ threads'[u].seen = threads[u].seen
         \/ Prepare(u)
         \/ ~ReadsFirst(Kind(threads'[u].job))
<1> DEFINE w == threads[u]
<1>0. PICK next : threads'[u] = next
  OBVIOUS
<1>1. next.stage = "persist"
  BY <1>0
<1>2. CASE ~ThreadStep(u)
  <2>1. ~Crash
    BY <1>0, <1>1 DEF Crash, Free
  <2>2. threads'[u] = w \/ LoseConnection(u)
    BY <1>2, <2>1, ThreadsMove, LostConnection, OthersStay
  <2> QED
    BY <1>1, <1>2, <1>0, <2>2, LostConnection
<1>3. CASE ThreadStep(u)
  <2>0. \A s : Put(u, s) => next = s
    BY <1>0 DEF Put, IInv, ThreadsOK
  <2>1. ASSUME NEW stage \in Stages \ {"persist"}, w.stage # "free", GotoStage(u, stage) PROVE FALSE
    <3>1. [w EXCEPT !.stage = stage].stage = stage
      BY <2>1, Working DEF IsWork
    <3> QED
      BY <1>1, <2>0, <2>1, <3>1 DEF GotoStage
  <2>2. CASE Check(u) /\ ~ReadsFirst(Kind(w.job)) /\ GotoStage(u, "persist")
    <3>1. [w EXCEPT !.stage = "persist"].job = w.job
      BY <2>2, Working DEF IsWork, Check, At
    <3>2. next.job = w.job
      BY <2>0, <2>2, <3>1 DEF GotoStage
    <3> QED
      BY <1>0, <2>2, <3>2
  <2>3. CASE Ends(u) /\ GotoStage(u, "complete")
    <3>1. w.stage # "free" /\ "complete" \in Stages \ {"persist"}
      BY <2>3 DEF Ends, PersistQuestions, PersistAnswer, PersistStarter, PersistSyllabus,
                  PersistBlueprint, Persisting, At, Stages
    <3> QED
      BY <2>1, <2>3, <3>1
  <2>4. CASE Read(u)
    <3>1. IsWork(w)
      BY <2>4, Working DEF Read, At
    <3>2. PICK stage \in {"mark", "ask"} : Put(u, [w EXCEPT !.stage = stage, !.seen = Source(w.job)])
      BY <2>4 DEF Read
    <3>3. [w EXCEPT !.stage = stage, !.seen = Source(w.job)].stage = stage
      BY <3>1 DEF IsWork
    <3> QED
      BY <1>1, <2>0, <3>2, <3>3
  <2>10. CASE Ask(u)
    <3>1. IsWork(w)
      BY <2>10, Working DEF Ask, At
    <3>2. PICK parts : Put(u, [w EXCEPT !.stage = "check", !.todo = parts])
      BY <2>10 DEF Ask
    <3>3. [w EXCEPT !.stage = "check", !.todo = parts].stage = "check"
      BY <3>1 DEF IsWork
    <3> QED
      BY <1>1, <2>0, <3>2, <3>3
  <2>5. CASE EnqueueDependent(u)
    <3>1. IsWork(w)
      BY <2>5, Working DEF EnqueueDependent, At
    <3>2. PICK kind, k : Put(u, [w EXCEPT !.stage = "publish", !.todo = @ \ {kind}, !.seen = k])
      BY <2>5 DEF EnqueueDependent
    <3>3. [w EXCEPT !.stage = "publish", !.todo = @ \ {kind}, !.seen = k].stage = "publish"
      BY <3>1 DEF IsWork
    <3> QED
      BY <1>1, <2>0, <3>2, <3>3
  <2>6. CASE SkipDependent(u)
    <3>1. IsWork(w) /\ w.stage = "dependents"
      BY <2>6, Working DEF SkipDependent, At
    <3>2. PICK kind : Put(u, [w EXCEPT !.todo = @ \ {kind}])
      BY <2>6 DEF SkipDependent
    <3>3. [w EXCEPT !.todo = @ \ {kind}].stage = "dependents"
      BY <3>1 DEF IsWork
    <3> QED
      BY <1>1, <2>0, <3>2, <3>3
  <2>7. CASE PersistContent(u)
    <3>1. IsWork(w)
      BY <2>7, Working DEF PersistContent, Persisting, At
    <3> DEFINE rest == w.todo \ {w.seen.part}
    <3>2. PICK stage \in {"complete", "check"} : Put(u, [w EXCEPT !.stage = stage, !.todo = rest])
      BY <2>7 DEF PersistContent
    <3> HIDE DEF rest
    <3>3. [w EXCEPT !.stage = stage, !.todo = rest].stage = stage
      BY <3>1 DEF IsWork
    <3> QED
      BY <1>1, <2>0, <3>2, <3>3
  <2>8. CASE Ack(u)
    BY <1>1, <2>0, <2>8 DEF Ack, Free
  <2>9. ASSUME NEW j \in Rows, Deliver(u, j) PROVE FALSE
    <3>1. Put(u, [stage |-> "status", job |-> j, held |-> TRUE, todo |-> workload.specs[j].parts, seen |-> Null])
      BY <2>9 DEF Deliver
    <3> QED
      BY <1>1, <2>0, <3>1
  <2> QED
    BY <1>3, <2>1, <2>2, <2>3, <2>4, <2>5, <2>6, <2>7, <2>8, <2>9, <2>10, ThreadGoes
<1> QED
  BY <1>2, <1>3

\* What a run has read before it writes.
LEMMA WasPrepared ==
  ASSUME IInv, NEW t \in Threads, Prepare(t)
  PROVE  /\ UNCHANGED results
         /\ \E part : \E read \in Prepared(threads[t].job, part) :
              /\ threads'[t].job = threads[t].job /\ threads'[t].stage = "persist"
              /\ threads'[t].seen = [part |-> part, read |-> read]
<1> DEFINE w == threads[t]
<1>1. IsWork(w)
  BY Working DEF Prepare, At
<1>2. PICK part : \E read \in Prepared(w.job, part) :
         Put(t, [w EXCEPT !.stage = "persist", !.seen = [part |-> part, read |-> read]])
  BY DEF Prepare
<1>3. PICK read \in Prepared(w.job, part) :
         Put(t, [w EXCEPT !.stage = "persist", !.seen = [part |-> part, read |-> read]])
  BY <1>2
<1>4. threads'[t] = [w EXCEPT !.stage = "persist", !.seen = [part |-> part, read |-> read]]
  BY <1>3 DEF Put, IInv, ThreadsOK
<1>5. /\ threads'[t].job = w.job /\ threads'[t].stage = "persist"
      /\ threads'[t].seen = [part |-> part, read |-> read]
  BY <1>1, <1>4 DEF IsWork
<1> QED
  BY <1>5 DEF Prepare

\* What a run is about to purge it has read among the questions.
LEMMA ReadsNumbered ==
  ASSUME IInv, SInv, [Next]_vars, NEW n, NumberedTo(n), NEW u \in Threads, Purging(threads[u])'
  PROVE  \A q \in threads'[u].seen.read : q.id <= n
<1> DEFINE w == threads[u]
<1>1. threads'[u].stage = "persist" /\ Kind(threads'[u].job) = "questions"
  BY SameRows DEF Purging
<1>2. CASE w.stage = "persist" /\ threads'[u].job = w.job /\ threads'[u].seen = w.seen
  BY <1>1, <1>2 DEF NumberedTo, Purging
<1>3. CASE Prepare(u)
  <2>1. PICK part : \E read \in Prepared(w.job, part) :
           threads'[u].job = w.job /\ threads'[u].seen = [part |-> part, read |-> read]
    BY <1>3, WasPrepared
  <2>2. PICK read \in Prepared(w.job, part) :
           threads'[u].job = w.job /\ threads'[u].seen = [part |-> part, read |-> read]
    BY <2>1
  <2>3. read \subseteq questions
    BY <1>1, <2>2 DEF Prepared, Purged, Untouched, GeneratedBy
  <2> QED
    BY <2>2, <2>3 DEF NumberedTo
<1> QED
  BY <1>1, <1>2, <1>3, ToPersist DEF ReadsFirst

\* A next number is found as long as the numbers given have a bound.
LEMMA FreshIsNumber ==
  ASSUME SInv
  PROVE  FreshId \in Nat
<1> DEFINE Ids == {0} \cup {q.id : q \in questions}
                    \cup UNION {{q.id : q \in threads[t].seen.read} :
                                  t \in {u \in Threads : Persisting(u, "questions")}}
<1>1. PICK n \in Nat : NumberedTo(n)
  BY DEF SInv, QuestionsOK
<1>2. \A q \in questions : q.id \in 0..n
  BY <1>1 DEF SInv, QuestionsOK, NumberedTo
<1>3. \A t \in Threads : Persisting(t, "questions") => \A q \in threads[t].seen.read : q.id \in 0..n
  <2> TAKE t \in Threads
  <2> HAVE Persisting(t, "questions")
  <2>1. Purging(threads[t]) /\ RunOK(threads[t])
    BY DEF Persisting, At, Purging, SInv, RunsOK
  <2>2. \A q \in threads[t].seen.read : q.id \in Nat /\ q.id <= n
    BY <1>1, <2>1 DEF RunOK, NumberedTo, Purging
  <2> QED
    BY <2>2
<1>4. Ids \in SUBSET (0..n) /\ Ids \subseteq Nat /\ Ids # {}
  BY <1>2, <1>3
<1>5. IsFiniteSet(Ids)
  <2>1. IsFiniteSet(0..n)
    BY FS_Interval
  <2> HIDE DEF Ids
  <2> QED
    BY <1>4, <2>1, FS_Subset
<1>6. Max(Ids) \in Nat
  BY <1>4, <1>5, MaxOfFinite
<1> QED
  BY <1>6 DEF FreshId
LEMMA QuestionsStep ==
  ASSUME IInv, SInv, [Next]_vars
  PROVE  QuestionsOK'
<1>0. questions \subseteq [id : Nat, job : Rows, touched : BOOLEAN] /\ Rows' = Rows /\ Threads' = Threads
  BY SameRows DEF SInv, QuestionsOK
<1>1. PICK n \in Nat : NumberedTo(n)
  BY DEF SInv, QuestionsOK
<1>2. FreshId \in Nat
  BY FreshIsNumber
<1>3. /\ questions' \subseteq [id : Nat, job : Rows, touched : BOOLEAN]
      /\ \A q \in questions' : q.id <= n \/ q.id = FreshId
  <2>1. \A q \in questions : q.id <= n
    BY <1>1 DEF NumberedTo
  <2>2. CASE questions' = questions
    BY <1>0, <2>1, <2>2
  <2>3. ASSUME NEW t \in Threads, PersistQuestions(t)
        PROVE  /\ questions' \subseteq [id : Nat, job : Rows, touched : BOOLEAN]
               /\ \A q \in questions' : q.id <= n \/ q.id = FreshId
    <3> DEFINE new == [id |-> FreshId, job |-> threads[t].job, touched |-> FALSE]
    <3>1. questions' \subseteq questions \cup {new}
      BY <2>3 DEF PersistQuestions
    <3>2. new \in [id : Nat, job : Rows, touched : BOOLEAN] /\ new.id = FreshId
      BY <1>2, <2>3, PurgeOwn
    <3> HIDE DEF new
    <3> QED
      BY <1>0, <2>1, <3>1, <3>2
  <2>4. ASSUME NEW q \in questions, TouchQuestion(q)
        PROVE  /\ questions' \subseteq [id : Nat, job : Rows, touched : BOOLEAN]
               /\ \A p \in questions' : p.id <= n \/ p.id = FreshId
    <3> DEFINE new == [q EXCEPT !.touched = TRUE]
    <3>1. questions' \subseteq questions \cup {new}
      BY <2>4 DEF TouchQuestion
    <3>2. new \in [id : Nat, job : Rows, touched : BOOLEAN] /\ new.id = q.id
      BY <1>0
    <3> HIDE DEF new
    <3> QED
      BY <1>0, <2>1, <3>1, <3>2
  <2> QED
    BY <2>2, <2>3, <2>4, QuestionsChange DEF vars, results
<1>4. PICK m \in Nat : n <= m /\ FreshId <= m
  <2>1. n + FreshId \in Nat /\ n <= n + FreshId /\ FreshId <= n + FreshId
    BY <1>2
  <2> QED
    BY <2>1
<1>5. \A q \in questions' : q.id <= m
  <2>1. \A q \in questions' : q.id \in Nat
    BY <1>3
  <2> QED
    BY <1>2, <1>3, <1>4, <2>1
<1>6. ASSUME NEW u \in Threads, Purging(threads[u])' PROVE \A q \in threads'[u].seen.read : q.id <= m
  <2>1. \A q \in threads'[u].seen.read : q.id <= n
    BY <1>1, <1>6, ReadsNumbered
  <2>2. \A q \in threads'[u].seen.read : q.id \in Nat
    <3>1. RunOK(threads[u])'
      BY <1>0, RunsStep DEF RunsOK
    <3> QED
      BY <1>6, <3>1 DEF RunOK, Purging
  <2> QED
    BY <1>4, <2>1, <2>2
<1>7. NumberedTo(m)'
  BY <1>0, <1>5, <1>6 DEF NumberedTo
<1> QED
  BY <1>0, <1>3, <1>7 DEF QuestionsOK

\* What a run stores is drawn from a material, which stays.
LEMMA DrawnStep ==
  ASSUME IInv, SInv, [Next]_vars
  PROVE  DrawnOK'
<1>0. /\ DrawnOK /\ \A j : Target(j)' = Target(j)
      /\ questions \subseteq [id : Nat, job : Rows, touched : BOOLEAN]
  BY SameRows DEF SInv, QuestionsOK
<1>1. ASSUME NEW t \in Threads, PersistContent(t) \/ PersistQuestions(t)
      PROVE  Target(threads[t].job) \in Targets /\ materials'[Target(threads[t].job)] > 0
  <2>1. /\ threads[t].stage = "persist" /\ Kind(threads[t].job) \in {"content", "questions"}
        /\ threads[t].job \in Rows /\ RunOK(threads[t])
    BY <1>1, Working DEF PersistContent, PersistQuestions, Persisting, At, SInv, RunsOK
  <2>2. Target(threads[t].job) \in Targets /\ materials[Target(threads[t].job)] > 0
    BY <2>1, TargetIn DEF RunOK, Draws, Drawing, IInv
  <2> QED
    BY <2>2, MaterialsKeep
<1>2. ASSUME NEW i \in DOMAIN items' PROVE items'[i].target \in Targets /\ materials'[items'[i].target] > 0
  <2>1. CASE i \in DOMAIN items
    BY <1>0, <2>1, ItemsKeep, MaterialsKeep DEF DrawnOK
  <2>2. CASE i \notin DOMAIN items
    <3>1. PICK t \in Threads : PersistContent(t)
      BY <2>2, ItemsChange DEF UpdateContent, SetContentStatus
    <3>2. items' = Created(Target(threads[t].job), threads[t].seen.part)
      BY <2>2, <3>1 DEF PersistContent, Appended
    <3>3. items'[i].target = Target(threads[t].job)
      BY <2>2, <3>2 DEF Created
    <3> QED
      BY <1>1, <3>1, <3>3
  <2> QED
    BY <2>1, <2>2
<1>3. ASSUME NEW q \in questions' PROVE materials'[Target(q.job)] > 0
  <2>1. ASSUME NEW p \in questions, p.job = q.job PROVE materials'[Target(q.job)] > 0
    <3>1. materials[Target(p.job)] > 0 /\ Target(p.job) \in Targets
      BY <1>0, TargetIn DEF DrawnOK, IInv
    <3> QED
      BY <2>1, <3>1, MaterialsKeep
  <2>2. ASSUME NEW t \in Threads, PersistQuestions(t) PROVE materials'[Target(q.job)] > 0
    <3> DEFINE new == [id |-> FreshId, job |-> threads[t].job, touched |-> FALSE]
    <3>1. q \in questions \/ q = new
      BY <2>2 DEF PersistQuestions
    <3>2. new.job = threads[t].job
      OBVIOUS
    <3> HIDE DEF new
    <3> QED
      BY <1>1, <2>1, <2>2, <3>1, <3>2
  <2>3. ASSUME NEW p \in questions, TouchQuestion(p) PROVE materials'[Target(q.job)] > 0
    <3>1. p.job = [p EXCEPT !.touched = TRUE].job
      BY <1>0
    <3> QED
      BY <2>1, <2>3, <3>1 DEF TouchQuestion
  <2> QED
    BY <2>1, <2>2, <2>3, QuestionsChange DEF vars, results
<1> QED
  BY <1>0, <1>2, <1>3 DEF DrawnOK

LEMMA CancelsStep ==
  ASSUME IInv, SInv, [Next]_vars
  PROVE  CancelsOK'
<1> DEFINE Fine(q) == q.op = "cancel" => q.next \in {"cancelled", "cancelling"}
<1>0. (\A r \in Requests : Fine(requests[r])) /\ requests = [r \in Requests |-> requests[r]]
  BY DEF SInv, CancelsOK, IInv, RequestsOK
<1>1. CASE requests' = requests
  BY <1>0, <1>1 DEF CancelsOK
<1>2. ASSUME NEW r \in Requests, NEW next, Goto(r, next), Fine(next) PROVE CancelsOK'
  BY <1>0, <1>2 DEF Goto, CancelsOK
<1>3. Fine(Idle)
  BY DEF Idle
<1>4. ASSUME NEW r \in Requests, Request(r) PROVE CancelsOK'
  <2>1. CASE End(r)
    BY <1>2, <1>3, <2>1 DEF End
  <2>2. CASE RequestInsert(r) \/ RetryRequeue(r) \/ RequestMark(r)
    <3>1. requests[r].op \in {"generate", "retry"}
      BY <2>2 DEF RequestInsert, RetryRequeue, RequestMark
    <3>2. requests[r] # Idle /\ {"op", "job"} \subseteq DOMAIN requests[r]
      BY <3>1 DEF Idle, IInv, RequestsOK, RequestOK
    <3>3. End(r) \/ \E stage : Goto(r, [requests[r] EXCEPT !.stage = stage])
      BY <2>2 DEF RequestInsert, RetryRequeue, RequestMark
    <3>4. ASSUME NEW stage, Goto(r, [requests[r] EXCEPT !.stage = stage]) PROVE CancelsOK'
      <4> DEFINE next == [requests[r] EXCEPT !.stage = stage]
      <4>1. next.op = requests[r].op
        BY <3>2
      <4>2. Fine(next)
        BY <3>1, <4>1
      <4> HIDE DEF Fine
      <4> QED
        BY <1>2, <3>4, <4>2
    <3> QED
      BY <2>1, <3>3, <3>4
  <2>4. ASSUME NEW j \in Rows, NEW act, ReviewRead(r, j, act) PROVE CancelsOK'
    BY <1>2, <2>4 DEF ReviewRead
  <2>3. ASSUME NEW j \in Rows, RequestRead(r, j) \/ CancelRead(r, j) \/ RetryRead(r, j) PROVE CancelsOK'
    <3>1. CASE RequestRead(r, j)
      BY <1>2, <3>1 DEF RequestRead
    <3>2. CASE CancelRead(r, j)
      <4> DEFINE next == [op |-> "cancel", job |-> j, next |-> NextStatus(jobs[j].status)]
      <4>1. Goto(r, next) /\ Fine(next)
        BY <3>2 DEF CancelRead, NextStatus
      <4> HIDE DEF next, Fine
      <4> QED
        BY <1>2, <4>1
    <3>3. CASE RetryRead(r, j)
      BY <1>2, <3>3 DEF RetryRead
    <3> QED
      BY <2>3, <3>1, <3>2, <3>3
  <2> QED
    BY <1>4, <2>1, <2>2, <2>3, <2>4 DEF Request, RequestPublish, RequestPublishFails, RequestDies, CancelWrite,
       ReviewWrite
<1>5. requests' = requests \/ \E r \in Requests : Request(r)
  <2>1. ASSUME NEW t \in Threads, ThreadStep(t) PROVE requests' = requests
    BY <2>1 DEF ThreadStep, Deliver, ReadStatus, Begin, Read, Ask, RunFails, Mark, Check, Settle,
                Unmark, Prepare, Complete, EnqueueDependent, SkipDependent, DependentsDone,
                PublishDependent, Fail, Ack, Persist, PersistQuestions, PersistContent, PersistContentFails,
                PersistAnswer, PersistStarter, PersistSyllabus, PersistBlueprint
  <2>2. ASSUME Crash \/ Boot \/ Teacher \/ \E t \in Threads : LoseConnection(t) PROVE requests' = requests
    BY <2>2 DEF Crash, LoseConnection, Boot, SweepRead, SweepReset, SweepRepublish, SweepResend, SweepDone,
                Teacher, TouchQuestion, UpdateContent, SetContentStatus, ConfirmSyllabus,
                ApprovePattern
  <2> QED
    BY <2>1, <2>2 DEF Next, vars
<1> QED
  BY <1>1, <1>4, <1>5

\* One job row is written: its status, and perhaps another field.
OneJob(status) ==
  \/ \E k : SetStatus(k, status)
  \/ \E k : \E b \in BOOLEAN : jobs' = [jobs EXCEPT ![k].status = status, ![k].started = b]
  \/ \E k : jobs' = [jobs EXCEPT ![k].status = status, ![k].dependent = TRUE]

\* Only a run that is complete writes completed.
LEMMA JobsMove ==
  ASSUME SInv, [Next]_vars
  PROVE  \/ jobs' = jobs
         \/ \E status \in Statuses \ {"none", "completed"} : OneJob(status)
         \/ \E t \in Threads : At(t, "complete") /\ SetStatus(threads[t].job, "completed")
<1>1. ASSUME NEW r \in Requests,
             RequestInsert(r) \/ RequestPublishFails(r) \/ CancelWrite(r) \/ RetryRequeue(r)
      PROVE  jobs' = jobs \/ \E status \in {"queued", "failed", "cancelled", "cancelling"} : OneJob(status)
  BY <1>1 DEF RequestInsert, RequestPublishFails, CancelWrite, RetryRequeue, SInv, CancelsOK, OneJob
<1>2. ASSUME NEW t \in Threads, Settle(t) \/ EnqueueDependent(t) \/ Fail(t) \/ Begin(t)
      PROVE  jobs' = jobs \/ \E status \in {"queued", "failed", "cancelled", "processing"} : OneJob(status)
  BY <1>2 DEF Settle, EnqueueDependent, Fail, Begin, OneJob
<1>3. ASSUME NEW j \in Rows, SweepReset(j) PROVE jobs' = jobs \/ OneJob("queued")
  BY <1>3 DEF SweepReset, OneJob
<1>4. ASSUME NEW t \in Threads, Complete(t)
      PROVE  At(t, "complete") /\ SetStatus(threads[t].job, "completed")
  BY <1>4 DEF Complete
<1>5. {"queued", "failed", "cancelled", "cancelling", "processing"} \subseteq Statuses \ {"none", "completed"}
  BY DEF Statuses
<1> HIDE DEF OneJob
<1> QED
  BY <1>1, <1>2, <1>3, <1>4, <1>5, JobsChange

\* What a row then is.
LEMMA JobWritten ==
  ASSUME jobs = [k \in Rows |-> jobs[k]],
         \A k \in Rows : DOMAIN jobs[k] = {"status", "started", "dependent"},
         NEW status, OneJob(status), NEW j \in Rows
  PROVE  /\ DOMAIN jobs' = Rows
         /\ \/ jobs'[j] = jobs[j]
            \/ /\ jobs'[j].status = status
               /\ DOMAIN jobs'[j] = {"status", "started", "dependent"}
               /\ jobs'[j].started = jobs[j].started \/ jobs'[j].started \in BOOLEAN
               /\ jobs'[j].dependent = jobs[j].dependent \/ jobs'[j].dependent = TRUE
<1> DEFINE Becomes(row) == /\ row.status = status
                           /\ DOMAIN row = {"status", "started", "dependent"}
                           /\ row.started = jobs[j].started \/ row.started \in BOOLEAN
                           /\ row.dependent = jobs[j].dependent \/ row.dependent = TRUE
<1>1. ASSUME NEW k, SetStatus(k, status) PROVE DOMAIN jobs' = Rows /\ (jobs'[j] = jobs[j] \/ Becomes(jobs'[j]))
  <2>1. Becomes([jobs[j] EXCEPT !.status = status])
    OBVIOUS
  <2>2. DOMAIN jobs' = Rows /\ (jobs'[j] = jobs[j] \/ jobs'[j] = [jobs[j] EXCEPT !.status = status])
    BY <1>1 DEF SetStatus
  <2> HIDE DEF Becomes
  <2> QED
    BY <2>1, <2>2
<1>2. ASSUME NEW k, NEW b \in BOOLEAN, jobs' = [jobs EXCEPT ![k].status = status, ![k].started = b]
      PROVE  DOMAIN jobs' = Rows /\ (jobs'[j] = jobs[j] \/ Becomes(jobs'[j]))
  <2>1. Becomes([jobs[j] EXCEPT !.status = status, !.started = b])
    OBVIOUS
  <2>2. DOMAIN jobs' = Rows /\ (jobs'[j] = jobs[j] \/ jobs'[j] = [jobs[j] EXCEPT !.status = status, !.started = b])
    BY <1>2
  <2> HIDE DEF Becomes
  <2> QED
    BY <2>1, <2>2
<1>3. ASSUME NEW k, jobs' = [jobs EXCEPT ![k].status = status, ![k].dependent = TRUE]
      PROVE  DOMAIN jobs' = Rows /\ (jobs'[j] = jobs[j] \/ Becomes(jobs'[j]))
  <2>1. Becomes([jobs[j] EXCEPT !.status = status, !.dependent = TRUE])
    OBVIOUS
  <2>2. DOMAIN jobs' = Rows /\ (jobs'[j] = jobs[j] \/ jobs'[j] = [jobs[j] EXCEPT !.status = status, !.dependent = TRUE])
    BY <1>3
  <2> HIDE DEF Becomes
  <2> QED
    BY <2>1, <2>2
<1> QED
  BY <1>1, <1>2, <1>3 DEF OneJob

LEMMA CompletedStep ==
  ASSUME IInv, SInv, [Next]_vars
  PROVE  CompletedIsStored'
<1>1. Rows' = Rows
  BY SameRows
<1>2. ASSUME NEW j \in Rows, jobs'[j].status = "completed" PROVE Stored(j)'
  <2>1. Stored(j)
    <3>1. CASE jobs[j].status = "completed"
      BY <3>1 DEF SInv, CompletedIsStored
    <3>2. CASE \E t \in Threads : At(t, "complete") /\ threads[t].job = j
      BY <3>2 DEF At, SInv, RunsOK, RunOK
    <3>3. jobs = [k \in Rows |-> jobs[k]] /\ \A k \in Rows : DOMAIN jobs[k] = {"status", "started", "dependent"}
      BY DEF IInv, JobsOK
    <3>4. ASSUME NEW t \in Threads, At(t, "complete"), SetStatus(threads[t].job, "completed"), jobs'[j] # jobs[j]
          PROVE  threads[t].job = j
      BY <3>3, <3>4 DEF SetStatus
    <3>5. \A status \in Statuses \ {"none", "completed"} : OneJob(status) => jobs'[j] = jobs[j]
      BY <1>2, <3>3, JobWritten
    <3> QED
      BY <1>2, <3>1, <3>2, <3>4, <3>5, JobsMove
  <2> QED
    BY <2>1, StoredKeep
<1> QED
  BY <1>1, <1>2 DEF CompletedIsStored

LEMMA InitSInv ==
  ASSUME Init
  PROVE  SInv
<1>1. QuestionsOK
  <2>1. NumberedTo(0)
    BY DEF Init, NumberedTo, Purging, Free
  <2> QED
    BY <2>1 DEF Init, QuestionsOK
<1>2. ItemsCounted
  <2>1. DOMAIN items = 1..0
    BY DEF Init
  <2> QED
    BY <2>1 DEF ItemsCounted
<1>3. SyllabiOK
  BY DEF Init, SyllabiOK
<1>4. PatternsOK
  BY DEF Init, PatternsOK
<1>5. RunsOK
  BY DEF Init, RunsOK, RunOK, Free
<1>6. CancelsOK
  BY DEF Init, CancelsOK, Idle
<1>7. CompletedIsStored
  BY DEF Init, CompletedIsStored
<1>8. ReviewsOK /\ DrawnOK
  BY DEF Init, ReviewsOK, DrawnOK
<1> QED
  BY <1>1, <1>2, <1>3, <1>4, <1>5, <1>6, <1>7, <1>8 DEF SInv

LEMMA AlwaysSInv == Spec => []SInv
<1>1. Init => SInv
  BY InitSInv
<1>2. IInv /\ SInv /\ [Next]_vars => SInv'
  BY QuestionsStep, CountStep, SyllabiStep, PatternsStep, CandidatesKeep, DrawnStep, RunsStep, CancelsStep,
     CompletedStep DEF SInv
<1> QED
  BY AlwaysIInv, <1>1, <1>2, PTL DEF Spec

\* Whatever requests, crashes, lost connections and other runs do around it, a job that is
\* completed has its result stored: complete_job follows the write of the result, and nothing
\* takes the last result of a job away.
THEOREM CompletedAlwaysStored == Spec => []CompletedIsStored
<1>1. SInv => CompletedIsStored
  BY DEF SInv
<1> QED
  BY AlwaysSInv, <1>1, PTL

\* Whatever becomes of a starter and its connection, what it enqueues is of a topic with a
\* material; and whoever asks for content or questions, none are stored of a topic without
\* one (_enqueue_dependents, _resolve_materials).
THEOREM DependentsAlwaysHaveMaterial == Spec => []DependentsHaveMaterial
<1>1. IInv /\ SInv => DependentsHaveMaterial
  BY DEF IInv, JobsOK, SInv, DrawnOK, DependentsHaveMaterial
<1> QED
  BY AlwaysIInv, AlwaysSInv, <1>1, PTL

-----------------------------------------------------------------------------
(* Type correctness.                                                       *)

BootStages == {"up", "processing", "reset", "resend", "queued", "republish"}
TInv ==
  /\ jobs \in [Rows -> [status : Statuses, started : BOOLEAN, dependent : BOOLEAN]]
  /\ queue \in [Rows -> Nat]
  /\ boot.stage \in BootStages
  /\ faults \in 0..workload.faults /\ retries \in 0..workload.retries

LEMMA BoundsStep ==
  ASSUME IInv, TInv, [Next]_vars
  PROVE  faults' \in 0..workload'.faults /\ retries' \in 0..workload'.retries
<1>0. /\ workload.faults \in Nat /\ workload.retries \in Nat /\ workload' = workload
      /\ faults \in 0..workload.faults /\ retries \in 0..workload.retries
  BY AiJobsAssumption, FrameStep DEF IInv, TablesOK, IsWorkload, TInv
<1>1. /\ faults' = faults \/ (faults < workload.faults /\ faults' = faults + 1)
      /\ retries' = retries \/ (retries < workload.retries /\ retries' = retries + 1)
  <2>1. ASSUME NEW r \in Requests, Request(r)
        PROVE  faults' = faults /\ (retries' = retries \/ (retries < workload.retries /\ retries' = retries + 1))
    BY <2>1 DEF Request, RequestInsert, RequestMark, RequestPublish, RequestPublishFails, RequestDies,
                CancelWrite, RetryRequeue, RequestRead, CancelRead, RetryRead, ReviewRead, ReviewWrite
  <2>2. ASSUME NEW t \in Threads, ThreadStep(t) PROVE faults' = faults /\ retries' = retries
    BY <2>2 DEF ThreadStep, Deliver, ReadStatus, Begin, Read, Ask, RunFails, Mark, Check, Settle,
                Unmark, Prepare, Complete, EnqueueDependent, SkipDependent, DependentsDone,
                PublishDependent, Fail, Ack, Persist, PersistQuestions, PersistContent, PersistContentFails,
                PersistAnswer, PersistStarter, PersistSyllabus, PersistBlueprint
  <2>3. ASSUME Boot \/ Teacher PROVE faults' = faults /\ retries' = retries
    BY <2>3 DEF Boot, SweepRead, SweepReset, SweepRepublish, SweepResend, SweepDone,
                Teacher, TouchQuestion, UpdateContent, SetContentStatus, ConfirmSyllabus,
                ApprovePattern
  <2>4. ASSUME Crash \/ \E t \in Threads : LoseConnection(t)
        PROVE  faults < workload.faults /\ faults' = faults + 1 /\ retries' = retries
    BY <2>4 DEF Crash, LoseConnection
  <2> QED
    BY <2>1, <2>2, <2>3, <2>4 DEF Next, vars
<1> QED
  BY <1>0, <1>1

LEMMA QueueStep ==
  ASSUME IInv, TInv, [Next]_vars
  PROVE  queue' \in [Rows -> Nat]
<1>0. queue \in [Rows -> Nat]
  BY DEF TInv
<1>1. ASSUME NEW r \in Requests, Request(r) PROVE queue' = queue \/ \E j : Send(j)
  BY <1>1 DEF Request, RequestInsert, RequestMark, RequestPublish, RequestPublishFails, RequestDies,
              CancelWrite, RetryRequeue, RequestRead, CancelRead, RetryRead, ReviewRead, ReviewWrite
<1>2. ASSUME NEW t \in Threads, ThreadStep(t)
      PROVE  queue' = queue \/ (\E j : Send(j)) \/ \E j \in Rows : Deliver(t, j)
  BY <1>2 DEF ThreadStep, ReadStatus, Begin, Read, Ask, RunFails, Mark, Check, Settle,
              Unmark, Prepare, Complete, EnqueueDependent, SkipDependent, DependentsDone,
              PublishDependent, Fail, Ack, Persist, PersistQuestions, PersistContent, PersistContentFails,
              PersistAnswer, PersistStarter, PersistSyllabus, PersistBlueprint
<1>3. ASSUME Boot \/ Teacher \/ \E t \in Threads : LoseConnection(t) PROVE queue' = queue \/ \E j : Send(j)
  BY <1>3 DEF LoseConnection, Boot, SweepRead, SweepReset, SweepRepublish, SweepResend, SweepDone,
              Teacher, TouchQuestion, UpdateContent, SetContentStatus, ConfirmSyllabus,
              ApprovePattern
<1>4. ASSUME NEW j, Send(j) PROVE queue' \in [Rows -> Nat]
  <2>1. j \in Rows => queue[j] + 1 \in Nat
    BY <1>0
  <2>2. queue' = [queue EXCEPT ![j] = queue[j] + 1]
    BY <1>4 DEF Send
  <2> QED
    BY <1>0, <2>1, <2>2
<1>5. ASSUME NEW t \in Threads, NEW j \in Rows, Deliver(t, j) PROVE queue' \in [Rows -> Nat]
  <2>1. queue[j] \in Nat /\ queue[j] > 0 /\ queue' = [queue EXCEPT ![j] = @ - 1]
    BY <1>0, <1>5 DEF Deliver
  <2> QED
    BY <1>0, <2>1
<1>6. CASE Crash
  <2> DEFINE Held(j) == {t \in Threads : Holding(t) /\ threads[t].job = j}
  <2>1. IsFiniteSet(Threads)
    <3>1. workload.threads \in Nat
      BY AiJobsAssumption DEF IInv, TablesOK, IsWorkload
    <3> QED
      BY <3>1, FS_Interval DEF Threads
  <2>2. ASSUME NEW j \in Rows PROVE queue[j] + Cardinality(Held(j)) \in Nat
    <3>1. Held(j) \in SUBSET Threads
      OBVIOUS
    <3> HIDE DEF Held
    <3>2. Cardinality(Held(j)) \in Nat
      BY <2>1, <3>1, FS_Subset, FS_CardinalityType
    <3>3. queue[j] \in Nat
      BY <1>0
    <3> QED
      BY <3>2, <3>3
  <2>3. queue' = [j \in Rows |-> queue[j] + Cardinality(Held(j))]
    BY <1>6 DEF Crash
  <2> HIDE DEF Held
  <2> QED
    BY <2>2, <2>3
<1>7. \/ queue' = queue \/ (\E j : Send(j))
      \/ (\E t \in Threads : \E j \in Rows : Deliver(t, j)) \/ Crash
  BY <1>1, <1>2, <1>3 DEF Next, vars
<1> QED
  BY <1>0, <1>4, <1>5, <1>6, <1>7

LEMMA BootStageStep ==
  ASSUME IInv, TInv, [Next]_vars
  PROVE  boot'.stage \in BootStages
<1>1. ASSUME NEW r \in Requests, Request(r) PROVE boot' = boot
  BY <1>1 DEF Request, RequestInsert, RequestMark, RequestPublish, RequestPublishFails, RequestDies,
              CancelWrite, RetryRequeue, RequestRead, CancelRead, RetryRead, ReviewRead, ReviewWrite
<1>2. ASSUME NEW t \in Threads, ThreadStep(t) PROVE boot' = boot
  BY <1>2 DEF ThreadStep, Deliver, ReadStatus, Begin, Read, Ask, RunFails, Mark, Check, Settle,
              Unmark, Prepare, Complete, EnqueueDependent, SkipDependent, DependentsDone,
              PublishDependent, Fail, Ack, Persist, PersistQuestions, PersistContent, PersistContentFails,
              PersistAnswer, PersistStarter, PersistSyllabus, PersistBlueprint
<1>3. ASSUME Teacher \/ \E t \in Threads : LoseConnection(t) PROVE boot' = boot
  BY <1>3 DEF LoseConnection, Teacher, TouchQuestion, UpdateContent, SetContentStatus,
              ConfirmSyllabus, ApprovePattern
<1>4. CASE Crash
  BY <1>4 DEF Crash, BootStages
<1>5. CASE SweepRead("processing", "reset", StaleProcessing) \/ SweepRead("queued", "republish", StaleQueued)
  BY <1>5 DEF SweepRead, BootStages
<1>6. ASSUME NEW j \in Rows, SweepReset(j) \/ SweepRepublish(j) PROVE boot'.stage \in BootStages
  <2>1. {"stage", "todo"} \subseteq DOMAIN boot
    BY <1>6 DEF SweepReset, SweepRepublish, IInv, BootOK
  <2> QED
    BY <1>6, <2>1 DEF SweepReset, SweepRepublish, TInv, BootStages
<1>7. CASE SweepResend \/ SweepDone
  BY <1>7 DEF SweepResend, SweepDone, BootStages
<1> QED
  BY <1>1, <1>2, <1>3, <1>4, <1>5, <1>6, <1>7 DEF Next, Boot, vars, TInv

LEMMA JobsTyped ==
  ASSUME IInv, SInv, TInv, [Next]_vars
  PROVE  jobs' \in [Rows -> [status : Statuses, started : BOOLEAN, dependent : BOOLEAN]]
<1> DEFINE Row == [status : Statuses, started : BOOLEAN, dependent : BOOLEAN]
<1>0. /\ jobs \in [Rows -> Row]
      /\ jobs = [k \in Rows |-> jobs[k]]
      /\ \A k \in Rows : DOMAIN jobs[k] = {"status", "started", "dependent"}
  BY DEF TInv, IInv, JobsOK
<1>1. ASSUME NEW status \in Statuses, OneJob(status) PROVE jobs' \in [Rows -> Row]
  <2>1. jobs' = [k \in DOMAIN jobs' |-> jobs'[k]]
    BY <1>1 DEF OneJob, SetStatus
  <2>2. ASSUME NEW j \in Rows PROVE DOMAIN jobs' = Rows /\ jobs'[j] \in Row
    <3>1. jobs[j] \in Row /\ jobs[j].started \in BOOLEAN /\ jobs[j].dependent \in BOOLEAN
      BY <1>0
    <3>2. /\ DOMAIN jobs' = Rows
          /\ \/ jobs'[j] = jobs[j]
             \/ /\ jobs'[j].status = status
                /\ DOMAIN jobs'[j] = {"status", "started", "dependent"}
                /\ jobs'[j].started = jobs[j].started \/ jobs'[j].started \in BOOLEAN
                /\ jobs'[j].dependent = jobs[j].dependent \/ jobs'[j].dependent = TRUE
      BY <1>0, <1>1, JobWritten
    <3>3. jobs'[j] = jobs[j] \/ jobs'[j] = [f \in DOMAIN jobs'[j] |-> jobs'[j][f]]
      BY <1>0, <1>1, <3>1 DEF OneJob, SetStatus
    <3> QED
      BY <3>1, <3>2, <3>3
  <2>3. DOMAIN jobs' = Rows
    BY <1>0, <1>1 DEF OneJob, SetStatus
  <2> HIDE DEF Row
  <2> QED
    BY <2>1, <2>2, <2>3
<1>2. \A t \in Threads : SetStatus(threads[t].job, "completed") => OneJob("completed")
  BY DEF OneJob
<1>3. "completed" \in Statuses
  BY DEF Statuses
<1> QED
  BY <1>0, <1>1, <1>2, <1>3, JobsMove

LEMMA AlwaysTInv == Spec => []TInv
<1>1. Init => TInv
  <2> SUFFICES ASSUME Init PROVE TInv
    OBVIOUS
  <2>1. workload.faults \in Nat /\ workload.retries \in Nat
    BY AiJobsAssumption DEF Init, IsWorkload
  <2>2. faults \in 0..workload.faults /\ retries \in 0..workload.retries
    BY <2>1 DEF Init
  <2>3. jobs \in [Rows -> [status : Statuses, started : BOOLEAN, dependent : BOOLEAN]]
    BY DEF Init, Statuses
  <2>4. queue \in [Rows -> Nat] /\ boot.stage \in BootStages
    BY DEF Init, BootStages
  <2> QED
    BY <2>2, <2>3, <2>4 DEF TInv
<1>2. IInv /\ SInv /\ TInv /\ [Next]_vars => TInv'
  <2> SUFFICES ASSUME IInv, SInv, TInv, [Next]_vars PROVE TInv'
    OBVIOUS
  <2>1. Rows' = Rows
    BY SameRows
  <2> QED
    BY <2>1, JobsTyped, BoundsStep, QueueStep, BootStageStep DEF TInv
<1> QED
  BY AlwaysIInv, AlwaysSInv, <1>1, <1>2, PTL DEF Spec

\* Every variable keeps its type; what the counters of a workload allow is never exceeded, and
\* items are numbered without a gap.
THEOREM TypeCorrect == Spec => []TypeOK
<1>1. IInv /\ SInv /\ TInv => TypeOK
  <2> SUFFICES ASSUME IInv, SInv, TInv PROVE TypeOK
    OBVIOUS
  <2>1. jobs \in [Rows -> [status : Statuses, started : BOOLEAN, dependent : BOOLEAN]] /\ queue \in [Rows -> Nat]
    BY DEF TInv
  <2>2. DOMAIN threads = Threads /\ DOMAIN requests = Requests
    BY DEF IInv, ThreadsOK, RequestsOK
  <2>3. \A t \in Threads : threads[t].stage \in Stages /\ (threads[t] # Free => threads[t].job \in Rows)
    <3> TAKE t \in Threads
    <3>1. ThreadOK(threads[t]) /\ RunOK(threads[t])
      BY DEF IInv, ThreadsOK, SInv, RunsOK
    <3> QED
      BY <3>1 DEF ThreadOK, IsWork, IsRow, Free, RunOK, Stages
  <2>4. DOMAIN items = 1..Cardinality(DOMAIN items)
    BY FS_Interval DEF SInv, ItemsCounted
  <2>5. \A x \in Targets : materials[x] \in Nat
    BY DEF IInv, TablesOK
  <2>6. workload \in Workloads /\ questions \subseteq [id : Nat, job : Rows, touched : BOOLEAN]
    BY DEF IInv, TablesOK, SInv, QuestionsOK
  <2> QED
    BY <2>1, <2>2, <2>3, <2>4, <2>5, <2>6 DEF TInv, TypeOK, BootStages
<1> QED
  BY AlwaysIInv, AlwaysSInv, AlwaysTInv, <1>1, PTL
-----------------------------------------------------------------------------
(* A worker of one thread stores each result once.                         *)

OneSet ==
  \A p \in questions : \A q \in questions : p.job = q.job /\ ~p.touched /\ ~q.touched => p = q
Alike(i, k) == items[i].target = items[k].target /\ items[i].type = items[k].type
Own(i) == items[i].live /\ ~items[i].set
OneItem == \A i, k \in DOMAIN items : Own(i) /\ Own(k) /\ Alike(i, k) => i = k
OneMaterial == \A x \in Targets : materials[x] <= 1

\* What the thread has read is still so when it writes: no other thread has written since.
ReadsAll(w) == \A q \in questions : q.job = w.job /\ ~q.touched => q \in w.seen.read
ReadsItem(w) ==
  w.seen.read.item = Null =>
    \A i \in DOMAIN items : Own(i) => ~(items[i].target = Target(w.job) /\ items[i].type = w.seen.part)
ReadsMaterial(w) == w.seen.read \/ materials[Target(w.job)] = 0
ReadNow(w) ==
  w.stage = "persist" =>
    /\ Kind(w.job) = "questions" => ReadsAll(w)
    /\ Kind(w.job) = "content" => ReadsItem(w)
    /\ Kind(w.job) = "starter" => ReadsMaterial(w)

OInv == workload.threads = 1 =>
          OneSet /\ OneItem /\ OneMaterial /\ \A t \in Threads : ReadNow(threads[t])

LEMMA OneSetStep ==
  ASSUME IInv, SInv, OInv, [Next]_vars, workload.threads = 1
  PROVE  OneSet'
<1>0. OneSet /\ (\A t \in Threads : ReadNow(threads[t])) /\ questions \subseteq [id : Nat, job : Rows, touched : BOOLEAN]
  BY DEF OInv, SInv, QuestionsOK
<1>1. CASE questions' = questions
  BY <1>0, <1>1 DEF OneSet
<1>2. ASSUME NEW t \in Threads, PersistQuestions(t) PROVE OneSet'
  <2> DEFINE w == threads[t]
             new == [id |-> FreshId, job |-> w.job, touched |-> FALSE]
  <2>1. w.stage = "persist" /\ Kind(w.job) = "questions"
    BY <1>2 DEF PersistQuestions, Persisting, At
  <2>2. \A q \in questions : q.job = w.job /\ ~q.touched => q \in w.seen.read
    BY <1>0, <2>1 DEF ReadNow, ReadsAll
  <2>3. questions' = (questions \ w.seen.read) \cup {new} /\ new.job = w.job
    BY <1>2 DEF PersistQuestions
  <2> HIDE DEF new
  <2> QED
    BY <1>0, <2>2, <2>3 DEF OneSet
<1>3. ASSUME NEW q \in questions, TouchQuestion(q) PROVE OneSet'
  <2> DEFINE new == [q EXCEPT !.touched = TRUE]
  <2>1. new.touched
    BY <1>0
  <2>2. questions' = (questions \ {q}) \cup {new}
    BY <1>3 DEF TouchQuestion
  <2> HIDE DEF new
  <2> QED
    BY <1>0, <2>1, <2>2 DEF OneSet
<1> QED
  BY <1>1, <1>2, <1>3, QuestionsChange DEF vars, results

LEMMA OneMaterialStep ==
  ASSUME IInv, OInv, [Next]_vars, workload.threads = 1
  PROVE  OneMaterial'
<1>0. OneMaterial /\ (\A t \in Threads : ReadNow(threads[t])) /\ materials \in [Targets -> Nat]
  BY DEF OInv, IInv, TablesOK
<1>1. CASE materials' = materials
  BY <1>0, <1>1 DEF OneMaterial
<1>2. ASSUME NEW t \in Threads, PersistStarter(t) PROVE OneMaterial'
  <2> DEFINE w == threads[t]
  <2>1. w.stage = "persist" /\ Kind(w.job) = "starter"
    BY <1>2 DEF PersistStarter, Persisting, At
  <2>2. w.seen.read \/ materials[Target(w.job)] = 0
    BY <1>0, <2>1 DEF ReadNow, ReadsMaterial
  <2>3. materials' = [materials EXCEPT ![Target(w.job)] = IF w.seen.read THEN @ ELSE @ + 1]
    BY <1>2 DEF PersistStarter
  <2> QED
    BY <1>0, <2>2, <2>3 DEF OneMaterial
<1> QED
  BY <1>1, <1>2, MaterialsChange

\* Items stay one of each topic and type as long as none becomes live on its own.
LEMMA NoneRevived ==
  ASSUME OneItem, DOMAIN items' = DOMAIN items,
         \A k \in DOMAIN items : /\ items'[k].target = items[k].target /\ items'[k].type = items[k].type
                                 /\ items'[k].live /\ ~items'[k].set => Own(k)
  PROVE  OneItem'
BY DEF OneItem, Own, Alike

\* A status that a teacher sets is not the item's own; an edit leaves it as it is.
LEMMA EditedItem ==
  ASSUME IInv, NEW i \in DOMAIN items, UpdateContent(i) \/ SetContentStatus(i)
  PROVE  /\ DOMAIN items' = DOMAIN items
         /\ \A k \in DOMAIN items : /\ items'[k].target = items[k].target /\ items'[k].type = items[k].type
                                    /\ items'[k].live /\ ~items'[k].set => Own(k)
<1>0. \A k \in DOMAIN items : DOMAIN items[k] = {"target", "type", "live", "current", "versions", "rows", "edits", "set"}
  BY DEF IInv, TablesOK, ItemsOK
<1>1. CASE UpdateContent(i)
  <2>1. PICK n, S, m, e : items' = [items EXCEPT ![i].current = n, ![i].versions = S, ![i].rows = m, ![i].edits = e]
    BY <1>1 DEF UpdateContent
  <2> QED
    BY <1>0, <2>1 DEF Own
<1>2. CASE SetContentStatus(i)
  <2>1. PICK l, e : items' = [items EXCEPT ![i].live = l, ![i].set = TRUE, ![i].edits = e]
    BY <1>2 DEF SetContentStatus
  <2> QED
    BY <1>0, <2>1 DEF Own
<1> QED
  BY <1>1, <1>2

LEMMA OneItemStep ==
  ASSUME IInv, SInv, OInv, [Next]_vars, workload.threads = 1
  PROVE  OneItem'
<1>0. /\ OneItem /\ (\A t \in Threads : ReadNow(threads[t]))
      /\ \A i \in DOMAIN items : DOMAIN items[i] = {"target", "type", "live", "current", "versions", "rows", "edits", "set"}
  BY DEF OInv, IInv, TablesOK, ItemsOK
<1>1. CASE items' = items
  BY <1>0, <1>1 DEF OneItem, Own, Alike
<1>2. ASSUME NEW t \in Threads, PersistContent(t) PROVE OneItem'
  <2> DEFINE w == threads[t]
  <2>1. w.stage = "persist" /\ Kind(w.job) = "content" /\ IsWork(w)
    BY <1>2, Working DEF PersistContent, Persisting, At
  <2>2. ReadsItem(w)
    BY <1>0, <2>1 DEF ReadNow
  <2>3. CASE w.seen.read.item = Null /\ items' = Created(Target(w.job), w.seen.part)
    <3>1. PICK n \in Nat :
             /\ DOMAIN items = 1..n /\ DOMAIN items' = 1..(n + 1)
             /\ \A k \in DOMAIN items : items'[k] = items[k]
             /\ items'[n + 1] = [target |-> Target(w.job), type |-> w.seen.part, live |-> TRUE, current |-> 1,
                                 versions |-> {1}, rows |-> 1, edits |-> 0, set |-> FALSE]
      BY <2>3, CreatedNext DEF SInv
    <3>2. items'[n + 1].target = Target(w.job) /\ items'[n + 1].type = w.seen.part
      BY <3>1
    <3>3. \A i \in DOMAIN items : Own(i) => ~(items[i].target = Target(w.job) /\ items[i].type = w.seen.part)
      BY <2>2, <2>3 DEF ReadsItem
    <3>4. \A i \in DOMAIN items' : i \in DOMAIN items \/ i = n + 1
      BY <3>1
    <3>5. DOMAIN items \subseteq DOMAIN items' /\ n + 1 \in DOMAIN items'
      BY <3>1
    <3>6. \A k \in DOMAIN items : items'[k] = items[k]
      BY <3>1
    <3> QED
      BY <1>0, <3>2, <3>3, <3>4, <3>5, <3>6 DEF OneItem, Own, Alike
  <2>4. CASE /\ w.seen.read.item # Null
             /\ \E version : items' = Appended(w.seen.read.item, version)
    <3> DEFINE a == w.seen.read.item
    <3>1. a \in DOMAIN items
      BY <2>1, <2>4 DEF IsWork
    <3>2. PICK version : items' = Appended(a, version)
      BY <2>4
    <3>3. ASSUME NEW k \in DOMAIN items
          PROVE  /\ items'[k].target = items[k].target /\ items'[k].type = items[k].type
                 /\ items'[k].live /\ ~items'[k].set => Own(k)
      <4>1. \/ items'[k] = [items[k] EXCEPT !.current = version, !.versions = items[a].versions \cup {version}, !.rows = items[a].rows + 1]
            \/ items'[k] = [items[k] EXCEPT !.live = FALSE]
            \/ items'[k] = items[k]
        BY <3>1, <3>2 DEF Appended
      <4> QED
        BY <1>0, <4>1 DEF Own
    <3>4. DOMAIN items' = DOMAIN items
      BY <3>2 DEF Appended
    <3> QED
      BY <1>0, <3>3, <3>4, NoneRevived
  <2> QED
    BY <1>2, <2>3, <2>4 DEF PersistContent
<1>3. ASSUME NEW i \in DOMAIN items, UpdateContent(i) \/ SetContentStatus(i) PROVE OneItem'
  BY <1>0, <1>3, EditedItem, NoneRevived
<1> QED
  BY <1>1, <1>2, <1>3, ItemsChange

LEMMA ReadNowStep ==
  ASSUME IInv, SInv, OInv, [Next]_vars, workload.threads = 1, NEW t \in Threads
  PROVE  ReadNow(threads[t])'
<1>0. /\ \A u \in Threads : u = t
      /\ questions \subseteq [id : Nat, job : Rows, touched : BOOLEAN]
      /\ \A i \in DOMAIN items : DOMAIN items[i] = {"target", "type", "live", "current", "versions", "rows", "edits", "set"}
      /\ ReadNow(threads[t])
  BY DEF Threads, SInv, QuestionsOK, IInv, TablesOK, ItemsOK, OInv
<1>1. PICK w : w = threads'[t]
  OBVIOUS
<1>2. Kind(w.job)' = Kind(w.job) /\ Target(w.job)' = Target(w.job)
  BY SameRows
<1>3. CASE w.stage # "persist"
  BY <1>1, <1>3 DEF ReadNow
<1>4. CASE w.stage = "persist" /\ ~ReadsFirst(Kind(w.job))
  BY <1>1, <1>2, <1>4 DEF ReadNow, ReadsFirst
<1>5. CASE w.stage = "persist" /\ Prepare(t)
  <2>1. PICK part : \E read \in Prepared(threads[t].job, part) :
           w.job = threads[t].job /\ w.seen = [part |-> part, read |-> read]
    BY <1>1, <1>5, WasPrepared
  <2>2. PICK read \in Prepared(w.job, part) : w.seen = [part |-> part, read |-> read]
    BY <2>1
  <2>3. w.seen.part = part /\ w.seen.read = read /\ UNCHANGED results
    BY <1>5, <2>2, WasPrepared
  <2>4. Kind(w.job) = "questions" => ReadsAll(w)
    BY <2>2, <2>3 DEF Prepared, Purged, Untouched, GeneratedBy, ReadsAll
  <2>5. Kind(w.job) = "starter" => ReadsMaterial(w)
    <3>1. Kind(w.job) = "starter" /\ ~read => ~(materials[Target(w.job)] > 0)
      BY <2>2 DEF Prepared
    <3>2. w.job \in Rows /\ materials \in [Targets -> Nat]
      BY <1>5, <2>1, Working DEF Prepare, At, IInv, TablesOK
    <3>3. materials[Target(w.job)] \in Nat
      BY <3>2, TargetIn DEF IInv
    <3> QED
      BY <2>3, <3>1, <3>3 DEF ReadsMaterial
  <2>6. ASSUME Kind(w.job) = "content" PROVE ReadsItem(w)
    <3> DEFINE live == LiveItems(Target(w.job), part)
    <3>1. CASE live = {}
      <4>1. read = [item |-> Null, current |-> 0]
        BY <2>2, <2>6, <3>1 DEF Prepared
      <4>2. read.item = Null
        BY <4>1
      <4>3. \A i \in DOMAIN items : Own(i) => ~(items[i].target = Target(w.job) /\ items[i].type = part)
        BY <3>1 DEF Own, LiveItems
      <4> QED
        BY <2>3, <4>2, <4>3 DEF ReadsItem
    <3>2. CASE live # {}
      <4>1. PICK i \in live : read = [item |-> i, current |-> items[i].current]
        BY <2>2, <2>6, <3>2 DEF Prepared, Newest
      <4>2. read.item = i /\ i \in DOMAIN items
        BY <4>1 DEF LiveItems
      <4>3. i # Null
        BY <4>2, AiJobsAssumption DEF SInv, ItemsCounted
      <4> QED
        BY <2>3, <4>2, <4>3 DEF ReadsItem
    <3> QED
      BY <3>1, <3>2
  <2>7. ReadNow(w)
    BY <2>4, <2>5, <2>6 DEF ReadNow
  <2>8. ReadNow(w)'
    BY <1>2, <2>3, <2>7 DEF ReadNow, ReadsAll, ReadsItem, Own, ReadsMaterial, results
  <2> QED
    BY <1>1, <2>8 DEF ReadNow, ReadsAll, ReadsItem, Own, ReadsMaterial
<1>6. CASE /\ w.stage = "persist" /\ ~ThreadStep(t) /\ threads[t].stage = "persist"
           /\ w.job = threads[t].job /\ w.seen = threads[t].seen
  <2>1. /\ Kind(w.job) = "questions" => ReadsAll(w)
        /\ Kind(w.job) = "content" => ReadsItem(w)
        /\ Kind(w.job) = "starter" => ReadsMaterial(w)
    BY <1>0, <1>6 DEF ReadNow, ReadsAll, ReadsItem, ReadsMaterial
  <2>2. ~Persist(t)
    BY <1>6 DEF ThreadStep
  <2>3. ASSUME Kind(w.job) = "questions" PROVE ReadsAll(w)'
    <3>1. CASE questions' = questions
      BY <2>1, <2>3, <3>1 DEF ReadsAll
    <3>2. ASSUME NEW q \in questions, TouchQuestion(q) PROVE ReadsAll(w)'
      <4> DEFINE new == [q EXCEPT !.touched = TRUE]
      <4>1. questions' = (questions \ {q}) \cup {new} /\ new.touched
        BY <1>0, <3>2 DEF TouchQuestion
      <4> HIDE DEF new
      <4> QED
        BY <2>1, <2>3, <4>1 DEF ReadsAll
    <3> QED
      BY <1>0, <2>2, <3>1, <3>2, QuestionsChange DEF vars, results, Persist
  <2>4. ASSUME Kind(w.job) = "content" PROVE ReadsItem(w)'
    <3>1. CASE items' = items
      BY <1>2, <2>1, <2>4, <3>1 DEF ReadsItem, Own
    <3>2. ASSUME NEW i \in DOMAIN items, UpdateContent(i) \/ SetContentStatus(i) PROVE ReadsItem(w)'
      <4>1. /\ DOMAIN items' = DOMAIN items
            /\ \A k \in DOMAIN items : /\ items'[k].target = items[k].target /\ items'[k].type = items[k].type
                                       /\ items'[k].live /\ ~items'[k].set => Own(k)
        BY <3>2, EditedItem
      <4> QED
        BY <1>2, <2>1, <2>4, <4>1 DEF ReadsItem, Own
    <3> QED
      BY <1>0, <2>2, <3>1, <3>2, ItemsChange DEF Persist
  <2>5. ASSUME Kind(w.job) = "starter" PROVE ReadsMaterial(w)'
    <3>1. materials' = materials
      BY <1>0, <2>2, MaterialsChange DEF Persist
    <3> QED
      BY <1>2, <2>1, <2>5, <3>1 DEF ReadsMaterial
  <2>6. ReadNow(w)'
    BY <1>2, <2>3, <2>4, <2>5 DEF ReadNow
  <2> QED
    BY <1>1, <2>6 DEF ReadNow, ReadsAll, ReadsItem, Own, ReadsMaterial
<1> QED
  BY <1>1, <1>3, <1>4, <1>5, <1>6, ToPersist

\* One thread reads and writes a result with no other run in between, so a rerun replaces what
\* the last one left: one set of untouched questions for each job, at most one live item for each
\* topic and type beside those a teacher made active, one generated material for each topic.
THEOREM SerialRunsAlwaysStoreOnce == Spec => []SerialRunsStoreOnce
<1>1. Init => OInv
  <2> SUFFICES ASSUME Init PROVE OInv
    OBVIOUS
  <2>1. OneSet /\ OneItem
    BY DEF Init, OneSet, OneItem
  <2>2. OneMaterial
    BY DEF Init, OneMaterial
  <2>3. \A t \in Threads : ReadNow(threads[t])
    BY DEF Init, Free, ReadNow
  <2> QED
    BY <2>1, <2>2, <2>3 DEF OInv
<1>2. IInv /\ SInv /\ OInv /\ [Next]_vars => OInv'
  <2> SUFFICES ASSUME IInv, SInv, OInv, [Next]_vars, workload.threads = 1
               PROVE  OneSet' /\ OneItem' /\ OneMaterial' /\ \A t \in Threads' : ReadNow(threads[t])'
    BY FrameStep DEF OInv
  <2> QED
    BY OneSetStep, OneItemStep, OneMaterialStep, ReadNowStep, SameRows
<1>3. SInv /\ OInv => SerialRunsStoreOnce
  <2> SUFFICES ASSUME SInv, OInv, workload.threads = 1
               PROVE  /\ \A j \in Rows : Cardinality(Untouched(j)) <= 1
                      /\ \A i \in DOMAIN items :
                           Cardinality({k \in LiveItems(items[i].target, items[i].type) : ~items[k].set}) <= 1
                      /\ \A x \in Targets : materials[x] <= 1
    BY DEF SerialRunsStoreOnce
  <2>1. ASSUME NEW j \in Rows PROVE Cardinality(Untouched(j)) <= 1
    <3>1. Untouched(j) = {} \/ \E q \in questions : Untouched(j) = {q}
      BY DEF OInv, OneSet, Untouched, GeneratedBy
    <3>2. \A q : Cardinality({q}) = 1
      BY FS_Singleton
    <3> QED
      BY <3>1, <3>2, FS_EmptySet
  <2>2. ASSUME NEW i \in DOMAIN items
        PROVE  Cardinality({k \in LiveItems(items[i].target, items[i].type) : ~items[k].set}) <= 1
    <3>1. PICK S : S = {k \in LiveItems(items[i].target, items[i].type) : ~items[k].set}
      OBVIOUS
    <3>2. \A k, l \in S : k = l
      BY <3>1 DEF OInv, OneItem, Own, Alike, LiveItems
    <3>3. CASE S = {}
      BY <3>1, <3>3, FS_EmptySet
    <3>4. CASE \E k : k \in S
      <4>1. PICK k : k \in S
        BY <3>4
      <4>2. S = {k}
        BY <3>2, <4>1
      <4>3. Cardinality({k}) = 1
        BY FS_Singleton
      <4>4. Cardinality(S) = 1
        BY <4>2, <4>3
      <4> QED
        BY <3>1, <4>4
    <3> QED
      BY <3>3, <3>4
  <2> QED
    BY <2>1, <2>2 DEF OInv, OneMaterial
<1> QED
  BY AlwaysIInv, AlwaysSInv, <1>1, <1>2, <1>3, PTL DEF Spec
=============================================================================
