------------------------- MODULE OcrCoordinatorProof -------------------------
(***************************************************************************)
(* Proofs about OcrCoordinator: for every number of workers, requests,     *)
(* sweeps, jobs, pages and events, crashes of both processes included.     *)
(***************************************************************************)
EXTENDS OcrCoordinator, FiniteMaximum

-----------------------------------------------------------------------------
(* The inductive invariant, one part for each variable.                    *)

\* A row of ocr_chunks: its lease and its holder go with its status, and it knows the
\* document's page count or none.
RowOK(row) ==
  /\ row \in Row
  /\ row.status = "claimed" <=> row.by # NoWorker
  /\ row.status = "claimed" <=> row.lease # "none"
  /\ row.total \in {NoPages, ReportedTotal}

\* All rows of a job are of its newest chunk set.
ChunkOK ==
  /\ DOMAIN chunk = Jobs
  /\ \A j \in Jobs : DOMAIN chunk[j] \subseteq 1 .. LastIndex
                     /\ \A i \in DOMAIN chunk[j] : RowOK(chunk[j][i]) /\ chunk[j][i].gen = gen[j]

HasChunks(j) == DOMAIN chunk[j] # {}
Whole == material.text = AllPages

\* An active job has chunks, and a completed one its whole text.
JobOK ==
  /\ job \in [Jobs -> JobStatus]
  /\ \A j \in Jobs : job[j] \in {"processing", "cancelling"} => HasChunks(j)
  /\ \A j \in Jobs : job[j] = "completed" => Whole

MaterialOK ==
  /\ material \in [status : MaterialStatus, text : SUBSET AllPages]
  /\ material.status = "READY" => Whole

GenOK == gen \in [Jobs -> Nat]
BudgetOK == budget \in [Events -> Nat]
RegistryOK == registry \in [Workers -> [enabled : BOOLEAN, current : Ref \cup {NoRef}]]

\* A worker at work has a chunk.
WorkerRec ==
  [pc : {"idle", "extract", "submit", "fail", "wait", "down"}, ref : Ref \cup {NoRef},
   permanent : BOOLEAN]
AtWork(rec) == rec.pc \in {"extract", "submit", "fail", "wait"} => rec.ref \in Ref
WorkerOK == worker \in [Workers -> WorkerRec] /\ \A w \in Workers : AtWork(worker[w])

\* A worker waits for the answer of one call at most, and of no call when it does not wait.
WaitedFor(S) == \A c \in S : c.waiting => worker[c.worker].pc = "wait"
OneAnswer(S) == \A c, d \in S : c.waiting /\ d.waiting /\ c.worker = d.worker => c = d
CallOK(c) == c \in Call /\ c.total \in {NoPages, ReportedTotal}
CallsOK == (\A c \in calls : CallOK(c)) /\ WaitedFor(calls) /\ OneAnswer(calls)

\* What a request has read: a material status it may put back, and an active job only with
\* its chunks.
UserRec ==
  [pc : {"idle", "insert", "enqueue", "mark", "failing", "revert", "cancel", "requeue"},
   job : Jobs, seen : JobStatus \cup MaterialStatus]
RequestOK(rec) ==
  /\ rec \in UserRec
  /\ rec.pc \in {"insert", "enqueue", "mark", "failing", "revert"} => rec.seen \in {"UPLOADED", "QUEUED", "FAILED"}
  /\ rec.pc = "mark" => HasChunks(rec.job)
  /\ rec.pc = "cancel" => rec.seen = "queued" \/ HasChunks(rec.job)
UserOK == user \in [Users -> UserRec] /\ \A u \in Users : RequestOK(user[u])

\* What a sweep is about to publish is whole, and what it has published stays so.
SweepRec ==
  [pc : {"idle", "retry", "queued", "adopt", "enqueue", "mark", "settle", "cancel",
         "fail", "ready", "cancelled", "failed", "completed"},
   todo : SUBSET (Jobs \X JobStatus), job : Jobs, text : SUBSET AllPages]
RunOK(rec) ==
  /\ rec \in SweepRec
  /\ rec.pc = "mark" => HasChunks(rec.job)
  /\ rec.pc = "ready" => rec.text = AllPages
  /\ rec.pc = "completed" => Whole
SweepOK == sweep \in [Sweepers -> SweepRec] /\ \A s \in Sweepers : RunOK(sweep[s])

IInv ==
  /\ JobOK /\ ChunkOK /\ GenOK /\ MaterialOK /\ RegistryOK
  /\ WorkerOK /\ CallsOK /\ UserOK /\ SweepOK /\ BudgetOK

-----------------------------------------------------------------------------
(* Arithmetic of chunks.                                                   *)

LEMMA Numbers ==
  /\ MaxJobs \in Nat \ {0} /\ PageCount \in Nat \ {0} /\ ChunkSize \in Nat \ {0}
  /\ MaxAttempts \in Nat \ {0} /\ SinglePage \in BOOLEAN
  /\ LastIndex \in Nat \ {0} /\ 1 \in 1 .. LastIndex /\ 1 \in Jobs
  /\ NoPages \in Nat /\ ReportedTotal \in Nat /\ ReportedTotal \in {NoPages, PageCount}
  /\ NoWorker \notin Workers
<1>1. (PageCount - 1) \div ChunkSize \in Nat
  <2>1. ASSUME NEW p \in Nat, NEW c \in Nat \ {0} PROVE p \div c \in Nat
    OBVIOUS
  <2>2. PageCount - 1 \in Nat
    BY OcrAssumption
  <2> QED
    BY <2>1, <2>2, OcrAssumption
<1> QED
  BY <1>1, OcrAssumption DEF LastIndex, NoPages, ReportedTotal, Jobs

\* A product of the chunk size is not negative.
LEMMA Product ==
  ASSUME NEW a \in Nat, NEW b \in Nat
  PROVE  a * b \in Nat
OBVIOUS

LEMMA PagesIn ==
  ASSUME NEW i \in 1 .. LastIndex
  PROVE  PagesOf(i) \subseteq AllPages
<1>1. (i - 1) * ChunkSize \in Nat
  BY Numbers, Product
<1>2. StartPage(i) \in Nat /\ StartPage(i) >= 1
  BY <1>1 DEF StartPage
<1>3. EndPage(i) \in Nat
  <2>1. i * ChunkSize \in Nat
    BY Numbers, Product
  <2> QED
    BY <2>1, Numbers DEF EndPage
<1> QED
  BY <1>2, <1>3, Numbers DEF PagesOf, AllPages

\* A chunk that does not start behind the last page is one of the LastIndex.
LEMMA NextIn ==
  ASSUME NEW i \in 1 .. LastIndex, ~BeyondEnd(i + 1)
  PROVE  i + 1 \in 1 .. LastIndex
<1>1. i * ChunkSize \in Nat /\ i * ChunkSize <= PageCount - 1
  <2>1. i * ChunkSize \in Nat
    BY Numbers, Product
  <2>2. StartPage(i + 1) = i * ChunkSize + 1
    BY Numbers DEF StartPage
  <2>3. i * ChunkSize + 1 <= ReportedTotal
    BY <2>1, <2>2, Numbers DEF BeyondEnd
  <2> QED
    BY <2>1, <2>3, Numbers DEF NoPages
<1>2. ASSUME NEW p \in Nat, NEW c \in Nat \ {0}, NEW n \in Nat, n * c <= p
      PROVE  n <= p \div c
  <2>1. p \div c \in Nat /\ p < (p \div c + 1) * c
    OBVIOUS
  <2>2. CASE n >= p \div c + 1
    <3>1. n * c >= (p \div c + 1) * c
      BY <2>1, <2>2
    <3> QED
      BY <1>2, <2>1, <3>1
  <2> QED
    BY <2>1, <2>2
<1>3. i <= (PageCount - 1) \div ChunkSize
  BY <1>1, <1>2, Numbers
<1> QED
  BY <1>3, Numbers DEF LastIndex

-----------------------------------------------------------------------------
(* What the steps do to the rows.                                          *)

\* A chunk that is leased is not given to another worker, and no job loses its last chunk.
Handed(old, new) == old.lease = "live" => new.by \in {old.by, NoWorker}
Moves ==
  \A j \in Jobs :
    /\ HasChunks(j) => HasChunks(j)'
    /\ \A i \in DOMAIN chunk[j] \cap DOMAIN chunk'[j] :
         chunk'[j][i].gen = chunk[j][i].gen => Handed(chunk[j][i], chunk'[j][i])

\* A legal successor of a row.
Follows(old, new) == RowOK(new) /\ new.gen = old.gen /\ Handed(old, new)

LEMMA RowSame ==
  ASSUME NEW row, RowOK(row)
  PROVE  Follows(row, row)
BY DEF Follows, Handed

LEMMA RowReleased ==
  ASSUME NEW row, RowOK(row), NEW status \in ChunkStatus, status # "claimed"
  PROVE  /\ Follows(row, Released(row, status))
         /\ Released(row, status) \in Row
         /\ Released(row, status).by = NoWorker /\ Released(row, status).lease = "none"
         /\ Released(row, status).status = status
         /\ Released(row, status).total = row.total
BY Numbers DEF Follows, Handed, RowOK, Row, Released, Lease

LEMMA NewRowOK ==
  ASSUME NEW g \in Nat, NEW total \in {NoPages, ReportedTotal}
  PROVE  RowOK(NewRow(g, total)) /\ NewRow(g, total).gen = g
BY Numbers DEF RowOK, Row, NewRow, ChunkStatus, Lease

LEMMA ChunkSame ==
  ASSUME IInv, UNCHANGED <<chunk, gen>>
  PROVE  ChunkOK' /\ Moves
BY DEF IInv, ChunkOK, Moves, HasChunks, Handed

\* A statement that updates the one row it names.
LEMMA Update ==
  ASSUME IInv, NEW r \in Ref, NEW row, UpdateRow(r, row), UNCHANGED gen,
         Exists(r) => Follows(RowOf(r), row)
  PROVE  ChunkOK' /\ Moves
<1>1. CASE ~Exists(r)
  BY <1>1, ChunkSame DEF UpdateRow
<1>2. CASE Exists(r)
  <2>1. r.job \in Jobs /\ r.index \in DOMAIN chunk[r.job]
    BY <1>2 DEF Ref, Exists
  <2>2. chunk' = [chunk EXCEPT ![r.job] = [chunk[r.job] EXCEPT ![r.index] = row]]
    BY <1>2 DEF UpdateRow
  <2>3. ASSUME NEW j \in Jobs
        PROVE  /\ DOMAIN chunk'[j] = DOMAIN chunk[j]
               /\ \A i \in DOMAIN chunk[j] : Follows(chunk[j][i], chunk'[j][i])
    <3>1. CASE j = r.job
      <4>1. chunk'[j] = [chunk[j] EXCEPT ![r.index] = row]
        BY <2>1, <2>2, <3>1 DEF IInv, ChunkOK
      <4>2. ASSUME NEW i \in DOMAIN chunk[j] PROVE Follows(chunk[j][i], chunk'[j][i])
        <5>1. CASE i = r.index
          BY <1>2, <2>1, <3>1, <4>1, <5>1 DEF RowOf
        <5>2. CASE i # r.index
          BY <4>1, <5>2, RowSame DEF IInv, ChunkOK
        <5> QED
          BY <5>1, <5>2
      <4> QED
        BY <4>1, <4>2
    <3>2. CASE j # r.job
      <4>1. chunk'[j] = chunk[j]
        BY <2>1, <2>2, <3>2 DEF IInv, ChunkOK
      <4> QED
        BY <4>1, RowSame DEF IInv, ChunkOK
    <3> QED
      BY <3>1, <3>2
  <2>4. DOMAIN chunk' = Jobs
    BY <2>1, <2>2 DEF IInv, ChunkOK
  <2> QED
    BY <2>3, <2>4 DEF IInv, ChunkOK, Moves, HasChunks, Follows
<1> QED
  BY <1>1, <1>2

\* A statement that updates every row, or every row of a job.
LEMMA UpdateAll ==
  ASSUME IInv, UNCHANGED gen, DOMAIN chunk' = Jobs,
         \A j \in Jobs : /\ DOMAIN chunk'[j] = DOMAIN chunk[j]
                         /\ \A i \in DOMAIN chunk[j] : Follows(chunk[j][i], chunk'[j][i])
  PROVE  ChunkOK' /\ Moves
BY DEF IInv, ChunkOK, Moves, HasChunks, Follows

\* A chunk set built anew has rows of no earlier one.
LEMMA Reset ==
  ASSUME IInv, NEW j \in Jobs, ResetChunks(j)
  PROVE  ChunkOK' /\ Moves /\ HasChunks(j)' /\ GenOK' /\ MaterialOK'
<1> DEFINE rows == [i \in {1} |-> NewRow(gen[j] + 1, NoPages)]
<1>1. chunk' = [chunk EXCEPT ![j] = rows] /\ gen' = [gen EXCEPT ![j] = @ + 1]
  BY DEF ResetChunks
<1>2. gen[j] \in Nat /\ gen'[j] = gen[j] + 1 /\ GenOK'
  BY <1>1 DEF IInv, GenOK
<1>3. DOMAIN rows = {1} /\ \A i \in DOMAIN rows : RowOK(rows[i]) /\ rows[i].gen = gen'[j]
  BY <1>2, NewRowOK
<1>4. DOMAIN chunk' = Jobs /\ chunk'[j] = rows /\ \A k \in Jobs \ {j} : chunk'[k] = chunk[k] /\ gen'[k] = gen[k]
  BY <1>1 DEF IInv, ChunkOK, GenOK
<1> HIDE DEF rows
<1>5. ChunkOK'
  BY <1>3, <1>4, Numbers DEF IInv, ChunkOK
<1>6. HasChunks(j)'
  BY <1>3, <1>4 DEF HasChunks
<1>7. \A i \in DOMAIN chunk[j] \cap DOMAIN chunk'[j] : chunk'[j][i].gen # chunk[j][i].gen
  BY <1>2, <1>3, <1>4 DEF IInv, ChunkOK
<1>8. Moves
  BY <1>4, <1>6, <1>7 DEF Moves, HasChunks, Handed
<1>9. MaterialOK'
  BY DEF ResetChunks, SetMaterial, IInv, MaterialOK, MaterialStatus, Whole
<1> QED
  BY <1>2, <1>5, <1>6, <1>8, <1>9

\* A chunk that is appended.
LEMMA Appended ==
  ASSUME IInv, NEW j \in Jobs, NEW n \in 1 .. LastIndex, n \notin DOMAIN chunk[j],
         UNCHANGED gen,
         chunk' = [chunk EXCEPT ![j] = WithRow(chunk[j], n, NewRow(gen[j], ReportedTotal))]
  PROVE  ChunkOK' /\ Moves
<1>1. gen[j] \in Nat
  BY DEF IInv, GenOK
<1>2. /\ DOMAIN chunk'[j] = DOMAIN chunk[j] \cup {n}
      /\ \A i \in DOMAIN chunk[j] : chunk'[j][i] = chunk[j][i]
      /\ chunk'[j][n] = NewRow(gen[j], ReportedTotal)
  BY DEF IInv, ChunkOK, WithRow
<1>3. DOMAIN chunk' = Jobs /\ \A m \in Jobs \ {j} : chunk'[m] = chunk[m]
  BY DEF IInv, ChunkOK
<1>4. RowOK(chunk'[j][n]) /\ chunk'[j][n].gen = gen[j]
  BY <1>1, <1>2, NewRowOK
<1>5. DOMAIN chunk[j] \subseteq 1 .. LastIndex
      /\ \A i \in DOMAIN chunk[j] : RowOK(chunk[j][i]) /\ chunk[j][i].gen = gen[j]
  BY DEF IInv, ChunkOK
<1>6. DOMAIN chunk'[j] \subseteq 1 .. LastIndex
      /\ \A i \in DOMAIN chunk'[j] : RowOK(chunk'[j][i]) /\ chunk'[j][i].gen = gen[j]
  BY <1>2, <1>4, <1>5
<1>7. ChunkOK'
  BY <1>3, <1>6 DEF IInv, ChunkOK
<1>8. Moves
  BY <1>2, <1>3 DEF Moves, HasChunks, Handed
<1> QED
  BY <1>7, <1>8

-----------------------------------------------------------------------------
(* What the steps leave alone, and the single writes.                      *)

\* A step keeps the chunk sets and, once the text is whole, the text.
Keeps == Moves /\ (Whole => Whole')

LEMMA Frame ==
  ASSUME IInv, Keeps
  PROVE  /\ UNCHANGED job => JobOK'
         /\ UNCHANGED user => UserOK'
         /\ UNCHANGED sweep => SweepOK'
<1>1. \A j \in Jobs : HasChunks(j) => HasChunks(j)'
  BY DEF Keeps, Moves
<1>2. ASSUME UNCHANGED job PROVE JobOK'
  BY <1>1, <1>2 DEF IInv, JobOK, Keeps
<1>3. ASSUME UNCHANGED user PROVE UserOK'
  BY <1>1, <1>3 DEF IInv, UserOK, RequestOK, UserRec
<1>4. ASSUME UNCHANGED sweep PROVE SweepOK'
  BY <1>1, <1>4 DEF IInv, SweepOK, RunOK, SweepRec, Keeps
<1> QED
  BY <1>2, <1>3, <1>4

LEMMA Same ==
  ASSUME IInv
  PROVE  /\ UNCHANGED gen => GenOK'
         /\ UNCHANGED material => MaterialOK' /\ (Whole => Whole')
         /\ UNCHANGED registry => RegistryOK'
         /\ UNCHANGED worker => WorkerOK'
         /\ UNCHANGED <<worker, calls>> => CallsOK'
         /\ UNCHANGED budget => BudgetOK'
         /\ \A e \in Events : Spend(e) => BudgetOK'
<1>1. /\ UNCHANGED gen => GenOK'
      /\ UNCHANGED material => MaterialOK' /\ (Whole => Whole')
      /\ UNCHANGED registry => RegistryOK'
      /\ UNCHANGED budget => BudgetOK'
  BY DEF IInv, GenOK, MaterialOK, Whole, RegistryOK, BudgetOK
<1>2. /\ UNCHANGED worker => WorkerOK'
      /\ UNCHANGED <<worker, calls>> => CallsOK'
  BY DEF IInv, WorkerOK, AtWork, CallsOK, CallOK, WaitedFor, OneAnswer
<1>3. ASSUME NEW e \in Events, Spend(e) PROVE BudgetOK'
  BY <1>3 DEF IInv, BudgetOK, Spend
<1> QED
  BY <1>1, <1>2, <1>3

LEMMA JobSet ==
  ASSUME IInv, Keeps, NEW j \in Jobs, NEW status \in JobStatus, SetJob(j, status),
         status \in {"processing", "cancelling"} => HasChunks(j)',
         status = "completed" => Whole'
  PROVE  JobOK'
<1>1. job' = [k \in Jobs |-> IF k = j THEN status ELSE job[k]]
  BY DEF IInv, JobOK, SetJob
<1>2. \A k \in Jobs : HasChunks(k) => HasChunks(k)'
  BY DEF Keeps, Moves
<1> QED
  BY <1>1, <1>2 DEF IInv, JobOK, Keeps

LEMMA UserSet ==
  ASSUME IInv, Keeps, NEW u \in Users, NEW rec, RequestOK(rec)',
         user' = [user EXCEPT ![u] = rec]
  PROVE  UserOK'
<1>1. user' = [v \in Users |-> IF v = u THEN rec ELSE user[v]]
  BY DEF IInv, UserOK
<1>2. \A j \in Jobs : HasChunks(j) => HasChunks(j)'
  BY DEF Keeps, Moves
<1>3. ASSUME NEW v \in Users PROVE RequestOK(user[v])'
  BY <1>1, <1>2, <1>3 DEF IInv, UserOK, RequestOK, UserRec
<1> QED
  BY <1>1, <1>3 DEF UserOK, RequestOK

LEMMA UserEnds ==
  ASSUME IInv, Keeps, NEW u \in Users, EndUser(u)
  PROVE  UserOK'
<1>1. RequestOK(IdleUser)'
  BY Numbers DEF RequestOK, IdleUser, UserRec, JobStatus
<1> QED
  BY <1>1, UserSet DEF EndUser

LEMMA SweepSet ==
  ASSUME IInv, Keeps, NEW s \in Sweepers, NEW rec, RunOK(rec)', SetSweep(s, rec)
  PROVE  SweepOK'
<1>1. sweep' = [t \in Sweepers |-> IF t = s THEN rec ELSE sweep[t]]
  BY DEF IInv, SweepOK, SetSweep
<1>2. \A j \in Jobs : HasChunks(j) => HasChunks(j)'
  BY DEF Keeps, Moves
<1>3. ASSUME NEW t \in Sweepers PROVE RunOK(sweep[t])'
  BY <1>1, <1>2, <1>3 DEF IInv, SweepOK, RunOK, SweepRec, Keeps
<1> QED
  BY <1>1, <1>3 DEF SweepOK, RunOK

LEMMA SweepGoes ==
  ASSUME IInv, Keeps, NEW s \in Sweepers, NEW pc, GotoSweep(s, pc),
         pc \in {"idle", "retry", "queued", "adopt", "enqueue", "mark", "settle", "cancel",
                 "fail", "ready", "cancelled", "failed", "completed"},
         pc = "mark" => DOMAIN chunk'[sweep[s].job] # {},
         pc = "ready" => sweep[s].text = AllPages,
         pc = "completed" => Whole'
  PROVE  SweepOK'
<1> DEFINE rec == [sweep[s] EXCEPT !.pc = pc]
<1>1. sweep[s] \in SweepRec
  BY DEF IInv, SweepOK
<1>2. rec \in SweepRec /\ rec.pc = pc /\ rec.job = sweep[s].job /\ rec.text = sweep[s].text
  BY <1>1 DEF SweepRec
<1>3. sweep' = [sweep EXCEPT ![s] = rec]
  BY DEF GotoSweep
<1> HIDE DEF rec
<1>4. sweep' = [t \in Sweepers |-> IF t = s THEN rec ELSE sweep[t]]
  BY <1>3 DEF IInv, SweepOK
<1>5. \A j \in Jobs : HasChunks(j) => HasChunks(j)'
  BY DEF Keeps, Moves
<1>6. ASSUME NEW t \in Sweepers, t # s PROVE RunOK(sweep[t])'
  BY <1>4, <1>5, <1>6 DEF IInv, SweepOK, RunOK, SweepRec, Keeps
<1>7. sweep'[s] = rec
  BY <1>4
<1>8. RunOK(sweep[s])'
  <2>1. SweepRec' = SweepRec
    BY DEF SweepRec
  <2> QED
    BY <1>2, <1>7, <2>1 DEF RunOK, HasChunks
<1>9. \A t \in Sweepers : RunOK(sweep[t])'
  BY <1>6, <1>8
<1> QED
  BY <1>4, <1>9 DEF SweepOK, RunOK

LEMMA WorkerSet ==
  ASSUME IInv, NEW w \in Workers, NEW rec \in WorkerRec, AtWork(rec),
         worker' = [worker EXCEPT ![w] = rec]
  PROVE  /\ WorkerOK' /\ worker'[w] = rec
         /\ \A v \in Workers \ {w} : worker'[v] = worker[v]
BY DEF IInv, WorkerOK, AtWork, WorkerRec

LEMMA WorkerGoes ==
  ASSUME IInv, NEW w \in Workers, NEW pc, NEW permanent \in BOOLEAN,
         pc \in {"idle", "extract", "submit", "fail", "wait", "down"},
         pc \in {"extract", "submit", "fail", "wait"} => worker[w].ref \in Ref,
         Goto(w, pc, permanent)
  PROVE  /\ WorkerOK' /\ worker'[w].pc = pc /\ worker'[w].ref = worker[w].ref
         /\ \A v \in Workers \ {w} : worker'[v] = worker[v]
<1> DEFINE rec == [worker[w] EXCEPT !.pc = pc, !.permanent = permanent]
<1>1. worker[w] \in WorkerRec
  BY DEF IInv, WorkerOK
<1>2. rec \in WorkerRec /\ rec.pc = pc /\ rec.ref = worker[w].ref
  BY <1>1 DEF WorkerRec
<1>3. worker' = [worker EXCEPT ![w] = rec]
  BY DEF Goto
<1> HIDE DEF rec
<1> QED
  BY <1>2, <1>3, WorkerSet DEF AtWork

\* A step of a worker that waits for no call leaves the calls in order.
LEMMA CallsKept ==
  ASSUME IInv, NEW w \in Workers, worker[w].pc # "wait", UNCHANGED calls,
         \A v \in Workers \ {w} : worker'[v] = worker[v]
  PROVE  CallsOK'
<1>1. \A c \in calls : c.waiting => c.worker # w /\ c.worker \in Workers
  BY DEF IInv, CallsOK, WaitedFor, CallOK, Call
<1> QED
  BY <1>1 DEF IInv, CallsOK, CallOK, WaitedFor, OneAnswer

-----------------------------------------------------------------------------
(* One lemma per step of a worker.                                         *)

LEMMA Found ==
  ASSUME IInv, NEW r \in Ref, Exists(r)
  PROVE  RowOK(RowOf(r)) /\ RowOf(r) \in Row
BY DEF IInv, ChunkOK, Ref, Exists, RowOf, RowOK

LEMMA RefsFound ==
  ASSUME IInv, NEW r \in Refs
  PROVE  /\ r \in Ref /\ Exists(r) /\ RowOK(RowOf(r)) /\ RowOf(r) \in Row
         /\ r.job \in Jobs /\ r.index \in DOMAIN chunk[r.job]
         /\ RowOf(r) = chunk[r.job][r.index]
<1>1. PICK j \in Jobs :
        \E i \in DOMAIN chunk[j] : r = [job |-> j, index |-> i, gen |-> chunk[j][i].gen]
  BY DEF Refs
<1>2. PICK i \in DOMAIN chunk[j] : r = [job |-> j, index |-> i, gen |-> chunk[j][i].gen]
  BY <1>1
<1>3. RowOK(chunk[j][i]) /\ i \in 1 .. LastIndex /\ chunk[j][i].gen \in Nat
  BY DEF IInv, ChunkOK, RowOK, Row
<1>4. r \in Ref /\ Exists(r)
  BY <1>2, <1>3 DEF Ref, Exists
<1> QED
  BY <1>2, <1>4, Found DEF Exists, RowOf

\* The row of a chunk that worker w claims.
ClaimedBy(row, w) ==
  [row EXCEPT !.status = "claimed", !.by = w, !.lease = "live", !.attempts = @ + 1]

LEMMA RowClaimed ==
  ASSUME NEW row \in Row, RowOK(row), row.lease # "live", NEW w \in Workers
  PROVE  Follows(row, ClaimedBy(row, w))
<1>1. row.attempts + 1 \in Nat
  BY DEF Row
<1>2. /\ ClaimedBy(row, w) \in Row /\ ClaimedBy(row, w).gen = row.gen
      /\ ClaimedBy(row, w).status = "claimed" /\ ClaimedBy(row, w).by = w
      /\ ClaimedBy(row, w).lease = "live" /\ ClaimedBy(row, w).total = row.total
  BY <1>1 DEF ClaimedBy, Row, ChunkStatus, Lease
<1> QED
  BY <1>2, Numbers DEF Follows, RowOK, Handed

LEMMA ClaimStep ==
  ASSUME IInv, NEW w \in Workers, Claim(w)
  PROVE  IInv' /\ Moves
<1>1. PICK r \in Refs :
        /\ Claimable(r) /\ UpdateRow(r, ClaimedBy(RowOf(r), w))
        /\ registry' = [registry EXCEPT ![w].current = r]
        /\ worker' = [worker EXCEPT ![w] = [IdleWorker EXCEPT !.pc = "extract", !.ref = r]]
  BY DEF Claim, ClaimedBy
<1> DEFINE rec == [IdleWorker EXCEPT !.pc = "extract", !.ref = r]
<1>2. r \in Ref /\ RowOK(RowOf(r)) /\ RowOf(r) \in Row
  BY RefsFound
<1>3. RowOf(r).lease # "live"
  BY <1>1, <1>2 DEF Claimable, RowOK
<1>4. Follows(RowOf(r), ClaimedBy(RowOf(r), w))
  BY <1>2, <1>3, RowClaimed
<1>5. ChunkOK' /\ Moves
  BY <1>1, <1>2, <1>4, Update DEF Claim
<1>6. rec \in WorkerRec /\ AtWork(rec)
  BY <1>2 DEF WorkerRec, AtWork, IdleWorker
<1>7. WorkerOK' /\ CallsOK'
  BY <1>1, <1>6, WorkerSet, CallsKept DEF Claim
<1>8. RegistryOK'
  BY <1>1, <1>2 DEF IInv, RegistryOK
<1> QED
  BY <1>5, <1>7, <1>8, Same, Frame DEF Claim, Keeps, IInv

LEMMA ClaimRefusedStep ==
  ASSUME IInv, NEW w \in Workers, ClaimRefused(w)
  PROVE  IInv' /\ Moves
<1> DEFINE rec == [worker[w] EXCEPT !.pc = "down"]
<1>1. worker[w] \in WorkerRec
  BY DEF IInv, WorkerOK
<1>2. rec \in WorkerRec /\ AtWork(rec)
  BY <1>1 DEF WorkerRec, AtWork
<1>3. worker' = [worker EXCEPT ![w] = rec]
  BY DEF ClaimRefused
<1>4. WorkerOK' /\ CallsOK'
  BY <1>2, <1>3, WorkerSet, CallsKept DEF ClaimRefused
<1>5. ChunkOK' /\ Moves
  BY ChunkSame DEF ClaimRefused
<1> QED
  BY <1>4, <1>5, Same, Frame DEF ClaimRefused, Keeps, IInv

LEMMA ExtractStep ==
  ASSUME IInv, NEW w \in Workers, Extract(w)
  PROVE  IInv' /\ Moves
<1>1. worker[w].pc = "extract" /\ worker[w].ref \in Ref
  BY DEF Extract, IInv, WorkerOK, AtWork
<1>2. PICK pc \in {"submit", "fail"}, permanent \in BOOLEAN : Goto(w, pc, permanent)
  BY DEF Extract
<1>3. WorkerOK' /\ CallsOK'
  BY <1>1, <1>2, WorkerGoes, CallsKept DEF Extract
<1>4. ChunkOK' /\ Moves
  BY ChunkSame DEF Extract
<1>5. BudgetOK'
  BY Same DEF Extract, Events
<1> QED
  BY <1>3, <1>4, <1>5, Same, Frame DEF Extract, Keeps, IInv

LEMMA HeartbeatStep ==
  ASSUME IInv, NEW w \in Workers, Heartbeat(w)
  PROVE  IInv' /\ Moves
<1> DEFINE r == registry[w].current
           row == [RowOf(r) EXCEPT !.lease = "live"]
<1>1. r \in Ref /\ Exists(r) /\ RowOf(r).lease = "expired" /\ UpdateRow(r, row)
  BY DEF Heartbeat, IInv, RegistryOK
<1>2. RowOK(RowOf(r)) /\ RowOf(r) \in Row
  BY <1>1, Found
<1>3. row \in Row /\ row.gen = RowOf(r).gen /\ row.status = RowOf(r).status
      /\ row.by = RowOf(r).by /\ row.lease = "live" /\ row.total = RowOf(r).total
  BY <1>2 DEF Row, Lease
<1> HIDE DEF row
<1>4. Follows(RowOf(r), row)
  BY <1>1, <1>2, <1>3 DEF Follows, RowOK, Handed
<1>5. ChunkOK' /\ Moves
  BY <1>1, <1>4, Update DEF Heartbeat
<1> QED
  BY <1>5, Same, Frame DEF Heartbeat, Keeps, IInv

\* A worker whose call is accepted waits for its answer.
LEMMA AcceptStep ==
  ASSUME IInv, NEW w \in Workers, NEW op \in {"submit", "fail"}, Accept(w, op),
         worker[w].pc \in {"submit", "fail"}, Exists(worker[w].ref)
  PROVE  WorkerOK' /\ CallsOK'
<1> DEFINE r == worker[w].ref
           c == [op |-> op, worker |-> w, ref |-> r, attempts |-> RowOf(r).attempts,
                 total |-> RowOf(r).total, permanent |-> worker[w].permanent,
                 pc |-> "tx", waiting |-> TRUE]
<1>1. r \in Ref /\ worker[w] \in WorkerRec /\ worker[w].permanent \in BOOLEAN
  BY DEF IInv, WorkerOK, AtWork, WorkerRec
<1>2. RowOK(RowOf(r)) /\ RowOf(r) \in Row
  BY <1>1, Found
<1>3. CallOK(c) /\ c.worker = w
  BY <1>1, <1>2 DEF CallOK, Call, RowOK, Row
<1>4. calls' = calls \cup {c} /\ Goto(w, "wait", worker[w].permanent)
  BY DEF Accept
<1>5. WorkerOK' /\ worker'[w].pc = "wait" /\ \A v \in Workers \ {w} : worker'[v] = worker[v]
  BY <1>1, <1>4, WorkerGoes
<1>6. \A d \in calls : CallOK(d) /\ d.worker \in Workers /\ (d.waiting => d.worker # w)
  BY DEF IInv, CallsOK, CallOK, Call, WaitedFor
<1> HIDE DEF c
<1>7. CallsOK'
  <2>1. \A d \in calls' : CallOK(d)
    BY <1>3, <1>4, <1>6
  <2>2. WaitedFor(calls)'
    BY <1>3, <1>4, <1>5, <1>6 DEF WaitedFor, IInv, CallsOK
  <2>3. OneAnswer(calls')
    BY <1>3, <1>4, <1>6 DEF OneAnswer, IInv, CallsOK
  <2> QED
    BY <2>1, <2>2, <2>3 DEF CallsOK, CallOK, OneAnswer
<1> QED
  BY <1>5, <1>7

LEMMA ReportStep ==
  ASSUME IInv, NEW w \in Workers, Submit(w) \/ ReportFailure(w)
  PROVE  IInv' /\ Moves
<1>1. worker[w].ref \in Ref /\ worker[w].pc \in {"submit", "fail"}
  BY DEF Submit, ReportFailure, IInv, WorkerOK, AtWork
<1>2. \/ \E op \in {"submit", "fail"} : Accept(w, op) /\ Exists(worker[w].ref)
      \/ UNCHANGED calls /\ \E pc \in {"fail", "down"} : Goto(w, pc, FALSE)
  BY DEF Submit, ReportFailure, Held
<1>3. WorkerOK' /\ CallsOK'
  BY <1>1, <1>2, AcceptStep, WorkerGoes, CallsKept
<1>4. ChunkOK' /\ Moves
  BY ChunkSame DEF Submit, ReportFailure
<1> QED
  BY <1>3, <1>4, Same, Frame DEF Submit, ReportFailure, Keeps, IInv

-----------------------------------------------------------------------------
(* One lemma per step of an accepted call and of the workers' environment. *)

LEMMA CallIs ==
  ASSUME IInv, NEW c \in calls
  PROVE  /\ CallOK(c) /\ c.worker \in Workers /\ c.ref \in Ref /\ c.ref.job \in Jobs
         /\ c.ref.index \in 1 .. LastIndex /\ c.permanent \in BOOLEAN
         /\ c.waiting => worker[c.worker].pc = "wait" /\ worker[c.worker].ref \in Ref
         /\ \A d \in calls : d.waiting /\ c.waiting /\ d.worker = c.worker => d = c
BY DEF IInv, CallsOK, CallOK, Call, Ref, WaitedFor, OneAnswer, WorkerOK, AtWork

\* The answer ends the call, and the wait of the worker that still waits for it.
LEMMA RespondStep ==
  ASSUME IInv, NEW c \in calls, NEW pc \in {"idle", "fail"}, Respond(c, pc)
  PROVE  WorkerOK' /\ CallsOK'
<1> DEFINE w == c.worker
           rec == [worker[w] EXCEPT !.pc = pc]
<1>1. calls' = calls \ {c}
  BY DEF Respond
<1>2. CASE ~c.waiting
  <2>1. UNCHANGED worker
    BY <1>2 DEF Respond
  <2> QED
    BY <1>1, <2>1, Same DEF IInv, CallsOK, CallOK, WaitedFor, OneAnswer
<1>3. CASE c.waiting
  <2>1. worker' = [worker EXCEPT ![w] = rec]
    BY <1>3 DEF Respond
  <2>2. w \in Workers /\ worker[w] \in WorkerRec /\ worker[w].ref \in Ref
    BY <1>3, CallIs DEF IInv, WorkerOK
  <2>3. rec \in WorkerRec /\ AtWork(rec)
    BY <2>2 DEF WorkerRec, AtWork
  <2> HIDE DEF rec
  <2>4. WorkerOK' /\ \A v \in Workers \ {w} : worker'[v] = worker[v]
    BY <2>1, <2>2, <2>3, WorkerSet
  <2>5. \A d \in calls' : d \in calls /\ d.worker \in Workers /\ (d.waiting => d.worker # w)
    BY <1>1, <1>3, CallIs
  <2>6. CallsOK'
    BY <2>4, <2>5 DEF IInv, CallsOK, CallOK, WaitedFor, OneAnswer
  <2> QED
    BY <2>4, <2>6
<1> QED
  BY <1>2, <1>3

\* Both transactions release the row and clear the worker's current chunk.
LEMMA RegistryCleared ==
  ASSUME IInv, NEW w \in Workers, registry' = [registry EXCEPT ![w].current = NoRef]
  PROVE  RegistryOK'
BY DEF IInv, RegistryOK

LEMMA SubmitTxStep ==
  ASSUME IInv, NEW c \in calls, SubmitTx(c)
  PROVE  IInv' /\ Moves
<1> DEFINE total == IF ReportedTotal # NoPages THEN ReportedTotal ELSE c.total
           old == RowOf(c.ref)
           row == [Released(old, "submitted") EXCEPT !.pages = PagesOf(c.ref.index), !.total = total]
           next == [c EXCEPT !.pc = "next"]
<1>1. /\ CallOK(c) /\ c.worker \in Workers /\ c.ref \in Ref /\ c.ref.index \in 1 .. LastIndex
      /\ UpdateRow(c.ref, row)
  BY CallIs DEF SubmitTx
<1>2. total \in {NoPages, ReportedTotal} /\ total \in Nat /\ PagesOf(c.ref.index) \subseteq AllPages
  BY <1>1, PagesIn, Numbers DEF CallOK
<1>3. ASSUME Exists(c.ref) PROVE Follows(old, row)
  <2> HIDE DEF total, old
  <2>1. RowOK(old) /\ "submitted" \in ChunkStatus
    BY <1>1, <1>3, Found DEF old, ChunkStatus
  <2>2. Released(old, "submitted") \in Row /\ Follows(old, Released(old, "submitted"))
    BY <2>1, RowReleased
  <2>3. Released(old, "submitted").by = NoWorker
        /\ Released(old, "submitted").lease = "none"
        /\ Released(old, "submitted").status = "submitted"
    BY <2>1, RowReleased
  <2>4. row \in Row /\ row.gen = old.gen /\ row.status = "submitted" /\ row.by = NoWorker
        /\ row.lease = "none" /\ row.total = total
    BY <1>2, <2>2, <2>3 DEF Row, Follows
  <2> QED
    BY <1>2, <2>4 DEF Follows, RowOK, Handed
<1> HIDE DEF row, total, old
<1>4. ChunkOK' /\ Moves
  BY <1>1, <1>3, Update DEF SubmitTx, old
<1>5. RegistryOK'
  BY <1>1, RegistryCleared DEF SubmitTx
<1>6. WorkerOK' /\ CallsOK'
  <2>1. CASE Respond(c, "idle")
    BY <2>1, RespondStep
  <2>2. CASE calls' = (calls \ {c}) \cup {next} /\ UNCHANGED worker
    <3>1. CallOK(next) /\ next.worker = c.worker /\ next.waiting = c.waiting
      BY <1>1 DEF CallOK, Call
    <3> HIDE DEF next
    <3>2. (\A d \in calls' : CallOK(d)) /\ WaitedFor(calls')
      BY <2>2, <3>1 DEF IInv, CallsOK, WaitedFor
    <3>3. OneAnswer(calls')
      BY <2>2, <3>1 DEF IInv, CallsOK, OneAnswer
    <3> QED
      BY <2>2, <3>2, <3>3, Same DEF CallsOK, CallOK, WaitedFor, OneAnswer
  <2> QED
    BY <2>1, <2>2 DEF SubmitTx
<1> QED
  BY <1>4, <1>5, <1>6, Same, Frame DEF SubmitTx, Keeps, IInv

LEMMA MaterializeStep ==
  ASSUME IInv, NEW c \in calls, MaterializeNextChunk(c)
  PROVE  IInv' /\ Moves
<1> DEFINE j == c.ref.job
           next == c.ref.index + 1
<1>1. j \in Jobs /\ c.ref.index \in 1 .. LastIndex
  BY CallIs
<1>2. \E pc \in {"idle", "fail"} : Respond(c, pc)
  BY DEF MaterializeNextChunk
<1>3. WorkerOK' /\ CallsOK'
  BY <1>2, RespondStep
<1>4. ChunkOK' /\ Moves
  <2>1. CASE UNCHANGED chunk
    BY <2>1, ChunkSame DEF MaterializeNextChunk
  <2>2. CASE /\ ~BeyondEnd(next) /\ next \notin DOMAIN chunk[j]
             /\ chunk' = [chunk EXCEPT ![j] = WithRow(chunk[j], next, NewRow(gen[j], ReportedTotal))]
    <3>1. next \in 1 .. LastIndex
      BY <1>1, <2>2, NextIn
    <3> HIDE DEF next
    <3> QED
      BY <1>1, <2>2, <3>1, Appended DEF MaterializeNextChunk
  <2> QED
    BY <2>1, <2>2 DEF MaterializeNextChunk
<1> QED
  BY <1>3, <1>4, Same, Frame DEF MaterializeNextChunk, Keeps, IInv

LEMMA FailTxStep ==
  ASSUME IInv, NEW c \in calls, FailTx(c)
  PROVE  IInv' /\ Moves
<1> DEFINE status == IF c.permanent \/ c.attempts >= MaxAttempts THEN "failed" ELSE "pending"
           old == RowOf(c.ref)
           row == [Released(old, status) EXCEPT !.permanent = c.permanent]
<1>1. c.worker \in Workers /\ c.ref \in Ref /\ c.permanent \in BOOLEAN /\ UpdateRow(c.ref, row)
  BY CallIs DEF FailTx
<1>2. status \in ChunkStatus /\ status # "claimed"
  BY DEF ChunkStatus
<1>3. ASSUME Exists(c.ref) PROVE Follows(old, row)
  <2> HIDE DEF status, old
  <2>1. RowOK(old)
    BY <1>1, <1>3, Found DEF old
  <2>2. /\ Released(old, status) \in Row /\ Follows(old, Released(old, status))
        /\ Released(old, status).by = NoWorker /\ Released(old, status).lease = "none"
        /\ Released(old, status).status = status
        /\ Released(old, status).total = old.total
    BY <1>2, <2>1, RowReleased
  <2>3. row \in Row /\ row.gen = old.gen /\ row.status = status /\ row.by = NoWorker
        /\ row.lease = "none" /\ row.total = old.total
    BY <1>1, <2>2 DEF Row, Follows
  <2> QED
    BY <1>2, <2>1, <2>3 DEF Follows, RowOK, Handed
<1> HIDE DEF row, status, old
<1>4. ChunkOK' /\ Moves
  BY <1>1, <1>3, Update DEF FailTx, old
<1>5. RegistryOK' /\ WorkerOK' /\ CallsOK'
  BY <1>1, RegistryCleared, RespondStep DEF FailTx
<1> QED
  BY <1>4, <1>5, Same, Frame DEF FailTx, Keeps, IInv

LEMMA LeaseExpiresStep ==
  ASSUME IInv, NEW r \in Refs, LeaseExpires(r)
  PROVE  IInv' /\ Moves
<1> DEFINE old == RowOf(r)
           row == [old EXCEPT !.lease = "expired"]
<1>1. r \in Ref /\ RowOK(old) /\ old \in Row /\ old.lease = "live" /\ UpdateRow(r, row)
  BY RefsFound DEF LeaseExpires
<1> HIDE DEF old
<1>2. row \in Row /\ row.gen = old.gen /\ row.status = old.status /\ row.by = old.by
      /\ row.lease = "expired" /\ row.total = old.total
  BY <1>1 DEF Row, Lease
<1> HIDE DEF row
<1>3. Follows(old, row)
  BY <1>1, <1>2 DEF Follows, RowOK, Handed
<1>4. ChunkOK' /\ Moves
  BY <1>1, <1>3, Update DEF LeaseExpires, old
<1>5. BudgetOK'
  BY Same DEF LeaseExpires, Events
<1> QED
  BY <1>4, <1>5, Same, Frame DEF LeaseExpires, Keeps, IInv

\* A step that changes no table.
LEMMA ProcessesOnly ==
  ASSUME IInv, UNCHANGED <<job, chunk, gen, material, registry>>
  PROVE  /\ Moves /\ Keeps /\ JobOK' /\ ChunkOK' /\ GenOK' /\ MaterialOK' /\ RegistryOK'
         /\ UNCHANGED user => UserOK'
         /\ UNCHANGED sweep => SweepOK'
BY ChunkSame, Same, Frame DEF Keeps

LEMMA ClientTimeoutStep ==
  ASSUME IInv, NEW c \in calls, ClientTimeout(c)
  PROVE  IInv' /\ Moves
<1> DEFINE w == c.worker
           next == [c EXCEPT !.waiting = FALSE]
<1>1. CallOK(c) /\ w \in Workers /\ worker[w].ref \in Ref /\ c.waiting
  BY CallIs DEF ClientTimeout
<1>2. PICK pc \in {"fail", "down"} : Goto(w, pc, FALSE)
  BY DEF ClientTimeout
<1>3. WorkerOK' /\ \A v \in Workers \ {w} : worker'[v] = worker[v]
  BY <1>1, <1>2, WorkerGoes
<1>4. CallOK(next) /\ ~next.waiting
  BY <1>1 DEF CallOK, Call
<1>5. calls' = (calls \ {c}) \cup {next}
  BY DEF ClientTimeout
<1>6. \A d \in calls \ {c} : CallOK(d) /\ d.worker \in Workers /\ (d.waiting => d.worker # w)
  BY <1>1, CallIs
<1> HIDE DEF next
<1>7. (\A d \in calls' : CallOK(d)) /\ WaitedFor(calls)' /\ OneAnswer(calls')
  BY <1>3, <1>4, <1>5, <1>6 DEF WaitedFor, OneAnswer, IInv, CallsOK
<1>8. CallsOK'
  BY <1>7 DEF CallsOK, CallOK, OneAnswer
<1>9. BudgetOK'
  BY Same DEF ClientTimeout, Events
<1> QED
  BY <1>3, <1>8, <1>9, ProcessesOnly DEF ClientTimeout, IInv

LEMMA WorkerCrashStep ==
  ASSUME IInv, NEW w \in Workers, WorkerCrash(w)
  PROVE  IInv' /\ Moves
<1> DEFINE rec == [IdleWorker EXCEPT !.pc = "down"]
           Left(c) == IF c.worker = w THEN [c EXCEPT !.waiting = FALSE] ELSE c
<1>1. rec \in WorkerRec /\ AtWork(rec)
  BY DEF WorkerRec, AtWork, IdleWorker
<1>2. WorkerOK' /\ \A v \in Workers \ {w} : worker'[v] = worker[v]
  BY <1>1, WorkerSet DEF WorkerCrash
<1>3. calls' = {Left(c) : c \in calls}
  BY DEF WorkerCrash
<1>4. ASSUME NEW c \in calls
      PROVE  CallOK(Left(c)) /\ (Left(c).waiting => Left(c) = c /\ c.worker \in Workers \ {w})
  BY CallIs DEF CallOK, Call
<1> HIDE DEF Left
<1>5. \A d \in calls' : CallOK(d) /\ (d.waiting => d \in calls /\ d.worker \in Workers \ {w})
  BY <1>3, <1>4
<1>6. CallsOK'
  BY <1>2, <1>5 DEF IInv, CallsOK, CallOK, WaitedFor, OneAnswer
<1>7. BudgetOK'
  BY Same DEF WorkerCrash, Events
<1> QED
  BY <1>2, <1>6, <1>7, ProcessesOnly DEF WorkerCrash, IInv

LEMMA WorkerRestartStep ==
  ASSUME IInv, NEW w \in Workers, WorkerRestart(w)
  PROVE  IInv' /\ Moves
<1>1. IdleWorker \in WorkerRec /\ AtWork(IdleWorker)
  BY DEF WorkerRec, AtWork, IdleWorker
<1>2. WorkerOK' /\ CallsOK'
  BY <1>1, WorkerSet, CallsKept DEF WorkerRestart
<1> QED
  BY <1>2, ProcessesOnly, Same DEF WorkerRestart, IInv

LEMMA SetEnabledStep ==
  ASSUME IInv, NEW w \in Workers, SetEnabled(w)
  PROVE  IInv' /\ Moves
<1>1. RegistryOK'
  BY DEF SetEnabled, IInv, RegistryOK
<1>2. ChunkOK' /\ Moves
  BY ChunkSame DEF SetEnabled
<1>3. BudgetOK'
  BY Same DEF SetEnabled, Events
<1> QED
  BY <1>1, <1>2, <1>3, Same, Frame DEF SetEnabled, Keeps, IInv

LEMMA ApiCrashStep ==
  ASSUME IInv, ApiCrash
  PROVE  IInv' /\ Moves
<1>1. WorkerOK'
  <2>1. ASSUME NEW w \in Workers
        PROVE  worker'[w] \in WorkerRec /\ AtWork(worker'[w])
    <3>1. worker[w] \in WorkerRec /\ AtWork(worker[w])
      BY DEF IInv, WorkerOK
    <3>2. CASE \E c \in calls : c.worker = w /\ c.waiting /\ c.op = "submit"
      <4>1. worker[w].ref \in Ref
        BY <3>2, CallIs
      <4>2. worker'[w] = [worker[w] EXCEPT !.pc = "fail", !.permanent = FALSE]
        BY <3>2 DEF ApiCrash
      <4> QED
        BY <3>1, <4>1, <4>2 DEF WorkerRec, AtWork
    <3>3. CASE worker'[w] = [worker[w] EXCEPT !.pc = "down"]
      BY <3>1, <3>3 DEF WorkerRec, AtWork
    <3>4. CASE worker'[w] = worker[w]
      BY <3>1, <3>4
    <3> QED
      BY <3>2, <3>3, <3>4 DEF ApiCrash
  <2>2. worker' = [w \in Workers |-> worker'[w]]
    BY DEF ApiCrash
  <2> QED
    BY <2>1, <2>2 DEF WorkerOK, AtWork, WorkerRec
<1>2. CallsOK'
  BY DEF ApiCrash, CallsOK, CallOK, WaitedFor, OneAnswer
<1>3. UserOK'
  <2>1. RequestOK(IdleUser)'
    BY Numbers DEF RequestOK, IdleUser, UserRec, JobStatus
  <2> QED
    BY <2>1 DEF ApiCrash, UserOK, RequestOK
<1>4. SweepOK'
  <2>1. RunOK(IdleSweep)'
    BY Numbers DEF RunOK, IdleSweep, SweepRec
  <2> QED
    BY <2>1 DEF ApiCrash, SweepOK, RunOK
<1>5. BudgetOK'
  BY Same DEF ApiCrash, Events
<1> QED
  BY <1>1, <1>2, <1>3, <1>4, <1>5, ProcessesOnly DEF ApiCrash, IInv

-----------------------------------------------------------------------------
(* One lemma per step of a request of the staff.                           *)

\* A write of the material that does not publish a text.
LEMMA MaterialSet ==
  ASSUME IInv, NEW status \in {"UPLOADED", "QUEUED", "FAILED"},
         SetMaterial(status) \/ UNCHANGED material
  PROVE  MaterialOK' /\ (Whole => Whole')
BY DEF SetMaterial, IInv, MaterialOK, MaterialStatus, Whole

\* A step of the API that touches no table but jobs and materials.
LEMMA RequestFrame ==
  ASSUME IInv, UNCHANGED <<chunk, gen, registry, worker, calls>>, Whole => Whole'
  PROVE  /\ Moves /\ Keeps /\ ChunkOK' /\ GenOK' /\ RegistryOK' /\ WorkerOK' /\ CallsOK'
         /\ UNCHANGED job => JobOK'
         /\ UNCHANGED user => UserOK'
         /\ UNCHANGED sweep => SweepOK'
BY ChunkSame, Same, Frame DEF Keeps

LEMMA ProcessMaterialStep ==
  ASSUME IInv, NEW u \in Users, ProcessMaterial(u) \/ RetryMaterial(u)
  PROVE  IInv' /\ Moves
<1> DEFINE rec(seen) == [pc |-> "insert", job |-> 1, seen |-> seen]
<1>1. MaterialOK' /\ (Whole => Whole')
  BY MaterialSet DEF ProcessMaterial, RetryMaterial
<1>2. PICK seen \in {"UPLOADED", "QUEUED", "FAILED"} : user' = [user EXCEPT ![u] = rec(seen)]
  BY DEF ProcessMaterial, RetryMaterial, SetUser
<1>3. RequestOK(rec(seen))'
  BY Numbers DEF RequestOK, UserRec, MaterialStatus
<1> HIDE DEF rec
<1>4. UNCHANGED <<job, chunk, gen, registry, worker, calls, sweep>>
  BY DEF ProcessMaterial, RetryMaterial
<1>5. Moves /\ Keeps /\ ChunkOK' /\ GenOK' /\ RegistryOK' /\ WorkerOK' /\ CallsOK'
      /\ JobOK' /\ SweepOK'
  BY <1>1, <1>4, RequestFrame
<1>6. UserOK'
  BY <1>2, <1>3, <1>5, UserSet
<1>7. BudgetOK'
  BY Same DEF ProcessMaterial, RetryMaterial, Events
<1> QED
  BY <1>1, <1>5, <1>6, <1>7 DEF IInv

LEMMA InsertJobStep ==
  ASSUME IInv, NEW u \in Users, InsertJob(u)
  PROVE  IInv' /\ Moves
<1>1. /\ Moves /\ Keeps /\ ChunkOK' /\ GenOK' /\ RegistryOK' /\ WorkerOK' /\ CallsOK'
      /\ SweepOK' /\ MaterialOK' /\ BudgetOK'
  BY Same, RequestFrame DEF InsertJob
<1>2. PICK j \in Jobs : SetJob(j, "queued") /\ SetUser(u, "enqueue", j, user[u].seen)
  BY DEF InsertJob
<1>3. JobOK'
  BY <1>1, <1>2, JobSet DEF JobStatus
<1>4. PICK seen \in {"UPLOADED", "QUEUED", "FAILED"} : seen = user[u].seen
  BY DEF InsertJob, UserAt, IInv, UserOK, RequestOK
<1> DEFINE rec == [pc |-> "enqueue", job |-> j, seen |-> seen]
<1>5. RequestOK(rec)'
  BY DEF RequestOK, UserRec, MaterialStatus
<1> HIDE DEF rec
<1>6. user' = [user EXCEPT ![u] = rec]
  BY <1>2, <1>4 DEF SetUser, rec
<1>7. UserOK'
  BY <1>1, <1>5, <1>6, UserSet
<1> QED
  BY <1>1, <1>3, <1>7 DEF IInv

LEMMA EnqueueJobStep ==
  ASSUME IInv, NEW u \in Users, EnqueueJob(u)
  PROVE  IInv' /\ Moves
<1>1. PICK j \in Jobs, seen \in {"UPLOADED", "QUEUED", "FAILED"} :
        j = user[u].job /\ seen = user[u].seen
  BY DEF EnqueueJob, UserAt, IInv, UserOK, RequestOK, UserRec
<1> DEFINE rec == [pc |-> "mark", job |-> j, seen |-> seen]
<1>2. ResetChunks(j) /\ user' = [user EXCEPT ![u] = rec]
  BY <1>1 DEF EnqueueJob, SetUser
<1>3. ChunkOK' /\ Moves /\ HasChunks(j)' /\ GenOK' /\ MaterialOK'
  BY <1>2, Reset
<1>4. Whole => Whole'
  BY <1>2 DEF ResetChunks, SetMaterial, Whole, IInv, MaterialOK
<1>5. RequestOK(rec)'
  BY <1>3 DEF RequestOK, UserRec, MaterialStatus, HasChunks
<1> HIDE DEF rec
<1>6. UserOK'
  BY <1>2, <1>3, <1>4, <1>5, UserSet DEF Keeps
<1> QED
  BY <1>3, <1>4, <1>6, Same, Frame DEF EnqueueJob, Keeps, IInv

\* MarkProcessing, CancelWrite and RetryJobWrite write the status the request has decided.
LEMMA WriteJobStep ==
  ASSUME IInv, NEW u \in Users, MarkProcessing(u) \/ CancelWrite(u) \/ RetryJobWrite(u)
  PROVE  IInv' /\ Moves
<1>1. /\ Moves /\ Keeps /\ ChunkOK' /\ GenOK' /\ RegistryOK' /\ WorkerOK' /\ CallsOK'
      /\ SweepOK' /\ MaterialOK' /\ BudgetOK'
  BY Same, RequestFrame DEF MarkProcessing, CancelWrite, RetryJobWrite
<1>2. PICK j \in Jobs : j = user[u].job /\ (HasChunks(j) => HasChunks(j)')
  BY <1>1 DEF IInv, UserOK, UserRec, Moves
<1>3. PICK status \in {"queued", "processing", "cancelling", "cancelled"} :
        SetJob(j, status) /\ (status \in {"processing", "cancelling"} => HasChunks(j))
  <2>1. CASE MarkProcessing(u)
    BY <1>2, <2>1 DEF MarkProcessing, UserAt, IInv, UserOK, RequestOK
  <2>2. CASE CancelWrite(u)
    BY <1>2, <2>2 DEF CancelWrite, CancelTarget, UserAt, IInv, UserOK, RequestOK
  <2>3. CASE RetryJobWrite(u)
    BY <1>2, <2>3 DEF RetryJobWrite
  <2> QED
    BY <2>1, <2>2, <2>3
<1>4. JobOK'
  BY <1>1, <1>2, <1>3, JobSet DEF JobStatus
<1>5. UserOK'
  BY <1>1, UserEnds DEF MarkProcessing, CancelWrite, RetryJobWrite
<1> QED
  BY <1>1, <1>4, <1>5 DEF IInv

\* A request that an error has stopped, or that goes on to clean up.
LEMMA CleanUpGoes ==
  ASSUME IInv, Moves, Keeps, NEW u \in Users, user[u].pc \in {"insert", "enqueue", "mark", "failing", "revert"},
         EndUser(u) \/ \E pc \in {"failing", "revert"} : SetUser(u, pc, user[u].job, user[u].seen)
  PROVE  UserOK'
<1>1. user[u].job \in Jobs /\ user[u].seen \in {"UPLOADED", "QUEUED", "FAILED"}
  BY DEF IInv, UserOK, RequestOK, UserRec
<1>2. CASE EndUser(u)
  BY <1>2, UserEnds
<1>3. CASE \E pc \in {"failing", "revert"} : SetUser(u, pc, user[u].job, user[u].seen)
  <2>1. PICK pc \in {"failing", "revert"} : SetUser(u, pc, user[u].job, user[u].seen)
    BY <1>3
  <2>2. PICK rec : rec = [pc |-> pc, job |-> user[u].job, seen |-> user[u].seen]
    OBVIOUS
  <2>3. RequestOK(rec)'
    BY <1>1, <2>2 DEF RequestOK, UserRec, MaterialStatus
  <2> QED
    BY <2>1, <2>2, <2>3, UserSet DEF SetUser
<1> QED
  BY <1>2, <1>3

LEMMA EnqueueErrorStep ==
  ASSUME IInv, NEW u \in Users, EnqueueError(u)
  PROVE  IInv' /\ Moves
<1>1. /\ Moves /\ Keeps /\ ChunkOK' /\ GenOK' /\ RegistryOK' /\ WorkerOK' /\ CallsOK'
      /\ SweepOK' /\ MaterialOK' /\ JobOK'
  BY Same, RequestFrame DEF EnqueueError
<1>2. EndUser(u) \/ \E pc \in {"failing", "revert"} : SetUser(u, pc, user[u].job, user[u].seen)
  BY DEF EnqueueError
<1>3. UserOK' /\ BudgetOK'
  BY <1>1, <1>2, CleanUpGoes, Same DEF EnqueueError, Events
<1> QED
  BY <1>1, <1>3 DEF IInv

LEMMA FailEnqueuedStep ==
  ASSUME IInv, NEW u \in Users, FailEnqueued(u)
  PROVE  IInv' /\ Moves
<1>1. /\ Moves /\ Keeps /\ ChunkOK' /\ GenOK' /\ RegistryOK' /\ WorkerOK' /\ CallsOK'
      /\ SweepOK' /\ MaterialOK' /\ BudgetOK'
  BY Same, RequestFrame DEF FailEnqueued
<1>2. JobOK'
  BY <1>1, JobSet DEF FailEnqueued, IInv, UserOK, UserRec, JobStatus
<1>3. UserOK'
  BY <1>1, CleanUpGoes DEF FailEnqueued, UserAt
<1> QED
  BY <1>1, <1>2, <1>3 DEF IInv

LEMMA RevertMaterialStep ==
  ASSUME IInv, NEW u \in Users, RevertMaterial(u)
  PROVE  IInv' /\ Moves
<1>1. user[u].seen \in {"UPLOADED", "QUEUED", "FAILED"}
  BY DEF RevertMaterial, UserAt, IInv, UserOK, RequestOK
<1>2. SetMaterial(user[u].seen) \/ UNCHANGED material
  BY DEF RevertMaterial
<1>3. MaterialOK' /\ (Whole => Whole')
  BY <1>1, <1>2, MaterialSet
<1>4. /\ Moves /\ Keeps /\ ChunkOK' /\ GenOK' /\ RegistryOK' /\ WorkerOK' /\ CallsOK'
      /\ SweepOK' /\ JobOK'
  BY <1>3, RequestFrame DEF RevertMaterial
<1>5. UserOK' /\ BudgetOK'
  BY <1>4, UserEnds, Same DEF RevertMaterial
<1> QED
  BY <1>3, <1>4, <1>5 DEF IInv

LEMMA CreateJobStep ==
  ASSUME IInv, NEW u \in Users, CreateJob(u)
  PROVE  IInv' /\ Moves
<1>1. /\ Moves /\ Keeps /\ ChunkOK' /\ GenOK' /\ RegistryOK' /\ WorkerOK' /\ CallsOK'
      /\ UserOK' /\ SweepOK' /\ MaterialOK'
  BY Same, RequestFrame DEF CreateJob
<1>2. PICK j \in Jobs : SetJob(j, "queued")
  BY DEF CreateJob
<1>3. JobOK' /\ BudgetOK'
  BY <1>1, <1>2, JobSet, Same DEF CreateJob, JobStatus, Events
<1> QED
  BY <1>1, <1>3 DEF IInv

LEMMA ReadJobStep ==
  ASSUME IInv, NEW u \in Users, CancelRead(u) \/ RetryJobRead(u)
  PROVE  IInv' /\ Moves
<1>1. /\ Moves /\ Keeps /\ ChunkOK' /\ GenOK' /\ RegistryOK' /\ WorkerOK' /\ CallsOK'
      /\ JobOK' /\ SweepOK' /\ MaterialOK'
  BY Same, RequestFrame DEF CancelRead, RetryJobRead
<1> DEFINE rec(pc, j, seen) == [pc |-> pc, job |-> j, seen |-> seen]
<1>2. PICK j \in Jobs :
        \/ user' = [user EXCEPT ![u] = rec("requeue", j, job[j])]
        \/ /\ user' = [user EXCEPT ![u] = rec("cancel", j, job[j])]
           /\ job[j] \in {"queued", "processing", "cancelling"}
  BY DEF CancelRead, RetryJobRead, Created, SetUser
<1>3. PICK seen \in JobStatus :
        seen = job[j] /\ (seen \in {"processing", "cancelling"} => HasChunks(j)')
  BY <1>1 DEF IInv, JobOK, Keeps, Moves
<1>4. RequestOK(rec("requeue", j, seen))'
  BY DEF RequestOK, UserRec
<1>5. seen \in {"queued", "processing", "cancelling"} => RequestOK(rec("cancel", j, seen))'
  BY <1>3 DEF RequestOK, UserRec, HasChunks
<1>6. PICK pc \in {"requeue", "cancel"} :
        user' = [user EXCEPT ![u] = rec(pc, j, seen)] /\ RequestOK(rec(pc, j, seen))'
  BY <1>2, <1>3, <1>4, <1>5
<1> HIDE DEF rec
<1>7. UserOK'
  BY <1>1, <1>6, UserSet
<1>8. BudgetOK'
  BY Same DEF CancelRead, RetryJobRead, Events
<1> QED
  BY <1>1, <1>7, <1>8 DEF IInv

-----------------------------------------------------------------------------
(* One lemma per step of a sweep.                                          *)

LEMMA ReclaimStep ==
  ASSUME IInv, NEW s \in Sweepers, Reclaim(s)
  PROVE  IInv' /\ Moves
<1>1. ChunkOK' /\ Moves
  <2>1. ASSUME NEW j \in Jobs
        PROVE  /\ DOMAIN chunk'[j] = DOMAIN chunk[j]
               /\ \A i \in DOMAIN chunk[j] : Follows(chunk[j][i], chunk'[j][i])
    <3>1. ASSUME NEW i \in DOMAIN chunk[j] PROVE Follows(chunk[j][i], chunk'[j][i])
      <4>1. RowOK(chunk[j][i])
        BY DEF IInv, ChunkOK
      <4>2. chunk'[j][i] = Released(chunk[j][i], "pending") \/ chunk'[j][i] = chunk[j][i]
        BY DEF Reclaim
      <4> QED
        BY <4>1, <4>2, RowReleased, RowSame DEF ChunkStatus
    <3> QED
      BY <3>1 DEF Reclaim
  <2>2. DOMAIN chunk' = Jobs /\ UNCHANGED gen
    BY DEF Reclaim
  <2> QED
    BY <2>1, <2>2, UpdateAll
<1>2. RegistryOK'
  <2>1. ASSUME NEW w \in Workers
        PROVE  registry'[w] \in [enabled : BOOLEAN, current : Ref \cup {NoRef}]
    BY DEF Reclaim, IInv, RegistryOK
  <2>2. registry' = [w \in Workers |-> registry'[w]]
    BY DEF Reclaim
  <2> QED
    BY <2>1, <2>2 DEF RegistryOK
<1>3. BudgetOK'
  BY Same DEF Reclaim, Events
<1>4. Keeps /\ JobOK' /\ GenOK' /\ MaterialOK' /\ UserOK' /\ WorkerOK' /\ CallsOK'
  BY <1>1, Same, Frame DEF Reclaim, Keeps
<1>5. SweepOK'
  BY <1>4, SweepGoes DEF Reclaim
<1> QED
  BY <1>1, <1>2, <1>3, <1>4, <1>5 DEF IInv

\* The row of a failed chunk that is tried again.
Retried(row) == [row EXCEPT !.status = "pending", !.permanent = FALSE]

LEMMA RowRetried ==
  ASSUME NEW row, RowOK(row), row.status = "failed"
  PROVE  Follows(row, Retried(row))
<1>1. row \in Row
  BY DEF RowOK
<1>2. /\ Retried(row) \in Row /\ Retried(row).gen = row.gen /\ Retried(row).status = "pending"
      /\ Retried(row).by = row.by /\ Retried(row).lease = row.lease
      /\ Retried(row).total = row.total
  BY <1>1 DEF Retried, Row, ChunkStatus
<1> QED
  BY <1>2 DEF Follows, RowOK, Handed

LEMMA RetryFailedStep ==
  ASSUME IInv, NEW s \in Sweepers, RetryFailed(s)
  PROVE  IInv' /\ Moves
<1>1. ASSUME NEW j \in Jobs
      PROVE  /\ DOMAIN chunk'[j] = DOMAIN chunk[j]
             /\ \A i \in DOMAIN chunk[j] : Follows(chunk[j][i], chunk'[j][i])
  <2>1. ASSUME NEW i \in DOMAIN chunk[j] PROVE Follows(chunk[j][i], chunk'[j][i])
    <3>1. RowOK(chunk[j][i])
      BY DEF IInv, ChunkOK
    <3>2. \/ chunk[j][i].status = "failed" /\ chunk'[j][i] = Retried(chunk[j][i])
          \/ chunk'[j][i] = chunk[j][i]
      BY DEF RetryFailed, Retried
    <3> QED
      BY <3>1, <3>2, RowRetried, RowSame
  <2> QED
    BY <2>1 DEF RetryFailed
<1>2. DOMAIN chunk' = Jobs /\ UNCHANGED gen
  BY DEF RetryFailed
<1>3. ChunkOK' /\ Moves
  BY <1>1, <1>2, UpdateAll
<1>4. Keeps
  BY <1>3, Same DEF RetryFailed, Keeps
<1>5. SweepOK'
  BY <1>4, SweepGoes DEF RetryFailed
<1> QED
  BY <1>3, <1>4, <1>5, Same, Frame DEF RetryFailed, IInv

\* The job rows a sweep reads.
LEMMA JobsRead ==
  ASSUME IInv, NEW S
  PROVE  JobsIn(S) \subseteq Jobs \X JobStatus
BY DEF IInv, JobOK, JobsIn

LEMMA ReadJobsStep ==
  ASSUME IInv, NEW s \in Sweepers, ReadQueued(s) \/ ReadActive(s)
  PROVE  IInv' /\ Moves
<1>1. PICK todo \in SUBSET (Jobs \X JobStatus), pc \in {"adopt", "settle"} :
        SetSweep(s, [IdleSweep EXCEPT !.pc = pc, !.todo = todo])
  BY JobsRead DEF ReadQueued, ReadActive
<1> DEFINE rec == [IdleSweep EXCEPT !.pc = pc, !.todo = todo]
<1>2. RunOK(rec)'
  BY Numbers DEF RunOK, SweepRec, IdleSweep
<1> HIDE DEF rec
<1>3. UNCHANGED <<job, chunk, gen, material, registry, worker, calls, user, budget>>
  BY DEF ReadQueued, ReadActive
<1>4. SweepOK'
  BY <1>1, <1>2, <1>3, ProcessesOnly, SweepSet DEF rec
<1> QED
  BY <1>3, <1>4, ProcessesOnly, Same DEF IInv

\* A sweep takes the next of the jobs it has read.
LEMMA PickedStep ==
  ASSUME IInv, NEW s \in Sweepers, NEW entry \in sweep[s].todo,
         NEW pc \in {"adopt", "enqueue", "settle", "cancel", "fail", "ready"},
         NEW text \in SUBSET AllPages, pc = "ready" => text = AllPages,
         Picked(s, pc, entry, text),
         UNCHANGED <<job, chunk, gen, material, registry, worker, calls, user, budget>>
  PROVE  IInv' /\ Moves
<1>1. sweep[s].todo \in SUBSET (Jobs \X JobStatus)
  BY DEF IInv, SweepOK, SweepRec
<1>2. PICK todo \in SUBSET (Jobs \X JobStatus), j \in Jobs :
        todo = sweep[s].todo \ {entry} /\ j = entry[1]
  BY <1>1
<1> DEFINE rec == [pc |-> pc, todo |-> todo, job |-> j, text |-> text]
<1>3. RunOK(rec)'
  BY DEF RunOK, SweepRec
<1> HIDE DEF rec
<1>4. SetSweep(s, rec)
  BY <1>2 DEF Picked, rec
<1>5. SweepOK'
  BY <1>3, <1>4, ProcessesOnly, SweepSet
<1> QED
  BY <1>5, ProcessesOnly, Same DEF IInv

LEMMA ReadMaterialStep ==
  ASSUME IInv, NEW s \in Sweepers, ReadMaterial(s)
  PROVE  IInv' /\ Moves
<1>1. PICK entry \in sweep[s].todo :
        Picked(s, IF material.status = "READY" THEN "adopt" ELSE "enqueue", entry, {})
  BY DEF ReadMaterial
<1>2. PICK pc \in {"adopt", "enqueue"} : Picked(s, pc, entry, {})
  BY <1>1
<1> QED
  BY <1>2, PickedStep DEF ReadMaterial

\* Rows that cover the document by their own count cover all its pages.
LEMMA CoverageIsWhole ==
  ASSUME IInv, NEW j \in Jobs, HasChunks(j), CompleteCoverage(chunk[j])
  PROVE  CoveredPages(chunk[j]) = AllPages
<1> DEFINE rows == chunk[j]
           totals == {rows[i].total : i \in DOMAIN rows}
<1>1. totals # {} /\ totals \subseteq {NoPages, ReportedTotal}
  BY DEF HasChunks, IInv, ChunkOK, RowOK
<1>2. \E t \in totals : \A other \in totals : other <= t
  <2>1. NoPages <= ReportedTotal /\ NoPages <= NoPages /\ ReportedTotal <= ReportedTotal
    BY Numbers DEF NoPages
  <2>2. CASE ReportedTotal \in totals
    BY <1>1, <2>1, <2>2
  <2>3. CASE ReportedTotal \notin totals
    BY <1>1, <2>1, <2>3
  <2> QED
    BY <2>2, <2>3
<1>3. DocumentPages(rows) \in totals
  <2> HIDE DEF totals
  <2>1. (CHOOSE t \in totals : \A other \in totals : other <= t) \in totals
    BY <1>2
  <2>2. DocumentPages(rows) = CHOOSE t \in totals : \A other \in totals : other <= t
    BY DEF DocumentPages, totals
  <2> QED
    BY <2>1, <2>2
<1> HIDE DEF rows, totals
<1>4. DocumentPages(rows) # NoPages /\ CoveredPages(rows) = 1 .. DocumentPages(rows)
  BY DEF CompleteCoverage, rows
<1>5. DocumentPages(rows) = PageCount
  BY <1>1, <1>3, <1>4, Numbers
<1> QED
  BY <1>4, <1>5 DEF AllPages, rows

LEMMA SettleReadStep ==
  ASSUME IInv, NEW s \in Sweepers, SettleRead(s)
  PROVE  IInv' /\ Moves
<1>1. PICK entry \in sweep[s].todo :
        \/ \E pc \in {"settle", "cancel", "fail"} : Picked(s, pc, entry, {})
        \/ /\ DOMAIN chunk[entry[1]] # {} /\ CompleteCoverage(chunk[entry[1]])
           /\ Picked(s, "ready", entry, CoveredPages(chunk[entry[1]]))
  BY DEF SettleRead
<1>2. entry[1] \in Jobs
  BY DEF IInv, SweepOK, SweepRec
<1>3. PICK pc \in {"settle", "cancel", "fail", "ready"}, text \in SUBSET AllPages :
        Picked(s, pc, entry, text) /\ (pc = "ready" => text = AllPages)
  BY <1>1, <1>2, CoverageIsWhole DEF HasChunks
<1> QED
  BY <1>3, PickedStep DEF SettleRead

LEMMA AdoptStep ==
  ASSUME IInv, NEW s \in Sweepers, Adopt(s)
  PROVE  IInv' /\ Moves
<1>1. PICK j \in Jobs : j = sweep[s].job /\ ResetChunks(j)
  BY DEF Adopt, IInv, SweepOK, SweepRec
<1>2. ChunkOK' /\ Moves /\ HasChunks(j)' /\ GenOK' /\ MaterialOK'
  BY <1>1, Reset
<1>3. Keeps
  BY <1>1, <1>2 DEF ResetChunks, SetMaterial, Whole, IInv, MaterialOK, Keeps
<1>4. SweepOK'
  BY <1>1, <1>2, <1>3, SweepGoes DEF Adopt, HasChunks
<1> QED
  BY <1>2, <1>3, <1>4, Same, Frame DEF Adopt, IInv

LEMMA CancelChunksStep ==
  ASSUME IInv, NEW s \in Sweepers, CancelChunks(s)
  PROVE  IInv' /\ Moves
<1> DEFINE j == sweep[s].job
           rows == [i \in DOMAIN chunk[j] |-> IF chunk[j][i].status = "submitted"
                      THEN chunk[j][i] ELSE Released(chunk[j][i], "cancelled")]
<1>1. j \in Jobs
  BY DEF IInv, SweepOK, SweepRec
<1>2. chunk' = [chunk EXCEPT ![j] = rows]
  BY DEF CancelChunks
<1>3. DOMAIN chunk' = Jobs /\ chunk'[j] = rows /\ \A k \in Jobs \ {j} : chunk'[k] = chunk[k]
  BY <1>1, <1>2 DEF IInv, ChunkOK
<1>4. ASSUME NEW i \in DOMAIN chunk[j] PROVE Follows(chunk[j][i], rows[i])
  <2>1. RowOK(chunk[j][i])
    BY <1>1 DEF IInv, ChunkOK
  <2>2. rows[i] = Released(chunk[j][i], "cancelled") \/ rows[i] = chunk[j][i]
    OBVIOUS
  <2> QED
    BY <2>1, <2>2, RowReleased, RowSame DEF ChunkStatus
<1>5. DOMAIN rows = DOMAIN chunk[j]
  OBVIOUS
<1> HIDE DEF j, rows
<1>6. ASSUME NEW k \in Jobs
      PROVE  /\ DOMAIN chunk'[k] = DOMAIN chunk[k]
             /\ \A i \in DOMAIN chunk[k] : Follows(chunk[k][i], chunk'[k][i])
  <2>1. CASE k = j
    BY <1>3, <1>4, <1>5, <2>1
  <2>2. CASE k # j
    BY <1>3, <2>2, RowSame DEF IInv, ChunkOK
  <2> QED
    BY <2>1, <2>2
<1>7. ChunkOK' /\ Moves
  BY <1>3, <1>6, UpdateAll DEF CancelChunks
<1>8. MaterialOK' /\ Keeps
  BY <1>7, MaterialSet DEF CancelChunks, Keeps
<1>9. SweepOK'
  BY <1>8, SweepGoes DEF CancelChunks
<1> QED
  BY <1>7, <1>8, <1>9, Same, Frame DEF CancelChunks, IInv

\* finalizeFailed and finalizeReady write the material.
LEMMA FinalizeStep ==
  ASSUME IInv, NEW s \in Sweepers, FailMaterial(s) \/ ReadyMaterial(s)
  PROVE  IInv' /\ Moves
<1>1. CASE FailMaterial(s)
  <2>1. MaterialOK' /\ (Whole => Whole')
    BY <1>1, MaterialSet DEF FailMaterial
  <2>2. ChunkOK' /\ Moves /\ Keeps
    BY <1>1, <2>1, ChunkSame DEF FailMaterial, Keeps
  <2>3. SweepOK'
    BY <1>1, <2>2, SweepGoes DEF FailMaterial
  <2> QED
    BY <1>1, <2>1, <2>2, <2>3, Same, Frame DEF FailMaterial, IInv
<1>2. CASE ReadyMaterial(s)
  <2>1. sweep[s].text = AllPages
    BY <1>2 DEF ReadyMaterial, SweepAt, IInv, SweepOK, RunOK
  <2>2. MaterialOK' /\ Whole'
    BY <1>2, <2>1 DEF ReadyMaterial, MaterialOK, MaterialStatus, Whole
  <2>3. ChunkOK' /\ Moves /\ Keeps
    BY <1>2, <2>2, ChunkSame DEF ReadyMaterial, Keeps
  <2>4. SweepOK'
    BY <1>2, <2>2, <2>3, SweepGoes DEF ReadyMaterial
  <2> QED
    BY <1>2, <2>2, <2>3, <2>4, Same, Frame DEF ReadyMaterial, IInv
<1> QED
  BY <1>1, <1>2

\* MarkAdopted and SettleJob write the job.
LEMMA SweepJobStep ==
  ASSUME IInv, NEW s \in Sweepers, MarkAdopted(s) \/ SettleJob(s)
  PROVE  IInv' /\ Moves
<1>1. /\ Moves /\ Keeps /\ ChunkOK' /\ GenOK' /\ RegistryOK' /\ WorkerOK' /\ CallsOK'
      /\ UserOK' /\ MaterialOK' /\ BudgetOK' /\ (Whole => Whole')
  BY Same, RequestFrame DEF MarkAdopted, SettleJob
<1>2. PICK j \in Jobs, status \in {"processing", "cancelled", "failed", "completed"} :
        /\ j = sweep[s].job /\ SetJob(j, status)
        /\ status = "processing" => HasChunks(j)'
        /\ status = "completed" => Whole'
  BY <1>1 DEF MarkAdopted, SettleJob, SweepAt, IInv, SweepOK, RunOK, SweepRec, Moves
<1>3. JobOK'
  BY <1>1, <1>2, JobSet DEF JobStatus
<1>4. SweepOK'
  BY <1>1, SweepGoes DEF MarkAdopted, SettleJob
<1> QED
  BY <1>1, <1>3, <1>4 DEF IInv

LEMMA EndSweepStep ==
  ASSUME IInv, NEW s \in Sweepers, EndSweep(s)
  PROVE  IInv' /\ Moves
<1>1. RunOK(IdleSweep)'
  BY Numbers DEF RunOK, IdleSweep, SweepRec
<1>2. SweepOK'
  BY <1>1, ProcessesOnly, SweepSet DEF EndSweep
<1> QED
  BY <1>2, ProcessesOnly, Same DEF EndSweep, IInv

-----------------------------------------------------------------------------
(* The invariant, and what follows from it.                                *)

LEMMA InitIInv == Init => IInv
<1> SUFFICES ASSUME Init PROVE IInv
  OBVIOUS
<1>1. \A j \in Jobs : DOMAIN chunk[j] = {}
  BY DEF Init
<1>2. JobOK /\ ChunkOK /\ GenOK
  BY <1>1 DEF Init, JobOK, ChunkOK, GenOK, JobStatus
<1>3. MaterialOK /\ RegistryOK
  BY DEF Init, MaterialOK, MaterialStatus, RegistryOK
<1>4. WorkerOK /\ CallsOK
  BY DEF Init, WorkerOK, AtWork, WorkerRec, IdleWorker, CallsOK, CallOK, WaitedFor, OneAnswer
<1>5. RequestOK(IdleUser) /\ RunOK(IdleSweep)
  BY Numbers DEF RequestOK, IdleUser, UserRec, JobStatus, RunOK, IdleSweep, SweepRec
<1>6. UserOK /\ SweepOK
  BY <1>5 DEF Init, UserOK, RequestOK, SweepOK, RunOK
<1>7. BudgetOK
  BY OcrAssumption DEF Init, BudgetOK
<1> QED
  BY <1>2, <1>3, <1>4, <1>6, <1>7 DEF IInv

LEMMA NextIInv == IInv /\ Next => IInv' /\ Moves
<1> SUFFICES ASSUME IInv, Next PROVE IInv' /\ Moves
  OBVIOUS
<1>1. ASSUME NEW w \in Workers, WorkerStep(w) PROVE IInv' /\ Moves
  BY <1>1, ClaimStep, ClaimRefusedStep, ExtractStep, HeartbeatStep, ReportStep DEF WorkerStep
<1>2. CASE CallStep
  BY <1>2, SubmitTxStep, MaterializeStep, FailTxStep DEF CallStep
<1>3. ASSUME NEW u \in Users, RequestStep(u) \/ StaffStep(u) PROVE IInv' /\ Moves
  BY <1>3, ProcessMaterialStep, InsertJobStep, EnqueueJobStep, WriteJobStep, FailEnqueuedStep,
     RevertMaterialStep, CreateJobStep, ReadJobStep DEF RequestStep, StaffStep
<1>4. ASSUME NEW s \in Sweepers, SweepStep(s) PROVE IInv' /\ Moves
  BY <1>4, ReclaimStep, RetryFailedStep, ReadJobsStep, ReadMaterialStep, SettleReadStep,
     AdoptStep, CancelChunksStep, FinalizeStep, SweepJobStep, EndSweepStep DEF SweepStep
<1>5. CASE Environment
  BY <1>5, LeaseExpiresStep, ClientTimeoutStep, WorkerCrashStep, WorkerRestartStep,
     SetEnabledStep, EnqueueErrorStep, ApiCrashStep DEF Environment
<1> QED
  BY <1>1, <1>2, <1>3, <1>4, <1>5 DEF Next

\* The invariant is kept by every step: by every statement of the API, the sweep and the
\* workers, and by a crash of either process between two of them.
THEOREM AlwaysIInv == Spec => []IInv
<1>1. IInv /\ [Next]_vars => IInv'
  <2> SUFFICES ASSUME IInv, [Next]_vars PROVE IInv'
    OBVIOUS
  <2>1. CASE Next
    BY <2>1, NextIInv
  <2>2. CASE UNCHANGED vars
    <3>1. UNCHANGED <<job, chunk, gen, material, registry, worker, calls, user, sweep, budget>>
      BY <2>2 DEF vars
    <3> QED
      BY <3>1, ProcessesOnly, Same DEF IInv
  <2> QED
    BY <2>1, <2>2
<1> QED
  BY InitIInv, <1>1, PTL DEF Spec

\* Every column holds a value of its type, and every process is in a state of its own.
THEOREM TypesAlwaysOK == Spec => []TypeOK
<1>1. IInv => TypeOK
  BY DEF IInv, JobOK, ChunkOK, RowOK, GenOK, MaterialOK, RegistryOK, WorkerOK, WorkerRec,
         CallsOK, CallOK, UserOK, UserRec, SweepOK, SweepRec, BudgetOK, TypeOK
<1> QED
  BY <1>1, AlwaysIInv, PTL

\* Claim, the two transactions of a worker, the reclaim and the cancellation of a sweep
\* set the status, the holder and the lease of a row together.
THEOREM LeasesAlwaysCoherent == Spec => []LeaseCoherent
<1>1. IInv => LeaseCoherent
  BY RefsFound DEF LeaseCoherent, RowOK
<1> QED
  BY <1>1, AlwaysIInv, PTL

\* Neither a claim that skips locked rows nor a transaction of a worker that lost its
\* chunk hands a chunk under a live lease to somebody else.
THEOREM LiveLeasesNotStolen == Spec => LiveLeaseNotStolen
<1>1. ASSUME IInv, [Next]_vars, NEW r \in Refs, RowOf(r).lease = "live", Exists(r)'
      PROVE  RowOf(r)'.by \in {RowOf(r).by, NoWorker}
  <2>1. Moves
    <3>1. CASE Next
      BY <1>1, <3>1, NextIInv
    <3>2. CASE UNCHANGED vars
      BY <1>1, <3>2, ChunkSame DEF vars
    <3> QED
      BY <1>1, <3>1, <3>2
  <2>2. /\ r.job \in Jobs /\ r.index \in DOMAIN chunk[r.job] /\ Exists(r)
        /\ RowOf(r) = chunk[r.job][r.index]
    BY <1>1, RefsFound
  <2>3. r.index \in DOMAIN chunk'[r.job] /\ chunk'[r.job][r.index].gen = chunk[r.job][r.index].gen
    BY <1>1, <2>2 DEF Exists
  <2> QED
    BY <1>1, <2>1, <2>2, <2>3 DEF Moves, Handed, RowOf
<1>2. IInv /\ [Next]_vars =>
        [\A r \in Refs : RowOf(r).lease = "live" /\ Exists(r)' =>
           RowOf(r)'.by \in {RowOf(r).by, NoWorker}]_vars
  BY <1>1
<1> QED
  BY <1>2, AlwaysIInv, PTL DEF Spec, LiveLeaseNotStolen

\* Whatever the order of results, retries, sweeps and crashes, a material is published,
\* and its job completed, with the text of all its pages.
THEOREM ReadyAlwaysWhole == Spec => []ReadyIsWhole
<1>1. IInv => ReadyIsWhole
  BY DEF IInv, JobOK, MaterialOK, Whole, ReadyIsWhole
<1> QED
  BY <1>1, AlwaysIInv, PTL

\* enqueueJob commits the first chunk before its caller writes processing, and a cancel
\* writes cancelling only over a job it has read active: no job waits for chunks it lacks.
THEOREM ActiveJobsAlwaysHaveChunks == Spec => []ActiveJobHasChunks
<1>1. IInv => ActiveJobHasChunks
  BY DEF IInv, JobOK, HasChunks, ActiveJobHasChunks
<1> QED
  BY <1>1, AlwaysIInv, PTL
-----------------------------------------------------------------------------
(* Without a crash of the API, a document's chunks follow one another to   *)
(* the last page.                                                          *)

NoApiCrash == budget["apiCrash"] = 0

\* The call that submitted chunk i of job j is about to create the next one.
Continuing(j, i) ==
  \E c \in calls : c.op = "submit" /\ c.pc = "next" /\ c.ref.job = j /\ c.ref.index = i

\* A submitted chunk has its pages and a next one, needs none, or is about to get it.
Chain(j) ==
  /\ HasChunks(j) => 1 \in DOMAIN chunk[j]
  /\ \A i \in DOMAIN chunk[j] : chunk[j][i].status = "submitted" =>
       /\ chunk[j][i].pages = PagesOf(i)
       /\ BeyondEnd(i + 1) \/ i + 1 \in DOMAIN chunk[j] \/ Continuing(j, i)
\* Calls are about jobs that have chunks.
Founded == \A c \in calls : HasChunks(c.ref.job)
CInv == NoApiCrash /\ Founded /\ \A j \in Jobs : Chain(j)

\* Each page is on a chunk of the LastIndex.
LEMMA PageOnChunk ==
  ASSUME NEW p \in AllPages
  PROVE  \E i \in 1 .. LastIndex : p \in PagesOf(i)
<1> DEFINE k == (p - 1) \div ChunkSize
           i == k + 1
<1>1. /\ ChunkSize \in Nat \ {0} /\ PageCount \in Nat \ {0}
      /\ p \in Nat /\ p - 1 \in Nat /\ PageCount - 1 \in Nat /\ 1 <= p /\ p <= PageCount
  BY Numbers DEF AllPages
<1>2. ASSUME NEW n \in Nat, NEW c \in Nat \ {0}
      PROVE  n \div c \in Nat /\ (n \div c) * c <= n /\ n < (n \div c + 1) * c
  OBVIOUS
<1>3. k \in Nat /\ k * ChunkSize <= p - 1 /\ p - 1 < (k + 1) * ChunkSize
  BY <1>1, <1>2
<1>4. k <= (PageCount - 1) \div ChunkSize
  <2>1. ASSUME NEW m \in Nat, NEW n \in Nat, NEW c \in Nat \ {0}, m <= n
        PROVE  m \div c <= n \div c
    <3> DEFINE a == m \div c
               b == n \div c
    <3>1. a \in Nat /\ b \in Nat /\ a * c <= m /\ n < (b + 1) * c
      BY <1>2
    <3> HIDE DEF a, b
    <3>2. CASE b + 1 <= a
      <4>1. (b + 1) * c <= a * c /\ (b + 1) * c \in Nat /\ a * c \in Nat
        BY <3>1, <3>2
      <4> QED
        BY <2>1, <3>1, <4>1
    <3>3. a <= b
      BY <3>1, <3>2
    <3> QED
      BY <3>3 DEF a, b
  <2> QED
    BY <1>1, <2>1
<1> HIDE DEF k
<1>5. i \in 1 .. LastIndex
  BY <1>1, <1>3, <1>4, Numbers DEF LastIndex
<1>6. (i - 1) * ChunkSize = k * ChunkSize /\ i * ChunkSize = (k + 1) * ChunkSize
  BY <1>3
<1>7. k * ChunkSize \in Nat /\ (k + 1) * ChunkSize \in Nat
  BY <1>1, <1>3, Product
<1>8. StartPage(i) \in Nat /\ StartPage(i) <= p
  BY <1>1, <1>3, <1>6, <1>7 DEF StartPage
<1>9. EndPage(i) \in Nat /\ p <= EndPage(i)
  BY <1>1, <1>3, <1>6, <1>7 DEF EndPage
<1> HIDE DEF i
<1>10. p \in PagesOf(i)
  BY <1>1, <1>8, <1>9 DEF PagesOf
<1> QED
  BY <1>5, <1>10

\* Chunks before the last one have a next one.
LEMMA NotBeyond ==
  ASSUME NEW i \in 1 .. LastIndex, i + 1 \in 1 .. LastIndex
  PROVE  ~BeyondEnd(i + 1)
<1>1. /\ ChunkSize \in Nat \ {0} /\ PageCount \in Nat \ {0} /\ PageCount - 1 \in Nat
      /\ i <= (PageCount - 1) \div ChunkSize /\ i \in Nat
  BY Numbers DEF LastIndex
<1>2. ~SinglePage
  <2>1. CASE SinglePage
    <3>1. PageCount = 1
      BY <2>1, OcrAssumption
    <3>2. (PageCount - 1) \div ChunkSize = 0
      <4>1. ASSUME NEW c \in Nat \ {0} PROVE 0 \div c = 0
        OBVIOUS
      <4> QED
        BY <1>1, <3>1, <4>1
    <3> QED
      BY <1>1, <3>2
  <2> QED
    BY <2>1
<1>3. ASSUME NEW n \in Nat, NEW c \in Nat \ {0}, NEW m \in Nat, m <= n \div c
      PROVE  m * c <= n
  <2>1. n \div c \in Nat /\ (n \div c) * c <= n
    OBVIOUS
  <2>2. m * c <= (n \div c) * c
    BY <1>3, <2>1
  <2> QED
    BY <2>1, <2>2
<1>4. i * ChunkSize <= PageCount - 1
  BY <1>1, <1>3
<1>5. StartPage(i + 1) = i * ChunkSize + 1 /\ i * ChunkSize \in Nat
  BY <1>1, Product DEF StartPage
<1> QED
  BY <1>1, <1>2, <1>4, <1>5 DEF BeyondEnd, ReportedTotal

\* A chain that is submitted to its end, with no call under way, covers the document: the
\* last chunk without a gap before it is the last of all.
LEMMA ChainCovers ==
  ASSUME IInv, NEW j \in Jobs, Chain(j), AllSubmitted(j), \A c \in calls : c.ref.job # j
  PROVE  CoveredPages(chunk[j]) = AllPages
<1> DEFINE S == {i \in 1 .. LastIndex : \A k \in 1 .. i : k \in DOMAIN chunk[j]}
<1>1. /\ DOMAIN chunk[j] \subseteq 1 .. LastIndex /\ 1 \in DOMAIN chunk[j]
      /\ \A i \in DOMAIN chunk[j] : /\ chunk[j][i].pages = PagesOf(i)
                                    /\ BeyondEnd(i + 1) \/ i + 1 \in DOMAIN chunk[j]
  BY DEF IInv, ChunkOK, Chain, AllSubmitted, HasChunks, Continuing
<1>2. 1 \in S
  BY <1>1, Numbers
<1>3. IsFiniteSet(1 .. LastIndex)
  BY Numbers, FS_Interval
<1>4. S \subseteq Nat /\ S # {} /\ IsFiniteSet(S)
  <2>1. S \subseteq 1 .. LastIndex
    OBVIOUS
  <2> HIDE DEF S
  <2>2. IsFiniteSet(S)
    BY <1>3, <2>1, FS_Subset
  <2>3. S \subseteq Nat
    BY <2>1, Numbers
  <2> QED
    BY <1>2, <2>2, <2>3
<1>5. PICK m \in S : \A i \in S : i <= m
  <2> HIDE DEF S
  <2> QED
    BY <1>4, MaxOfFinite
<1>6. m = LastIndex
  <2>1. CASE m + 1 \in 1 .. LastIndex
    <3>1. m \in DOMAIN chunk[j] /\ m + 1 \in DOMAIN chunk[j]
      BY <1>1, <2>1, NotBeyond
    <3>2. m + 1 \in S
      BY <2>1, <3>1
    <3> QED
      BY <1>5, <3>2
  <2> QED
    BY <2>1, Numbers
<1>7. \A i \in 1 .. LastIndex : i \in DOMAIN chunk[j]
  BY <1>5, <1>6
<1>8. AllPages \subseteq CoveredPages(chunk[j])
  BY <1>1, <1>7, PageOnChunk DEF CoveredPages
<1>9. CoveredPages(chunk[j]) \subseteq AllPages
  BY <1>1, PagesIn DEF CoveredPages
<1> QED
  BY <1>8, <1>9

\* A step that submits no chunk of job j and takes none away leaves the chain in order.
LEMMA ChainKept ==
  ASSUME NEW j \in Jobs, Chain(j), DOMAIN chunk'[j] = DOMAIN chunk[j],
         \A i \in DOMAIN chunk[j] : chunk'[j][i].status = "submitted" =>
           chunk[j][i].status = "submitted" /\ chunk'[j][i].pages = chunk[j][i].pages,
         \A i : Continuing(j, i) => BeyondEnd(i + 1) \/ i + 1 \in DOMAIN chunk'[j] \/ Continuing(j, i)'
  PROVE  Chain(j)'
BY DEF Chain, HasChunks, BeyondEnd, StartPage, PagesOf, EndPage, ReportedTotal

\* Calls that are about to create a chunk still are.
LEMMA ContinuingKept ==
  ASSUME \A c \in calls : c.op = "submit" /\ c.pc = "next" =>
           \E d \in calls' : d.op = "submit" /\ d.pc = "next" /\ d.ref = c.ref
  PROVE  \A j, i : Continuing(j, i) => Continuing(j, i)'
BY DEF Continuing

\* The statements that update one row: all but the one that submits it.
Quiet(old, new) == new.status = "submitted" => old.status = "submitted" /\ new.pages = old.pages

LEMMA UpdateKeepsChain ==
  ASSUME IInv, NEW j \in Jobs, Chain(j), NEW r \in Ref, NEW row, UpdateRow(r, row),
         Exists(r) => Quiet(RowOf(r), row),
         \A i : Continuing(j, i) => Continuing(j, i)'
  PROVE  Chain(j)'
<1>1. CASE ~Exists(r)
  <2>1. chunk' = chunk
    BY <1>1 DEF UpdateRow
  <2> QED
    BY <2>1, ChainKept
<1>2. CASE Exists(r)
  <2>1. r.job \in Jobs /\ r.index \in DOMAIN chunk[r.job]
    BY <1>2 DEF Ref, Exists
  <2>2. chunk' = [chunk EXCEPT ![r.job] = [chunk[r.job] EXCEPT ![r.index] = row]]
    BY <1>2 DEF UpdateRow
  <2>3. chunk'[j] = IF j = r.job THEN [chunk[j] EXCEPT ![r.index] = row] ELSE chunk[j]
    BY <2>1, <2>2 DEF IInv, ChunkOK
  <2>4. DOMAIN chunk'[j] = DOMAIN chunk[j]
    BY <2>3
  <2>5. \A i \in DOMAIN chunk[j] : Quiet(chunk[j][i], chunk'[j][i])
    <3>1. CASE j # r.job
      BY <2>3, <3>1 DEF Quiet
    <3>2. CASE j = r.job
      <4>1. \A i \in DOMAIN chunk[j] : chunk'[j][i] = IF i = r.index THEN row ELSE chunk[j][i]
        BY <2>1, <2>3, <3>2
      <4> QED
        BY <1>2, <3>2, <4>1 DEF Quiet, RowOf
    <3> QED
      BY <3>1, <3>2
  <2> QED
    BY <2>4, <2>5, ChainKept DEF Quiet
<1> QED
  BY <1>1, <1>2

\* A chunk set built anew has its first chunk, which is pending.
LEMMA ResetChain ==
  ASSUME IInv, NEW j \in Jobs, Chain(j), NEW k \in Jobs, ResetChunks(k), UNCHANGED calls
  PROVE  Chain(j)'
<1>1. \A i : Continuing(j, i) => Continuing(j, i)'
  BY DEF Continuing
<1>2. CASE j = k
  <2>1. chunk'[j] = [i \in {1} |-> NewRow(gen[j] + 1, NoPages)]
    BY <1>2 DEF ResetChunks, IInv, ChunkOK
  <2>2. DOMAIN chunk'[j] = {1} /\ chunk'[j][1].status = "pending"
    BY <2>1 DEF NewRow
  <2> QED
    BY <2>2 DEF Chain
<1>3. CASE j # k
  <2>1. chunk'[j] = chunk[j]
    BY <1>3 DEF ResetChunks, IInv, ChunkOK
  <2> QED
    BY <1>1, <2>1, ChainKept
<1> QED
  BY <1>2, <1>3

LEMMA SubmitTxChain ==
  ASSUME IInv, NEW j \in Jobs, Chain(j), NEW c \in calls, SubmitTx(c)
  PROVE  Chain(j)'
<1> DEFINE total == IF ReportedTotal # NoPages THEN ReportedTotal ELSE c.total
           row == [Released(RowOf(c.ref), "submitted")
                     EXCEPT !.pages = PagesOf(c.ref.index), !.total = total]
           n == c.ref.index
<1>1. c.ref \in Ref /\ n \in 1 .. LastIndex /\ UpdateRow(c.ref, row) /\ c.op = "submit" /\ c.pc = "tx"
  BY CallIs DEF SubmitTx
<1>2. \A i : Continuing(j, i) => Continuing(j, i)'
  <2>1. \A d \in calls : d.pc = "next" => d \in calls'
    BY <1>1 DEF SubmitTx, Respond
  <2> QED
    BY <2>1 DEF Continuing
<1>3. CASE ~Exists(c.ref) \/ j # c.ref.job
  <2>1. chunk'[j] = chunk[j]
    BY <1>1, <1>3 DEF UpdateRow, IInv, ChunkOK
  <2> QED
    BY <1>2, <2>1, ChainKept
<1>4. CASE Exists(c.ref) /\ j = c.ref.job
  <2>1. /\ DOMAIN chunk'[j] = DOMAIN chunk[j] /\ n \in DOMAIN chunk[j]
        /\ chunk'[j][n] = row /\ \A i \in DOMAIN chunk[j] \ {n} : chunk'[j][i] = chunk[j][i]
    BY <1>1, <1>4 DEF UpdateRow, IInv, ChunkOK, Exists
  <2>2. row.pages = PagesOf(n)
    <3>1. RowOK(RowOf(c.ref)) /\ "submitted" \in ChunkStatus
      BY <1>1, <1>4, Found DEF ChunkStatus
    <3>2. Released(RowOf(c.ref), "submitted") \in Row
      BY <3>1, RowReleased
    <3> QED
      BY <3>2 DEF Row
  <2>3. BeyondEnd(n + 1) \/ Continuing(j, n)'
    <3>1. CASE ReportedTotal # NoPages
      <4> DEFINE next == [c EXCEPT !.pc = "next"]
      <4>1. next \in calls'
        BY <3>1 DEF SubmitTx
      <4>2. next.op = "submit" /\ next.pc = "next" /\ next.ref = c.ref
        BY <1>1, CallIs DEF CallOK, Call
      <4> HIDE DEF next
      <4> QED
        BY <1>4, <4>1, <4>2 DEF Continuing
    <3>2. CASE ReportedTotal = NoPages
      <4>1. n * ChunkSize \in Nat /\ StartPage(n + 1) = n * ChunkSize + 1
        BY <1>1, Numbers, Product DEF StartPage
      <4> QED
        BY <3>2, <4>1 DEF BeyondEnd, NoPages
    <3> QED
      BY <3>1, <3>2
  <2> HIDE DEF row, n
  <2>4. ASSUME NEW i \in DOMAIN chunk'[j], chunk'[j][i].status = "submitted"
        PROVE  /\ chunk'[j][i].pages = PagesOf(i)
               /\ BeyondEnd(i + 1) \/ i + 1 \in DOMAIN chunk'[j] \/ Continuing(j, i)'
    BY <1>2, <2>1, <2>2, <2>3, <2>4 DEF Chain
  <2>5. HasChunks(j)' => 1 \in DOMAIN chunk'[j]
    BY <2>1 DEF Chain, HasChunks
  <2> QED
    BY <2>4, <2>5 DEF Chain, BeyondEnd, StartPage, PagesOf, EndPage, ReportedTotal
<1> QED
  BY <1>3, <1>4

LEMMA MaterializeChain ==
  ASSUME IInv, NEW j \in Jobs, Chain(j), NEW c \in calls, MaterializeNextChunk(c),
         HasChunks(c.ref.job)
  PROVE  Chain(j)'
<1> DEFINE k == c.ref.job
           n == c.ref.index + 1
<1>1. k \in Jobs /\ calls' = calls \ {c}
  BY CallIs DEF MaterializeNextChunk, Respond
<1>2. HasChunks(k)
  OBVIOUS
<1>3. /\ DOMAIN chunk[j] \subseteq DOMAIN chunk'[j]
      /\ \A i \in DOMAIN chunk[j] : chunk'[j][i] = chunk[j][i]
      /\ \A i \in DOMAIN chunk'[j] \ DOMAIN chunk[j] : chunk'[j][i].status = "pending"
      /\ j = k => BeyondEnd(n) \/ n \in DOMAIN chunk'[j]
      /\ HasChunks(j)' => HasChunks(j)
  <2>1. CASE UNCHANGED chunk /\ (BeyondEnd(n) \/ n \in DOMAIN chunk[k])
    BY <2>1 DEF HasChunks
  <2>2. CASE /\ n \notin DOMAIN chunk[k]
             /\ chunk' = [chunk EXCEPT ![k] = WithRow(chunk[k], n, NewRow(gen[k], ReportedTotal))]
    <3>1. CASE j = k
      <4>1. chunk'[j] = WithRow(chunk[j], n, NewRow(gen[j], ReportedTotal))
        BY <2>2, <3>1 DEF IInv, ChunkOK
      <4>2. /\ DOMAIN chunk'[j] = DOMAIN chunk[j] \cup {n}
            /\ \A i \in DOMAIN chunk[j] \ {n} : chunk'[j][i] = chunk[j][i]
            /\ chunk'[j][n].status = "pending"
        BY <4>1 DEF WithRow, NewRow
      <4> HIDE DEF n
      <4> QED
        BY <1>2, <2>2, <3>1, <4>2 DEF HasChunks
    <3>2. CASE j # k
      <4>1. chunk'[j] = chunk[j]
        BY <2>2, <3>2 DEF IInv, ChunkOK
      <4> QED
        BY <3>2, <4>1 DEF HasChunks
    <3> QED
      BY <3>1, <3>2
  <2> QED
    BY <2>1, <2>2 DEF MaterializeNextChunk
<1>4. \A i : Continuing(j, i) => BeyondEnd(i + 1) \/ i + 1 \in DOMAIN chunk'[j] \/ Continuing(j, i)'
  BY <1>1, <1>3 DEF Continuing
<1>5. ASSUME NEW i \in DOMAIN chunk'[j], chunk'[j][i].status = "submitted"
      PROVE  /\ chunk'[j][i].pages = PagesOf(i)
             /\ BeyondEnd(i + 1) \/ i + 1 \in DOMAIN chunk'[j] \/ Continuing(j, i)'
  BY <1>3, <1>4, <1>5 DEF Chain
<1>6. HasChunks(j)' => 1 \in DOMAIN chunk'[j]
  BY <1>3 DEF Chain, HasChunks
<1> QED
  BY <1>5, <1>6 DEF Chain, BeyondEnd, StartPage, PagesOf, EndPage, ReportedTotal

\* The steps of workers, of people and of a sweep.
LEMMA WorkerChain ==
  ASSUME IInv, CInv, NEW w \in Workers, WorkerStep(w), NEW j \in Jobs
  PROVE  Chain(j)'
<1>1. Chain(j)
  BY DEF CInv
<1>2. CASE Claim(w)
  <2>1. PICK r \in Refs : Claimable(r) /\ UpdateRow(r, ClaimedBy(RowOf(r), w))
    BY <1>2 DEF Claim, ClaimedBy
  <2>2. r \in Ref /\ RowOf(r) \in Row
    BY RefsFound
  <2>3. Quiet(RowOf(r), ClaimedBy(RowOf(r), w))
    BY <2>2 DEF Quiet, ClaimedBy, Row
  <2>4. \A i : Continuing(j, i) => Continuing(j, i)'
    BY <1>2 DEF Claim, Continuing
  <2> QED
    BY <1>1, <2>1, <2>2, <2>3, <2>4, UpdateKeepsChain
<1>3. CASE Heartbeat(w)
  <2> DEFINE r == registry[w].current
             row == [RowOf(r) EXCEPT !.lease = "live"]
  <2>1. r \in Ref /\ Exists(r) /\ UpdateRow(r, row)
    BY <1>3 DEF Heartbeat, IInv, RegistryOK
  <2>2. RowOf(r) \in Row
    BY <2>1, Found
  <2>3. Quiet(RowOf(r), row)
    BY <2>2 DEF Quiet, Row
  <2>4. \A i : Continuing(j, i) => Continuing(j, i)'
    BY <1>3 DEF Heartbeat, Continuing
  <2> HIDE DEF r, row
  <2> QED
    BY <1>1, <2>1, <2>3, <2>4, UpdateKeepsChain
<1>4. CASE ClaimRefused(w) \/ Extract(w) \/ Submit(w) \/ ReportFailure(w)
  <2>1. chunk' = chunk /\ calls \subseteq calls'
    BY <1>4 DEF ClaimRefused, Extract, Submit, ReportFailure, Accept
  <2>2. \A i : Continuing(j, i) => Continuing(j, i)'
    BY <2>1 DEF Continuing
  <2> QED
    BY <1>1, <2>1, <2>2, ChainKept
<1> QED
  BY <1>2, <1>3, <1>4 DEF WorkerStep

LEMMA CallChain ==
  ASSUME IInv, CInv, CallStep, NEW j \in Jobs
  PROVE  Chain(j)'
<1>1. Chain(j)
  BY DEF CInv
<1>2. ASSUME NEW c \in calls, FailTx(c) PROVE Chain(j)'
  <2> DEFINE status == IF c.permanent \/ c.attempts >= MaxAttempts THEN "failed" ELSE "pending"
             old == RowOf(c.ref)
             row == [Released(old, status) EXCEPT !.permanent = c.permanent]
  <2>1. c.ref \in Ref /\ UpdateRow(c.ref, row) /\ c.op = "fail"
    BY <1>2, CallIs DEF FailTx
  <2>2. ASSUME Exists(c.ref) PROVE Quiet(old, row)
    <3>1. RowOK(old) /\ status \in ChunkStatus /\ status \notin {"claimed", "submitted"}
      BY <2>1, <2>2, Found DEF ChunkStatus
    <3> HIDE DEF old, status
    <3>2. Released(old, status) \in Row /\ Released(old, status).status = status
      BY <3>1, RowReleased
    <3>3. row.status = status
      BY <3>2 DEF Row
    <3> QED
      BY <3>1, <3>3 DEF Quiet
  <2>3. \A i : Continuing(j, i) => Continuing(j, i)'
    BY <1>2, <2>1 DEF FailTx, Respond, Continuing
  <2> HIDE DEF row
  <2> QED
    BY <1>1, <2>1, <2>2, <2>3, UpdateKeepsChain
<1> QED
  BY <1>1, <1>2, SubmitTxChain, MaterializeChain DEF CallStep, CInv, Founded

LEMMA RequestChain ==
  ASSUME IInv, CInv, NEW u \in Users, RequestStep(u) \/ StaffStep(u), NEW j \in Jobs
  PROVE  Chain(j)'
<1>1. Chain(j)
  BY DEF CInv
<1>2. CASE EnqueueJob(u)
  <2>1. user[u].job \in Jobs
    BY DEF IInv, UserOK, UserRec
  <2> QED
    BY <1>1, <1>2, <2>1, ResetChain DEF EnqueueJob
<1>3. CASE UNCHANGED <<chunk, calls>>
  <2>1. \A i : Continuing(j, i) => Continuing(j, i)'
    BY <1>3 DEF Continuing
  <2> QED
    BY <1>1, <1>3, <2>1, ChainKept
<1>4. EnqueueJob(u) \/ UNCHANGED <<chunk, calls>>
  BY DEF RequestStep, StaffStep, InsertJob, MarkProcessing, FailEnqueued, RevertMaterial, CancelWrite,
         RetryJobWrite, ProcessMaterial, RetryMaterial, CreateJob, CancelRead, RetryJobRead
<1> QED
  BY <1>2, <1>3, <1>4

LEMMA SweepChain ==
  ASSUME IInv, CInv, NEW s \in Sweepers, SweepStep(s), NEW j \in Jobs
  PROVE  Chain(j)'
<1>1. Chain(j) /\ sweep[s].job \in Jobs
  BY DEF CInv, IInv, SweepOK, SweepRec
<1>2. CASE Adopt(s)
  BY <1>1, <1>2, ResetChain DEF Adopt
<1>3. CASE ~Adopt(s)
  <2>1. calls' = calls
    BY DEF SweepStep, Reclaim, RetryFailed, ReadQueued, ReadMaterial, Adopt, MarkAdopted,
           ReadActive, SettleRead, CancelChunks, FailMaterial, ReadyMaterial, SettleJob, EndSweep
  <2>2. DOMAIN chunk'[j] = DOMAIN chunk[j] /\ \A i \in DOMAIN chunk[j] : Quiet(chunk[j][i], chunk'[j][i])
    <3>1. ASSUME NEW i \in DOMAIN chunk[j], NEW status \in {"pending", "cancelled"}
          PROVE  /\ Released(chunk[j][i], status).status = status
                 /\ Quiet(chunk[j][i], [chunk[j][i] EXCEPT !.status = "pending", !.permanent = FALSE])
      <4>1. RowOK(chunk[j][i])
        BY DEF IInv, ChunkOK
      <4> QED
        BY <4>1, RowReleased DEF RowOK, Row, ChunkStatus, Quiet
    <3>2. CASE Reclaim(s)
      BY <3>1, <3>2 DEF Reclaim, Quiet
    <3>3. CASE RetryFailed(s)
      BY <3>1, <3>3 DEF RetryFailed, Quiet
    <3>4. CASE CancelChunks(s)
      <4> DEFINE k == sweep[s].job
      <4>1. chunk' = [chunk EXCEPT ![k] = [i \in DOMAIN chunk[k] |->
                        IF chunk[k][i].status = "submitted" THEN chunk[k][i]
                        ELSE Released(chunk[k][i], "cancelled")]]
        BY <3>4 DEF CancelChunks
      <4>2. CASE j = k
        <5>1. chunk'[j] = [i \in DOMAIN chunk[j] |->
                             IF chunk[j][i].status = "submitted" THEN chunk[j][i]
                             ELSE Released(chunk[j][i], "cancelled")]
          BY <4>1, <4>2 DEF IInv, ChunkOK
        <5> QED
          BY <3>1, <5>1 DEF Quiet
      <4>3. CASE j # k
        <5>1. chunk'[j] = chunk[j]
          BY <4>1, <4>3 DEF IInv, ChunkOK
        <5> QED
          BY <5>1 DEF Quiet
      <4> QED
        BY <4>2, <4>3
    <3>5. CASE UNCHANGED chunk
      BY <3>5 DEF Quiet
    <3> QED
      BY <1>3, <3>2, <3>3, <3>4, <3>5
      DEF SweepStep, ReadQueued, ReadMaterial, MarkAdopted, ReadActive, SettleRead,
          FailMaterial, ReadyMaterial, SettleJob, EndSweep
  <2>3. \A i : Continuing(j, i) => Continuing(j, i)'
    BY <2>1 DEF Continuing
  <2> QED
    BY <1>1, <2>2, <2>3, ChainKept DEF Quiet
<1> QED
  BY <1>2, <1>3

LEMMA EnvironmentChain ==
  ASSUME IInv, CInv, Environment, NEW j \in Jobs
  PROVE  Chain(j)'
<1>1. Chain(j)
  BY DEF CInv
<1>2. ASSUME NEW r \in Refs, LeaseExpires(r) PROVE Chain(j)'
  <2> DEFINE row == [RowOf(r) EXCEPT !.lease = "expired"]
  <2>1. r \in Ref /\ RowOf(r) \in Row /\ UpdateRow(r, row)
    BY <1>2, RefsFound DEF LeaseExpires
  <2>2. Quiet(RowOf(r), row)
    BY <2>1 DEF Quiet, Row
  <2>3. \A i : Continuing(j, i) => Continuing(j, i)'
    BY <1>2 DEF LeaseExpires, Continuing
  <2> HIDE DEF row
  <2> QED
    BY <1>1, <2>1, <2>2, <2>3, UpdateKeepsChain
<1>3. ASSUME chunk' = chunk,
             \A c \in calls : \E d \in calls' : d.op = c.op /\ d.pc = c.pc /\ d.ref = c.ref
      PROVE  Chain(j)'
  <2>1. \A i : Continuing(j, i) => Continuing(j, i)'
    BY <1>3 DEF Continuing
  <2> QED
    BY <1>1, <1>3, <2>1, ChainKept
<1>4. ASSUME NEW c \in calls
      PROVE  LET d == [c EXCEPT !.waiting = FALSE] IN d.op = c.op /\ d.pc = c.pc /\ d.ref = c.ref
  BY CallIs DEF CallOK, Call
<1>5. ASSUME NEW c \in calls, ClientTimeout(c) PROVE Chain(j)'
  <2>1. chunk' = chunk /\ calls' = (calls \ {c}) \cup {[c EXCEPT !.waiting = FALSE]}
    BY <1>5 DEF ClientTimeout
  <2> QED
    BY <1>3, <1>4, <2>1
<1>6. ASSUME NEW w \in Workers, WorkerCrash(w) PROVE Chain(j)'
  <2>1. chunk' = chunk /\ calls' = {IF c.worker = w THEN [c EXCEPT !.waiting = FALSE] ELSE c : c \in calls}
    BY <1>6 DEF WorkerCrash
  <2>2. ASSUME NEW c \in calls
        PROVE  \E d \in calls' : d.op = c.op /\ d.pc = c.pc /\ d.ref = c.ref
    <3> DEFINE d == IF c.worker = w THEN [c EXCEPT !.waiting = FALSE] ELSE c
    <3>1. d \in calls'
      BY <2>1
    <3>2. d.op = c.op /\ d.pc = c.pc /\ d.ref = c.ref
      BY <1>4
    <3> QED
      BY <3>1, <3>2
  <2> QED
    BY <1>3, <2>1, <2>2
<1>7. ASSUME UNCHANGED <<chunk, calls>> PROVE Chain(j)'
  BY <1>3, <1>7
<1>8. ~ApiCrash
  BY DEF ApiCrash, Spend, CInv, NoApiCrash, Events, IInv, BudgetOK
<1> QED
  BY <1>2, <1>5, <1>6, <1>7, <1>8 DEF Environment, WorkerRestart, SetEnabled, EnqueueError

\* No event that has been used up comes back.
LEMMA BudgetFalls ==
  ASSUME IInv, [Next]_vars, NEW e \in Events, budget[e] = 0
  PROVE  budget'[e] = 0
<1>1. CASE UNCHANGED budget
  BY <1>1
<1>2. ASSUME NEW f \in Events, Spend(f) PROVE budget'[e] = 0
  <2>1. f # e
    BY <1>2 DEF Spend, IInv, BudgetOK
  <2> QED
    BY <1>2, <2>1 DEF Spend, IInv, BudgetOK
<1>3. UNCHANGED budget \/ \E f \in Events : Spend(f)
  <2>1. ASSUME NEW w \in Workers, WorkerStep(w) PROVE UNCHANGED budget \/ Spend("fault")
    BY <2>1 DEF WorkerStep, Claim, ClaimRefused, Extract, Heartbeat, Submit, ReportFailure
  <2>2. CASE CallStep
    BY <2>2 DEF CallStep, SubmitTx, MaterializeNextChunk, FailTx
  <2>3. ASSUME NEW u \in Users, RequestStep(u) \/ StaffStep(u)
        PROVE  UNCHANGED budget \/ \E f \in Events : Spend(f)
    BY <2>3 DEF RequestStep, StaffStep, InsertJob, EnqueueJob, MarkProcessing, FailEnqueued,
       RevertMaterial, CancelWrite, RetryJobWrite, ProcessMaterial, RetryMaterial, CreateJob, CancelRead, RetryJobRead, Events
  <2>4. ASSUME NEW s \in Sweepers, SweepStep(s) PROVE UNCHANGED budget \/ Spend("overlap")
    BY <2>4 DEF SweepStep, Reclaim, RetryFailed, ReadQueued, ReadMaterial, Adopt, MarkAdopted,
       ReadActive, SettleRead, CancelChunks, FailMaterial, ReadyMaterial, SettleJob, EndSweep
  <2>5. CASE Environment
    BY <2>5 DEF Environment, LeaseExpires, ClientTimeout, WorkerCrash, WorkerRestart, SetEnabled,
       EnqueueError, ApiCrash, Events
  <2>6. CASE UNCHANGED vars
    BY <2>6 DEF vars
  <2>7. "fault" \in Events /\ "overlap" \in Events
    BY DEF Events
  <2> QED
    BY <2>1, <2>2, <2>3, <2>4, <2>5, <2>6, <2>7 DEF Next
<1> QED
  BY <1>1, <1>2, <1>3

\* A call is accepted only for a chunk that exists, and no job loses its last chunk.
LEMMA FoundedStep ==
  ASSUME IInv, Founded, [Next]_vars
  PROVE  Founded'
<1>1. \A j \in Jobs : HasChunks(j) => HasChunks(j)'
  <2>1. CASE Next
    BY <2>1, NextIInv DEF Moves
  <2>2. CASE UNCHANGED vars
    BY <2>2 DEF vars, HasChunks
  <2> QED
    BY <2>1, <2>2
<1>2. \A c \in calls : c.ref.job \in Jobs /\ HasChunks(c.ref.job)'
  BY <1>1, CallIs DEF Founded
<1>3. \A c \in calls' : (\E d \in calls : d.ref = c.ref) \/ HasChunks(c.ref.job)'
  <2>1. ASSUME NEW w \in Workers, WorkerStep(w)
        PROVE  \A c \in calls' : c \in calls \/ HasChunks(c.ref.job)'
    <3>1. CASE UNCHANGED calls
      BY <3>1
    <3>2. ASSUME NEW op, Accept(w, op), Exists(worker[w].ref), worker[w].pc \in {"submit", "fail"}
          PROVE  \A c \in calls' : c \in calls \/ HasChunks(c.ref.job)'
      <4>1. worker[w].ref \in Ref
        BY <3>2 DEF IInv, WorkerOK, AtWork
      <4>2. DOMAIN chunk'[worker[w].ref.job] # {}
        BY <1>1, <3>2, <4>1 DEF Exists, HasChunks, Ref
      <4>3. \A c \in calls' : c \in calls \/ c.ref = worker[w].ref
        BY <3>2 DEF Accept
      <4> QED
        BY <4>2, <4>3 DEF HasChunks
    <3> QED
      BY <2>1, <3>1, <3>2 DEF WorkerStep, Claim, ClaimRefused, Extract, Heartbeat, Submit,
         ReportFailure, Held
  <2>2. ASSUME CallStep PROVE \A c \in calls' : \E d \in calls : d.ref = c.ref
    <3>1. ASSUME NEW c \in calls PROVE [c EXCEPT !.pc = "next"].ref = c.ref
      BY CallIs DEF CallOK, Call
    <3> QED
      BY <2>2, <3>1 DEF CallStep, SubmitTx, MaterializeNextChunk, FailTx, Respond
  <2>3. ASSUME NEW u \in Users, RequestStep(u) \/ StaffStep(u) PROVE UNCHANGED calls
    BY <2>3 DEF RequestStep, StaffStep, InsertJob, EnqueueJob, MarkProcessing, FailEnqueued,
       RevertMaterial, CancelWrite, RetryJobWrite, ProcessMaterial, RetryMaterial, CreateJob, CancelRead, RetryJobRead
  <2>4. ASSUME NEW s \in Sweepers, SweepStep(s) PROVE UNCHANGED calls
    BY <2>4 DEF SweepStep, Reclaim, RetryFailed, ReadQueued, ReadMaterial, Adopt, MarkAdopted,
       ReadActive, SettleRead, CancelChunks, FailMaterial, ReadyMaterial, SettleJob, EndSweep
  <2>5. ASSUME Environment PROVE \A c \in calls' : \E d \in calls : d.ref = c.ref
    <3>1. ASSUME NEW c \in calls PROVE [c EXCEPT !.waiting = FALSE].ref = c.ref
      BY CallIs DEF CallOK, Call
    <3>2. ASSUME NEW c \in calls, ClientTimeout(c)
          PROVE  \A d \in calls' : d \in calls \/ d.ref = c.ref
      BY <3>1, <3>2 DEF ClientTimeout
    <3>3. ASSUME NEW w \in Workers, WorkerCrash(w)
          PROVE  \A d \in calls' : \E c \in calls : d = c \/ d = [c EXCEPT !.waiting = FALSE]
      BY <3>3 DEF WorkerCrash
    <3>4. CASE UNCHANGED calls \/ calls' = {}
      BY <3>4
    <3> QED
      BY <2>5, <3>1, <3>2, <3>3, <3>4 DEF Environment, LeaseExpires, WorkerRestart, SetEnabled,
         EnqueueError, ApiCrash
  <2>6. CASE UNCHANGED vars
    BY <2>6 DEF vars
  <2> QED
    BY <2>1, <2>2, <2>3, <2>4, <2>5, <2>6 DEF Next
<1> QED
  BY <1>2, <1>3 DEF Founded

\* While the API does not die between the transaction of a result and the insertion of the next
\* chunk (OcrCrash shows what happens when it does), every chunk of a running job exists by the
\* time all are submitted and no result is under way: through results that are late or come
\* twice, leases that expire, chunk sets built anew, cancellations and retries.
THEOREM AllChunksGetMaterialized == Spec /\ NoApiCrash => []AllChunksMaterialized
<1>1. Init /\ NoApiCrash => CInv
  BY DEF Init, CInv, Founded, Chain, HasChunks
<1>2. IInv /\ CInv /\ [Next]_vars => CInv'
  <2> SUFFICES ASSUME IInv, CInv, [Next]_vars PROVE CInv'
    OBVIOUS
  <2>1. NoApiCrash' /\ Founded'
    BY BudgetFalls, FoundedStep DEF CInv, NoApiCrash, Events
  <2>2. ASSUME NEW j \in Jobs PROVE Chain(j)'
    <3>1. CASE UNCHANGED vars
      <4>1. Chain(j) /\ chunk' = chunk /\ calls' = calls
        BY <3>1 DEF vars, CInv
      <4>2. \A i : Continuing(j, i) => Continuing(j, i)'
        BY <4>1 DEF Continuing
      <4> QED
        BY <4>1, <4>2, ChainKept
    <3> QED
      BY <3>1, WorkerChain, CallChain, RequestChain, SweepChain, EnvironmentChain DEF Next
  <2> QED
    BY <2>1, <2>2 DEF CInv
<1>3. IInv /\ CInv => AllChunksMaterialized
  BY ChainCovers DEF CInv, AllChunksMaterialized
<1> QED
  BY AlwaysIInv, <1>1, <1>2, <1>3, PTL DEF Spec

-----------------------------------------------------------------------------
(* Adoption by the sweep alone: no request that starts or cancels a job,   *)
(* and no two sweeps at once.                                              *)

Undisturbed == \A e \in {"process", "retryMaterial", "cancel", "overlap"} : budget[e] = 0

RequestsQuiet == \A u \in Users : user[u].pc \in {"idle", "requeue"}
OneSweep == \A s, t \in Sweepers : sweep[s].pc # "idle" /\ sweep[t].pc # "idle" => s = t

\* What a sweep has read queued and has not reached still is; between its adoption and its
\* mark, so is the adopted job.  A job it is about to settle has left the material settled.
AdoptionOK(rec) ==
  /\ rec.pc \in {"adopt", "enqueue", "mark"} =>
       \A e \in rec.todo : e[2] = "queued" /\ job[e[1]] = "queued"
  /\ rec.pc \in {"enqueue", "mark"} =>
       job[rec.job] = "queued" /\ \A e \in rec.todo : e[1] # rec.job
  /\ rec.pc \in {"cancelled", "failed", "completed"} => material.status # "PROCESSING"
Carried ==
  material.status = "PROCESSING" =>
    \E j \in Jobs : job[j] \in {"queued", "processing", "cancelling"}

UInv ==
  /\ Undisturbed /\ RequestsQuiet /\ OneSweep
  /\ \A s \in Sweepers : AdoptionOK(sweep[s])
  /\ Carried

\* A job that somebody only queues stays what a sweep has read, and active.
LEMMA OnlyQueued ==
  ASSUME IInv, UInv, UNCHANGED <<material, sweep>>,
         \A j \in Jobs : job'[j] = job[j] \/ job'[j] = "queued"
  PROVE  (\A s \in Sweepers : AdoptionOK(sweep[s])') /\ Carried' /\ OneSweep'
<1>1. \A s \in Sweepers : sweep[s].job \in Jobs /\ \A e \in sweep[s].todo : e[1] \in Jobs
  BY DEF IInv, SweepOK, SweepRec
<1>2. \A s \in Sweepers : AdoptionOK(sweep[s])'
  BY <1>1 DEF UInv, AdoptionOK
<1> QED
  BY <1>2 DEF UInv, Carried, OneSweep

\* The steps a request can take, and those it cannot.
LEMMA RequestAlone ==
  ASSUME IInv, UInv, NEW u \in Users, RequestStep(u) \/ StaffStep(u) \/ EnqueueError(u)
  PROVE  /\ UNCHANGED <<gen, material, sweep>> /\ RequestsQuiet'
         /\ \A j \in Jobs : job'[j] = job[j] \/ job'[j] = "queued"
<1>1. user[u].pc \in {"idle", "requeue"} /\ user \in [Users -> UserRec] /\ job \in [Jobs -> JobStatus]
  BY DEF UInv, RequestsQuiet, IInv, UserOK, JobOK
<1>2. ~Spend("process") /\ ~Spend("retryMaterial") /\ ~Spend("cancel")
  BY DEF UInv, Undisturbed, Spend, IInv, BudgetOK, Events
<1>3. CreateJob(u) \/ RetryJobRead(u) \/ RetryJobWrite(u)
  BY <1>1, <1>2 DEF RequestStep, StaffStep, InsertJob, EnqueueJob, MarkProcessing, FailEnqueued,
     RevertMaterial, CancelWrite, ProcessMaterial, RetryMaterial, CancelRead, EnqueueError, UserAt
<1>4. UNCHANGED <<gen, material, sweep>>
  BY <1>3 DEF CreateJob, RetryJobRead, RetryJobWrite
<1>5. \A j \in Jobs : job'[j] = job[j] \/ job'[j] = "queued"
  BY <1>1, <1>3 DEF CreateJob, RetryJobRead, RetryJobWrite, SetJob
<1>6. RequestsQuiet'
  <2>1. CASE UNCHANGED user
    BY <2>1 DEF UInv, RequestsQuiet
  <2>2. CASE \E j : SetUser(u, "requeue", j, job[j])
    BY <1>1, <2>2 DEF UInv, RequestsQuiet, SetUser
  <2>3. CASE EndUser(u)
    BY <1>1, <2>3 DEF UInv, RequestsQuiet, EndUser, IdleUser
  <2> QED
    BY <1>3, <2>1, <2>2, <2>3 DEF CreateJob, RetryJobRead, RetryJobWrite
<1> QED
  BY <1>4, <1>5, <1>6

\* A sweep runs alone.
LEMMA SweepAlone ==
  ASSUME IInv, UInv, NEW s \in Sweepers, SweepStep(s)
  PROVE  /\ \A t \in Sweepers \ {s} : sweep[t].pc = "idle" /\ sweep'[t] = sweep[t]
         /\ UNCHANGED user
<1>1. sweep \in [Sweepers -> SweepRec]
  BY DEF IInv, SweepOK
<1>2. ~Spend("overlap")
  BY DEF UInv, Undisturbed, Spend, IInv, BudgetOK, Events
<1>3. \A t \in Sweepers \ {s} : sweep[t].pc = "idle"
  <2>1. CASE sweep[s].pc # "idle"
    BY <2>1 DEF UInv, OneSweep
  <2>2. CASE sweep[s].pc = "idle"
    <3>1. Reclaim(s)
      BY <2>2 DEF SweepStep, RetryFailed, ReadQueued, ReadMaterial, Adopt, MarkAdopted, ReadActive,
         SettleRead, CancelChunks, FailMaterial, ReadyMaterial, SettleJob, EndSweep, SweepAt
    <3> QED
      BY <1>2, <3>1 DEF Reclaim, SweepAt
  <2> QED
    BY <2>1, <2>2
<1>4. \E rec : sweep' = [sweep EXCEPT ![s] = rec]
  BY DEF SweepStep, Reclaim, RetryFailed, ReadQueued, ReadMaterial, Adopt, MarkAdopted,
     ReadActive, SettleRead, CancelChunks, FailMaterial, ReadyMaterial, SettleJob, EndSweep, SetSweep,
     GotoSweep, Picked
<1>5. UNCHANGED user
  BY DEF SweepStep, Reclaim, RetryFailed, ReadQueued, ReadMaterial, Adopt, MarkAdopted,
     ReadActive, SettleRead, CancelChunks, FailMaterial, ReadyMaterial, SettleJob, EndSweep
<1> QED
  BY <1>1, <1>3, <1>4, <1>5

\* Each step of the sweep: what it reads queued, it adopts; what it settles has left the
\* material settled; and only a queued job's chunks are built anew.
LEMMA SweepAdopts ==
  ASSUME IInv, UInv, NEW s \in Sweepers, SweepStep(s)
  PROVE  /\ AdoptionOK(sweep[s])' /\ Carried'
         /\ \A j \in Jobs : job[j] \in {"processing", "completed"} => gen'[j] = gen[j]
<1> DEFINE old == sweep[s]
           k == old.job
           KeptGen == \A j \in Jobs : job[j] \in {"processing", "completed"} => gen'[j] = gen[j]
<1>1. /\ old \in SweepRec /\ k \in Jobs /\ old.todo \subseteq Jobs \X JobStatus
      /\ AdoptionOK(old) /\ Carried
      /\ sweep \in [Sweepers -> SweepRec] /\ job \in [Jobs -> JobStatus] /\ gen \in [Jobs -> Nat]
  BY DEF IInv, SweepOK, SweepRec, JobOK, GenOK, UInv
<1>2. ASSUME NEW new, sweep'[s] = new, UNCHANGED <<job, gen, material>>,
             new.pc \notin {"adopt", "enqueue", "mark", "cancelled", "failed", "completed"}
      PROVE  AdoptionOK(sweep[s])' /\ Carried' /\ KeptGen
  BY <1>1, <1>2 DEF AdoptionOK, Carried
<1>3. CASE Reclaim(s) \/ RetryFailed(s)
  <2>1. UNCHANGED <<job, gen, material>>
    BY <1>3 DEF Reclaim, RetryFailed
  <2>2. GotoSweep(s, "retry") \/ GotoSweep(s, "queued")
    BY <1>3 DEF Reclaim, RetryFailed
  <2>3. sweep'[s].pc \in {"retry", "queued"}
    BY <1>1, <2>2 DEF GotoSweep, SweepRec
  <2> QED
    BY <1>2, <2>1, <2>3
<1>4. CASE ReadQueued(s)
  <2>1. /\ UNCHANGED <<job, gen, material>> /\ sweep'[s].pc = "adopt"
        /\ sweep'[s].todo = JobsIn({"queued"})
    BY <1>1, <1>4 DEF ReadQueued, SetSweep, IdleSweep, Adoptable
  <2>2. \A e \in sweep'[s].todo : e[2] = "queued" /\ job[e[1]] = "queued"
    BY <2>1 DEF JobsIn
  <2> QED
    BY <1>1, <2>1, <2>2 DEF AdoptionOK, Carried
<1>5. CASE ReadMaterial(s)
  <2>1. PICK entry \in old.todo :
          Picked(s, IF material.status = "READY" THEN "adopt" ELSE "enqueue", entry, {})
    BY <1>5 DEF ReadMaterial
  <2>2. /\ UNCHANGED <<job, gen, material>> /\ old.pc = "adopt"
        /\ sweep'[s].pc \in {"adopt", "enqueue"}
        /\ sweep'[s].todo = old.todo \ {entry} /\ sweep'[s].job = entry[1]
    BY <1>1, <1>5, <2>1 DEF ReadMaterial, Picked, SetSweep, SweepAt
  <2>3. \A e \in old.todo : e = <<e[1], e[2]>> /\ e[2] = "queued" /\ job[e[1]] = "queued"
    BY <1>1, <2>2 DEF AdoptionOK
  <2>4. \A e \in old.todo \ {entry} : e[1] # entry[1]
    BY <2>3
  <2> QED
    BY <1>1, <2>2, <2>3, <2>4 DEF AdoptionOK, Carried
<1>6. CASE Adopt(s)
  <2>1. /\ UNCHANGED job /\ old.pc = "enqueue" /\ gen' = [gen EXCEPT ![k] = @ + 1]
        /\ sweep'[s].pc = "mark" /\ sweep'[s].todo = old.todo /\ sweep'[s].job = k
    BY <1>1, <1>6 DEF Adopt, SweepAt, GotoSweep, SweepRec, ResetChunks
  <2>2. job[k] = "queued" /\ AdoptionOK(sweep[s])'
    BY <1>1, <2>1 DEF AdoptionOK
  <2>3. Carried'
    BY <1>1, <2>1, <2>2 DEF Carried
  <2>4. KeptGen
    BY <1>1, <2>1, <2>2
  <2> QED
    BY <2>2, <2>3, <2>4
<1>7. CASE MarkAdopted(s)
  <2>1. /\ UNCHANGED <<gen, material>> /\ old.pc = "mark" /\ job' = [job EXCEPT ![k] = "processing"]
        /\ sweep'[s].pc = "adopt" /\ sweep'[s].todo = old.todo
    BY <1>1, <1>7 DEF MarkAdopted, SweepAt, GotoSweep, SweepRec, SetJob
  <2>2. \A e \in old.todo : e[1] # k /\ e[2] = "queued" /\ job[e[1]] = "queued" /\ e[1] \in Jobs
    BY <1>1, <2>1 DEF AdoptionOK
  <2>3. AdoptionOK(sweep[s])'
    BY <1>1, <2>1, <2>2 DEF AdoptionOK
  <2>4. Carried'
    BY <1>1, <2>1 DEF Carried
  <2> QED
    BY <2>1, <2>3, <2>4
<1>8. CASE ReadActive(s) \/ EndSweep(s)
  <2>1. UNCHANGED <<job, gen, material>>
    BY <1>8 DEF ReadActive, EndSweep
  <2>2. \E new : SetSweep(s, new) /\ new.pc \in {"settle", "idle"}
    <3>1. CASE ReadActive(s)
      <4> DEFINE new == [IdleSweep EXCEPT !.pc = "settle", !.todo = JobsIn(Active)]
      <4>1. new.pc = "settle"
        BY DEF IdleSweep
      <4>2. SetSweep(s, new)
        BY <3>1 DEF ReadActive
      <4> HIDE DEF new
      <4> QED
        BY <4>1, <4>2
    <3>2. CASE EndSweep(s)
      BY <3>2 DEF EndSweep, IdleSweep
    <3> QED
      BY <1>8, <3>1, <3>2
  <2>3. sweep'[s].pc \in {"settle", "idle"}
    BY <1>1, <2>2 DEF SetSweep
  <2> QED
    BY <1>2, <2>1, <2>3
<1>9. CASE SettleRead(s)
  <2>1. PICK entry \in old.todo, pc \in {"settle", "cancel", "fail", "ready"} :
          \E text : Picked(s, pc, entry, text)
    BY <1>9 DEF SettleRead
  <2>2. UNCHANGED <<job, gen, material>> /\ sweep'[s].pc = pc
    BY <1>1, <1>9, <2>1 DEF SettleRead, Picked, SetSweep
  <2> QED
    BY <1>2, <2>1, <2>2
<1>10. CASE CancelChunks(s) \/ FailMaterial(s) \/ ReadyMaterial(s)
  <2>1. /\ UNCHANGED <<job, gen>> /\ sweep'[s].pc \in {"cancelled", "failed", "completed"}
    BY <1>1, <1>10 DEF CancelChunks, FailMaterial, ReadyMaterial, GotoSweep, SweepRec
  <2>2. material'.status # "PROCESSING"
    BY <1>10 DEF CancelChunks, FailMaterial, ReadyMaterial, SetMaterial, IInv, MaterialOK
  <2> QED
    BY <2>1, <2>2 DEF AdoptionOK, Carried
<1>11. CASE SettleJob(s)
  <2>1. UNCHANGED <<gen, material>> /\ sweep'[s].pc = "settle" /\ material.status # "PROCESSING"
    BY <1>1, <1>11 DEF SettleJob, GotoSweep, SweepRec, AdoptionOK
  <2> QED
    BY <2>1 DEF AdoptionOK, Carried
<1> QED
  BY <1>3, <1>4, <1>5, <1>6, <1>7, <1>8, <1>9, <1>10, <1>11 DEF SweepStep

LEMMA UInvStep ==
  ASSUME IInv, UInv, [Next]_vars
  PROVE  UInv' /\ \A j \in Jobs : job[j] \in {"processing", "completed"} => gen'[j] = gen[j]
<1>1. Undisturbed'
  BY BudgetFalls DEF UInv, Undisturbed, Events
<1>2. ASSUME NEW u \in Users, RequestStep(u) \/ StaffStep(u) \/ EnqueueError(u)
      PROVE  UInv' /\ UNCHANGED gen
  BY <1>1, <1>2, RequestAlone, OnlyQueued DEF UInv
<1>3. ASSUME NEW s \in Sweepers, SweepStep(s)
      PROVE  UInv' /\ \A j \in Jobs : job[j] \in {"processing", "completed"} => gen'[j] = gen[j]
  <2>1. RequestsQuiet' /\ \A t \in Sweepers \ {s} : sweep'[t].pc = "idle"
    BY <1>3, SweepAlone DEF UInv, RequestsQuiet
  <2>2. OneSweep'
    BY <2>1 DEF OneSweep
  <2>3. \A t \in Sweepers \ {s} : AdoptionOK(sweep[t])'
    BY <2>1 DEF AdoptionOK
  <2> QED
    BY <1>1, <1>3, <2>1, <2>2, <2>3, SweepAdopts DEF UInv
<1>4. ASSUME UNCHANGED <<job, gen, material, user, sweep>> PROVE UInv' /\ UNCHANGED gen
  <2>1. RequestsQuiet'
    BY <1>4 DEF UInv, RequestsQuiet
  <2> QED
    BY <1>1, <1>4, <2>1, OnlyQueued DEF UInv
<1>5. CASE ApiCrash
  <2>1. /\ UNCHANGED <<job, gen, material>> /\ user' = [u \in Users |-> IdleUser]
        /\ sweep' = [s \in Sweepers |-> IdleSweep]
    BY <1>5 DEF ApiCrash
  <2>2. RequestsQuiet' /\ OneSweep' /\ \A s \in Sweepers : AdoptionOK(sweep[s])'
    BY <2>1 DEF RequestsQuiet, OneSweep, AdoptionOK, IdleUser, IdleSweep
  <2>3. Carried'
    BY <2>1 DEF UInv, Carried
  <2> QED
    BY <1>1, <2>1, <2>2, <2>3 DEF UInv
<1>6. CASE UNCHANGED vars
  BY <1>4, <1>6 DEF vars
<1>7. ASSUME NEW w \in Workers, WorkerStep(w) PROVE UNCHANGED <<job, gen, material, user, sweep>>
  BY <1>7 DEF WorkerStep, Claim, ClaimRefused, Extract, Heartbeat, Submit, ReportFailure
<1>8. ASSUME CallStep PROVE UNCHANGED <<job, gen, material, user, sweep>>
  BY <1>8 DEF CallStep, SubmitTx, MaterializeNextChunk, FailTx
<1>9. CASE Environment
  BY <1>2, <1>4, <1>5, <1>9 DEF Environment, LeaseExpires, ClientTimeout, WorkerCrash, WorkerRestart,
     SetEnabled
<1> QED
  BY <1>2, <1>3, <1>4, <1>6, <1>7, <1>8, <1>9 DEF Next

LEMMA AlwaysUInv == Spec /\ Undisturbed => []UInv
<1>1. Init /\ Undisturbed => UInv
  BY DEF Init, UInv, RequestsQuiet, OneSweep, AdoptionOK, Carried, IdleUser, IdleSweep
<1>2. IInv /\ UInv /\ [Next]_vars => UInv'
  BY UInvStep
<1> QED
  BY AlwaysIInv, <1>1, <1>2, PTL DEF Spec

\* As long as jobs are queued and retried, not started by a request or cancelled, and no two
\* sweeps overlap, a sweep adopts a job and settles it in an order that leaves no material
\* PROCESSING without an active job, whatever crashes, of the API too, come between its
\* statements. Each of the conditions is needed: a request that starts a job writes PROCESSING
\* after a sweep may have adopted and settled it, so does an overlapping sweep, and a cancel
\* that has read queued writes cancelled over an adopted job. Here the
\* job is queued, processing or cancelling (Carried), which says more than NoOrphanProcessing.
THEOREM NoMaterialOrphaned == Spec /\ Undisturbed => [](NoOrphanProcessing /\ Carried)
<1>1. UInv => NoOrphanProcessing /\ Carried
  BY DEF UInv, Carried, NoOrphanProcessing
<1> QED
  BY AlwaysUInv, <1>1, PTL

\* Under the same conditions only a queued job is adopted: no sweep that has read it before
\* a crash, a retry or another sweep rebuilds the chunks of a job that runs or has run.
THEOREM RunningChunksAlwaysKept == Spec /\ Undisturbed => RunningChunksKept
<1>1. IInv /\ UInv /\ [Next]_vars =>
        [\A j \in Jobs : job[j] \in {"processing", "completed"} => gen'[j] = gen[j]]_vars
  BY UInvStep
<1> QED
  BY AlwaysIInv, AlwaysUInv, <1>1, PTL DEF Spec, RunningChunksKept

=============================================================================
