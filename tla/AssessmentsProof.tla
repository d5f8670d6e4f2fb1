--------------------------- MODULE AssessmentsProof --------------------------
(***************************************************************************)
(* Proofs about Assessments: for every bank, pattern and number of         *)
(* questions, whatever a plan contains, and whatever others do to the bank *)
(* meanwhile, when one client works on the assessment.                     *)
(***************************************************************************)
EXTENDS Assessments, PaperSelectionProof

-----------------------------------------------------------------------------
(* The inductive invariant.                                                *)

Assessment ==
  [status : DOMAIN ValidTransitions, scope : {Null} \cup setting.scopes,
   configured : BOOLEAN, starts : Dates, ends : Dates]

\* The rows: links are of questions that exist, and these of the setting's.
RowsOK ==
  /\ setting \in Settings
  /\ bank \in [Questions -> QuestionRow \cup {Null}]
  /\ InBank \subseteq setting.present
  /\ assessment \in Assessment
  /\ links = [q \in DOMAIN links |-> links[q]]
  /\ DOMAIN links \subseteq InBank
  /\ gate \in [seen : SUBSET Questions, changed : SUBSET Questions]

\* What publishing asks, as it holds later: others may have deleted questions or changed them
\* since.
Usable ==
  /\ assessment.scope # Null /\ assessment.configured
  /\ Ordered(assessment.starts, assessment.ends)
  /\ gate.seen # {} /\ DOMAIN links = gate.seen \cap InBank
  /\ \A q \in DOMAIN links \ gate.changed : bank[q] = Approved

EditOps == {"update", "delete", "addMax", "addInsert", "remove", "candidates", "plan", "commit"}

IsPatch(s) ==
  \/ s.field = "configured" /\ s.value \in BOOLEAN
  \/ s.field \in {"starts", "ends"} /\ s.value \in Dates
  \/ s.field = "scope" /\ s.value \in setting.scopes

\* What a request in flight knows.  With one client what it has read still holds: an edit is
\* of a draft, and a transition leaves the status that was read, to PUBLISHED through the gate.
RequestOK(r) ==
  LET s == requests[r] IN
  \/ s = Idle
  \/ /\ r \in setting.clients
     /\ s.op \in EditOps
     /\ s.op = "update" => IsPatch(s)
     /\ OneClient => Editable
  \/ /\ r \in setting.clients
     /\ s.op \in {"gate", "setStatus"}
     /\ s.status \in DOMAIN ValidTransitions
     /\ OneClient =>
          /\ s.row = assessment /\ s.status \in ValidTransitions[assessment.status]
          /\ s.op = "gate" => s.status = "PUBLISHED"
          /\ s.op = "setStatus" /\ s.status = "PUBLISHED" => Usable

RequestsOK ==
  /\ requests = [r \in Requests |-> requests[r]]
  /\ \A r \in Requests : RequestOK(r)

IInv ==
  /\ RowsOK
  /\ RequestsOK
  /\ OneClient /\ Taken => Usable

-----------------------------------------------------------------------------
(* Steps by what they write.                                               *)

USE DEF Taken

\* With one client, a request in flight is the only one.
LEMMA OthersIdle ==
  ASSUME RequestsOK, OneClient, NEW r \in Requests, r \in setting.clients,
         NEW p \in Requests, p # r
  PROVE  requests[p] = Idle
BY DEF RequestsOK, RequestOK, OneClient

\* A row read and nothing written: what the request then knows has to be shown.
LEMMA ReadKeeps ==
  ASSUME IInv, NEW r \in Requests, NEW next, Goto(r, next),
         UNCHANGED <<setting, bank, edits, gate, assessment, links>>,
         requests'[r] = next => RequestOK(r)'
  PROVE  IInv'
<1>1. RowsOK' /\ (OneClient /\ Taken => Usable)'
  BY DEF IInv, RowsOK, Assessment, InBank, Dates, OneClient, Usable
<1>2. requests' = [p \in Requests |-> requests'[p]] /\ requests'[r] = next
  BY DEF IInv, RequestsOK, Goto
<1>3. ASSUME NEW p \in Requests PROVE RequestOK(p)'
  <2>1. CASE p = r
    BY <2>1, <1>2
  <2>2. CASE p # r
    <3>1. requests'[p] = requests[p] /\ RequestOK(p)
      BY <2>2 DEF IInv, RequestsOK, Goto
    <3> QED
      BY <3>1 DEF RequestOK, OneClient, Editable, Usable, InBank, IsPatch, Dates
  <2> QED
    BY <2>1, <2>2
<1> QED
  BY <1>1, <1>2, <1>3 DEF IInv, RequestsOK

\* A request that ends has nothing left to know.
LEMMA EndKeeps ==
  ASSUME IInv, NEW r \in Requests, End(r),
         UNCHANGED <<setting, bank, edits, gate, assessment, links>>
  PROVE  IInv'
<1>1. requests'[r] = Idle => RequestOK(r)'
  BY DEF RequestOK, Idle
<1> QED
  BY <1>1, ReadKeeps DEF End

\* Links are written by an edit, which with one client is of a draft.
LEMMA LinksKeep ==
  ASSUME IInv, NEW r \in Requests, r \in setting.clients, requests[r].op \in EditOps, End(r),
         UNCHANGED <<setting, bank, edits, gate, assessment>>,
         links' = [q \in DOMAIN links' |-> links'[q]], DOMAIN links' \subseteq InBank
  PROVE  IInv' /\ (OneClient => ~Taken)
<1>1. RowsOK'
  BY DEF IInv, RowsOK, Assessment, InBank, Dates
<1>2. OneClient => Editable
  BY DEF IInv, RequestsOK, RequestOK, Idle, EditOps
<1>3. OneClient => ~Taken
  BY <1>2 DEF Editable
<1>4. requests' = [p \in Requests |-> requests'[p]] /\ requests'[r] = Idle
  BY DEF IInv, RequestsOK, Goto, End
<1>5. ASSUME NEW p \in Requests PROVE RequestOK(p)'
  <2>1. CASE p = r
    BY <2>1, <1>4 DEF RequestOK, Idle
  <2>2. CASE p # r
    <3>1. requests'[p] = requests[p] /\ RequestOK(p)
      BY <2>2 DEF IInv, RequestsOK, Goto, End
    <3>2. OneClient => requests[p] = Idle
      BY <2>2, OthersIdle DEF IInv
    <3> QED
      BY <3>1, <3>2 DEF RequestOK, OneClient, Editable, IsPatch, Dates, Idle
  <2> QED
    BY <2>1, <2>2
<1>6. (OneClient /\ Taken => Usable)'
  BY <1>3 DEF OneClient
<1> QED
  BY <1>1, <1>3, <1>4, <1>5, <1>6 DEF IInv, RequestsOK

\* The assessment is written by a request that has read it.
LEMMA AssessmentKeeps ==
  ASSUME IInv, NEW r \in Requests, r \in setting.clients, requests[r].op # "idle", End(r),
         UNCHANGED <<setting, bank, edits, gate>>,
         assessment' \in Assessment,
         links' = [q \in DOMAIN links' |-> links'[q]], DOMAIN links' \subseteq InBank,
         (OneClient /\ Taken => Usable)'
  PROVE  IInv'
<1>1. RowsOK'
  BY DEF IInv, RowsOK, Assessment, InBank, Dates
<1>2. requests' = [p \in Requests |-> requests'[p]] /\ requests'[r] = Idle
  BY DEF IInv, RequestsOK, Goto, End
<1>3. ASSUME NEW p \in Requests PROVE RequestOK(p)'
  <2>1. CASE p = r
    BY <2>1, <1>2 DEF RequestOK, Idle
  <2>2. CASE p # r
    <3>1. requests'[p] = requests[p] /\ RequestOK(p)
      BY <2>2 DEF IInv, RequestsOK, Goto, End
    <3>2. OneClient => requests[p] = Idle
      BY <2>2, OthersIdle DEF IInv
    <3> QED
      BY <3>1, <3>2 DEF RequestOK, OneClient, IsPatch, Dates, Idle
  <2> QED
    BY <2>1, <2>2
<1> QED
  BY <1>1, <1>2, <1>3 DEF IInv, RequestsOK

\* What others do to the bank: a question is edited, or deleted with its links, and counted
\* as changed since the gate.
LEMMA BankKeeps ==
  ASSUME IInv, NEW q \in Questions, NEW row \in QuestionRow \cup {Null}, EditBank(q, row),
         links' = IF row = Null THEN [p \in DOMAIN links \ {q} |-> links[p]] ELSE links,
         UNCHANGED <<setting, assessment, requests>>
  PROVE  IInv'
<1>1. /\ bank' = [bank EXCEPT ![q] = row] /\ bank[q] # Null
      /\ gate' = [gate EXCEPT !.changed = @ \cup {q}]
  BY DEF EditBank
<1>2. RowsOK'
  <2>1. gate' \in [seen : SUBSET Questions, changed : SUBSET Questions]
    BY <1>1 DEF IInv, RowsOK
  <2> QED
    BY <1>1, <2>1 DEF IInv, RowsOK, Assessment, InBank, Dates
<1>3. Usable => Usable'
  <2> SUFFICES ASSUME Usable PROVE Usable'
    OBVIOUS
  <2>1. gate'.seen = gate.seen /\ gate'.changed = gate.changed \cup {q}
    BY <1>1 DEF IInv, RowsOK
  <2>2. InBank' = IF row = Null THEN InBank \ {q} ELSE InBank
    BY <1>1 DEF InBank, IInv, RowsOK
  <2>3. DOMAIN links' = IF row = Null THEN DOMAIN links \ {q} ELSE DOMAIN links
    OBVIOUS
  <2>4. DOMAIN links' = gate'.seen \cap InBank'
    BY <2>1, <2>2, <2>3 DEF Usable
  <2>5. \A p \in DOMAIN links' \ gate'.changed : bank'[p] = Approved
    BY <1>1, <2>1, <2>3 DEF Usable, IInv, RowsOK, InBank
  <2> QED
    BY <2>1, <2>4, <2>5 DEF Usable
<1>4. (OneClient /\ Taken => Usable)'
  BY <1>3 DEF IInv, OneClient
<1>5. RequestsOK'
  <2> SUFFICES ASSUME NEW p \in Requests PROVE RequestOK(p)'
    BY DEF IInv, RequestsOK
  <2>1. RequestOK(p)
    BY DEF IInv, RequestsOK
  <2> QED
    BY <2>1, <1>3 DEF RequestOK, OneClient, Editable, IsPatch, Dates
<1> QED
  BY <1>2, <1>4, <1>5 DEF IInv

\* The gate has passed: what it saw is what is linked.
LEMMA GatePasses ==
  ASSUME IInv, NEW r \in Requests, NEW next, Goto(r, next), r \in setting.clients,
         requests[r].op = "gate", gate' = [seen |-> DOMAIN links, changed |-> {}],
         UNCHANGED <<setting, bank, edits, assessment, links>>,
         requests'[r] = next => RequestOK(r)'
  PROVE  IInv'
<1>1. RowsOK'
  <2>1. DOMAIN links \subseteq Questions
    BY DEF IInv, RowsOK, InBank
  <2> QED
    BY <2>1 DEF IInv, RowsOK, Assessment, InBank, Dates
<1>2. OneClient => assessment.status = "DRAFT"
  <2>1. RequestOK(r)
    BY DEF IInv, RequestsOK
  <2>2. OneClient => "PUBLISHED" \in ValidTransitions[assessment.status]
    BY <2>1 DEF RequestOK, Idle, EditOps
  <2> QED
    BY <2>2 DEF ValidTransitions, IInv, RowsOK, Assessment
<1>3. (OneClient /\ Taken => Usable)'
  BY <1>2 DEF OneClient
<1>4. requests' = [p \in Requests |-> requests'[p]] /\ requests'[r] = next
  BY DEF IInv, RequestsOK, Goto
<1>5. ASSUME NEW p \in Requests PROVE RequestOK(p)'
  <2>1. CASE p = r
    BY <2>1, <1>4
  <2>2. CASE p # r
    <3>1. requests'[p] = requests[p] /\ RequestOK(p)
      BY <2>2 DEF IInv, RequestsOK, Goto
    <3>2. OneClient => requests[p] = Idle
      BY <2>2, OthersIdle DEF IInv
    <3> QED
      BY <3>1, <3>2 DEF RequestOK, OneClient, IsPatch, Dates, Idle
  <2> QED
    BY <2>1, <2>2
<1> QED
  BY <1>1, <1>3, <1>4, <1>5 DEF IInv, RequestsOK

-----------------------------------------------------------------------------
(* Every step.                                                             *)

FrozenStep ==
  OneClient /\ Taken /\ Taken' =>
    /\ assessment' = [assessment EXCEPT !.status = assessment'.status]
    /\ links' = [q \in {p \in DOMAIN links : bank'[p] # Null} |-> links[q]]

\* Nothing of the assessment or its questions changes.
LEMMA UnchangedFrozen ==
  ASSUME IInv, UNCHANGED <<bank, assessment, links>>
  PROVE  FrozenStep
<1>1. assessment' = [assessment EXCEPT !.status = assessment'.status]
  BY DEF IInv, RowsOK, Assessment
<1>2. {p \in DOMAIN links : bank'[p] # Null} = DOMAIN links
  BY DEF IInv, RowsOK, InBank
<1> QED
  BY <1>1, <1>2 DEF FrozenStep, IInv, RowsOK

Step == IInv' /\ FrozenStep

LEMMA ReadStep ==
  ASSUME IInv, NEW r \in Requests, NEW next, Goto(r, next),
         UNCHANGED <<setting, bank, edits, gate, assessment, links>>,
         requests'[r] = next => RequestOK(r)'
  PROVE  Step
BY ReadKeeps, UnchangedFrozen DEF Step

LEMMA LinksStep ==
  ASSUME IInv, NEW r \in Requests, r \in setting.clients, requests[r].op \in EditOps, End(r),
         UNCHANGED <<setting, bank, edits, gate, assessment>>,
         links' = [q \in DOMAIN links' |-> links'[q]], DOMAIN links' \subseteq InBank
  PROVE  Step
BY LinksKeep DEF Step, FrozenStep

LEMMA BankStep ==
  ASSUME IInv, NEW q \in Questions, ReviewQuestion(q) \/ DeleteQuestion(q)
  PROVE  Step
<1>1. CASE ReviewQuestion(q)
  <2>1. PICK row \in QuestionRow : EditBank(q, row)
    <3>1. bank[q] \in QuestionRow
      BY <1>1 DEF ReviewQuestion, IInv, RowsOK
    <3> QED
      BY <1>1, <3>1 DEF ReviewQuestion, QuestionRow
  <2>2. row # Null
    BY AssessmentsAssumption
  <2>3. IInv'
    BY <1>1, <2>1, <2>2, BankKeeps DEF ReviewQuestion
  <2>4. assessment' = [assessment EXCEPT !.status = assessment'.status]
    BY <1>1 DEF ReviewQuestion, IInv, RowsOK, Assessment
  <2>5. {p \in DOMAIN links : bank'[p] # Null} = DOMAIN links
    BY <2>1, <2>2 DEF EditBank, IInv, RowsOK, InBank
  <2> QED
    BY <1>1, <2>3, <2>4, <2>5 DEF Step, FrozenStep, ReviewQuestion, IInv, RowsOK
<1>2. CASE DeleteQuestion(q)
  <2>1. IInv'
    BY <1>2, BankKeeps DEF DeleteQuestion
  <2>2. assessment' = [assessment EXCEPT !.status = assessment'.status]
    BY <1>2 DEF DeleteQuestion, IInv, RowsOK, Assessment
  <2>3. {p \in DOMAIN links : bank'[p] # Null} = DOMAIN links \ {q}
    BY <1>2 DEF DeleteQuestion, EditBank, IInv, RowsOK, InBank
  <2> QED
    BY <1>2, <2>1, <2>2, <2>3 DEF Step, FrozenStep, DeleteQuestion
<1> QED
  BY <1>1, <1>2

\* The facts about a status that is written.
LEMMA TransitionFacts ==
  /\ DOMAIN ValidTransitions = {"NONE", "DRAFT", "PUBLISHED", "ACTIVE", "COMPLETED", "DELETED"}
  /\ \A s \in DOMAIN ValidTransitions :
       /\ ValidTransitions[s] \subseteq DOMAIN ValidTransitions
       /\ \A next \in ValidTransitions[s] :
            /\ next = "PUBLISHED" <=> s = "DRAFT"
            /\ next \in {"ACTIVE", "COMPLETED"} => s \in {"PUBLISHED", "ACTIVE"}
BY DEF ValidTransitions

\* Creating, updating, deleting.
LEMMA EditStep ==
  ASSUME IInv, NEW r \in Requests, Edit(r)
  PROVE  Step
<1>1. CASE CreateAssessment(r)
  <2>1. /\ r \in setting.clients /\ requests' = requests /\ links' = links /\ bank' = bank
        /\ setting' = setting /\ edits' = edits /\ gate' = gate
        /\ assessment.status = "NONE" /\ assessment'.status = "DRAFT"
    BY <1>1 DEF CreateAssessment, Starts, Op
  <2>2. assessment' \in Assessment
    BY <1>1, TransitionFacts DEF CreateAssessment, Assessment
  <2>3. RowsOK'
    BY <2>1, <2>2 DEF IInv, RowsOK, Assessment, InBank, Dates
  <2>4. ASSUME NEW p \in Requests PROVE RequestOK(p)'
    <3>1. RequestOK(p)
      BY DEF IInv, RequestsOK
    <3>2. OneClient => requests[p] = Idle
      <4> SUFFICES ASSUME OneClient, requests[p] # Idle PROVE FALSE
        OBVIOUS
      <4>1. p \in setting.clients /\ p = r
        BY <2>1, <3>1 DEF RequestOK, OneClient
      <4>2. requests[r].op = "idle"
        BY <1>1 DEF CreateAssessment, Starts, Op
      <4> QED
        BY <3>1, <4>1, <4>2 DEF RequestOK, EditOps
    <3> QED
      BY <2>1, <3>1, <3>2 DEF RequestOK, OneClient, IsPatch, Dates, Idle
  <2> QED
    BY <2>1, <2>3, <2>4 DEF Step, FrozenStep, IInv, RequestsOK, OneClient
<1>2. CASE UpdateWrite(r)
  <2>1. /\ r \in setting.clients /\ requests[r].op = "update" /\ IsPatch(requests[r])
        /\ OneClient => Editable
    BY <1>2 DEF UpdateWrite, Op, IInv, RequestsOK, RequestOK, Idle
  <2>2. assessment' \in Assessment /\ assessment'.status = assessment.status
    BY <1>2, <2>1 DEF UpdateWrite, Patched, IsPatch, IInv, RowsOK, Assessment
  <2>3. OneClient => ~Taken /\ ~Taken'
    BY <2>1, <2>2 DEF Editable
  <2>4. IInv'
    BY <1>2, <2>1, <2>2, <2>3, AssessmentKeeps DEF UpdateWrite, IInv, RowsOK, OneClient
  <2> QED
    BY <2>3, <2>4 DEF Step, FrozenStep
<1>3. CASE DeleteRead(r)
  <2> DEFINE next == [op |-> "delete"]
  <2>1. requests'[r] = next => RequestOK(r)'
    BY <1>3 DEF DeleteRead, Starts, Op, RequestOK, EditOps, OneClient, Editable
  <2> QED
    BY <1>3, <2>1, ReadStep DEF DeleteRead
<1>4. CASE DeleteWrite(r)
  <2>1. r \in setting.clients /\ requests[r].op = "delete" /\ OneClient => Editable
    BY <1>4 DEF DeleteWrite, Op, IInv, RequestsOK, RequestOK, Idle
  <2>2. assessment' \in Assessment /\ (assessment.status = "DRAFT" => assessment'.status = "DELETED")
    BY <1>4, TransitionFacts DEF DeleteWrite, Exists, IInv, RowsOK, Assessment
  <2>3. OneClient => ~Taken'
    BY <1>4, <2>1, <2>2 DEF Editable, DeleteWrite, Op
  <2>4. DOMAIN links' = {} /\ links' = [q \in DOMAIN links' |-> links'[q]]
    BY <1>4 DEF DeleteWrite
  <2>5. IInv'
    BY <1>4, <2>2, <2>3, <2>4, AssessmentKeeps DEF DeleteWrite, Op, OneClient
  <2> QED
    BY <2>3, <2>5 DEF Step, FrozenStep
<1>5. ASSUME NEW field \in {"configured", "starts", "ends"}, NEW v, UpdateRead(r, field, v),
             field = "configured" => v \in BOOLEAN, field # "configured" => v \in Dates
      PROVE  Step
  <2> DEFINE next == [op |-> "update", field |-> field, value |-> v]
  <2>1. requests'[r] = next => RequestOK(r)'
    BY <1>5 DEF UpdateRead, Starts, Op, RequestOK, EditOps, OneClient, Editable, IsPatch, Dates
  <2> QED
    BY <1>5, <2>1, ReadStep DEF UpdateRead
<1>6. ASSUME NEW scope \in setting.scopes, ScopeRead(r, scope) PROVE Step
  <2> DEFINE next == [op |-> "update", field |-> "scope", value |-> scope]
  <2>1. requests'[r] = next => RequestOK(r)'
    BY <1>6 DEF ScopeRead, Starts, Op, RequestOK, EditOps, OneClient, Editable, IsPatch
  <2> QED
    BY <1>6, <2>1, ReadStep DEF ScopeRead
<1> QED
  BY <1>1, <1>2, <1>3, <1>4, <1>5, <1>6 DEF Edit

\* The state machine: the gate, and what a transition makes of the row it has read.
LEMMA TransitionStep ==
  ASSUME IInv, NEW r \in Requests, Transition(r)
  PROVE  Step
<1>1. ASSUME NEW s, TransitionRead(r, s) PROVE Step
  <2> DEFINE next == [op |-> IF s = "PUBLISHED" THEN "gate" ELSE "setStatus", status |-> s, row |-> assessment]
  <2>1. s \in DOMAIN ValidTransitions
    BY <1>1, TransitionFacts DEF TransitionRead, IInv, RowsOK, Assessment
  <2>2. requests'[r] = next => RequestOK(r)'
    BY <1>1, <2>1 DEF TransitionRead, Starts, Op, RequestOK, OneClient
  <2> QED
    BY <1>1, <2>2, ReadStep DEF TransitionRead
<1>2. CASE PublishGate(r)
  <2> DEFINE row == requests[r].row
             next == [op |-> "setStatus", status |-> requests[r].status, row |-> row]
  <2>1. /\ r \in setting.clients /\ requests[r].op = "gate"
        /\ requests[r].status \in DOMAIN ValidTransitions
        /\ OneClient => /\ row = assessment
                        /\ requests[r].status \in ValidTransitions[assessment.status]
    BY <1>2 DEF PublishGate, Op, IInv, RequestsOK, RequestOK, Idle, EditOps
  <2>2. CASE End(r) /\ gate' = gate
    BY <1>2, <2>2, EndKeeps, UnchangedFrozen DEF PublishGate, Step
  <2>3. CASE /\ Goto(r, next) /\ gate' = [seen |-> DOMAIN links, changed |-> {}]
             /\ DOMAIN links # {} /\ \A q \in DOMAIN links : bank[q] = Approved
             /\ row.scope # Null /\ row.configured /\ Ordered(row.starts, row.ends)
    <3>1. OneClient => Usable'
      <4>1. DOMAIN links = DOMAIN links \cap InBank
        BY DEF IInv, RowsOK
      <4>2. /\ gate'.seen = DOMAIN links /\ InBank' = InBank
            /\ UNCHANGED <<setting, bank, assessment, links>>
        BY <1>2, <2>3 DEF PublishGate, InBank
      <4> QED
        BY <2>1, <2>3, <4>1, <4>2 DEF Usable
    <3>2. OneClient' = OneClient
      BY <1>2 DEF PublishGate, OneClient
    <3>3. requests'[r] = next => RequestOK(r)'
      BY <1>2, <2>1, <3>1, <3>2 DEF PublishGate, RequestOK
    <3>4. IInv'
      BY <1>2, <2>1, <2>3, <3>3, GatePasses DEF PublishGate
    <3> QED
      BY <1>2, <3>4, UnchangedFrozen DEF PublishGate, Step
  <2> QED
    BY <1>2, <2>2, <2>3 DEF PublishGate, Publishable
<1>3. CASE SetStatus(r)
  <2> DEFINE s == requests[r].status
  <2>1. /\ r \in setting.clients /\ requests[r].op = "setStatus" /\ s \in DOMAIN ValidTransitions
        /\ OneClient => s \in ValidTransitions[assessment.status] /\ (s = "PUBLISHED" => Usable)
    BY <1>3 DEF SetStatus, Op, IInv, RequestsOK, RequestOK, Idle, EditOps
  <2>2. /\ assessment' \in Assessment
        /\ assessment' = [assessment EXCEPT !.status = assessment'.status]
        /\ assessment'.status \in {s, assessment.status}
    BY <1>3, <2>1 DEF SetStatus, Exists, IInv, RowsOK, Assessment
  <2>3. (OneClient /\ Taken => Usable)'
    <3>1. Usable' = Usable
      BY <1>3, <2>2 DEF SetStatus, Usable, InBank, IInv, RowsOK, Assessment
    <3>2. OneClient /\ Taken' => Usable
      BY <2>1, <2>2, TransitionFacts DEF IInv, RowsOK, Assessment
    <3> QED
      BY <1>3, <3>1, <3>2 DEF SetStatus, OneClient
  <2>4. IInv'
    BY <1>3, <2>1, <2>2, <2>3, AssessmentKeeps DEF SetStatus, IInv, RowsOK, InBank
  <2>5. {p \in DOMAIN links : bank'[p] # Null} = DOMAIN links
    BY <1>3 DEF SetStatus, IInv, RowsOK, InBank
  <2> QED
    BY <1>3, <2>2, <2>4, <2>5 DEF Step, FrozenStep, SetStatus, IInv, RowsOK
<1> QED
  BY <1>1, <1>2, <1>3 DEF Transition

\* The question set.
LEMMA SelectStep ==
  ASSUME IInv, NEW r \in Requests, Select(r)
  PROVE  Step
<1>0. r \in setting.clients /\ (Editable \/ requests[r].op \in EditOps)
  BY DEF Select, AddRead, AddMax, AddInsert, RemoveRead, RemoveWrite, SelectRead, SelectPlan,
         SelectCandidates, SelectDelete, SelectCommit, Starts, Op, EditOps
<1>1. OneClient => Editable
  BY <1>0 DEF IInv, RequestsOK, RequestOK, Idle, EditOps
<1>2. ASSUME NEW next, Goto(r, next), next.op \in EditOps, next.op # "update",
             UNCHANGED <<setting, bank, edits, gate, assessment, links>>
      PROVE  Step
  <2>1. requests'[r] = next => RequestOK(r)'
    BY <1>0, <1>1, <1>2 DEF RequestOK, OneClient, Editable
  <2> QED
    BY <1>2, <2>1, ReadStep
<1>3. CASE \E qs \in SUBSET setting.present \ {{}}, section \in Labels : AddRead(r, qs, section)
  BY <1>2, <1>3 DEF AddRead, EditOps
<1>4. CASE AddMax(r)
  BY <1>2, <1>4 DEF AddMax, EditOps
<1>5. CASE \E q \in DOMAIN links : RemoveRead(r, q)
  BY <1>2, <1>5 DEF RemoveRead, EditOps
<1>6. CASE SelectRead(r)
  BY <1>2, <1>6 DEF SelectRead, EditOps
<1>7. CASE SelectPlan(r)
  BY <1>2, <1>7 DEF SelectPlan, EditOps
<1>12. CASE SelectCandidates(r)
  BY <1>2, <1>12 DEF SelectCandidates, EditOps
<1>8. CASE SelectDelete(r)
  BY <1>2, <1>8 DEF SelectDelete, EditOps
<1>9. CASE AddInsert(r)
  <2> DEFINE add == requests[r]
  <2>1. PICK place : /\ DOMAIN place = add.questions
                     /\ links' = IF Insertable(add.questions) THEN Joined(place, links) ELSE links
    BY <1>9 DEF AddInsert
  <2>2. links' = [q \in DOMAIN links' |-> links'[q]] /\ DOMAIN links' \subseteq InBank
    BY <2>1 DEF Insertable, Joined, IInv, RowsOK
  <2> QED
    BY <1>0, <1>9, <2>2, LinksStep DEF AddInsert, Op, EditOps
<1>10. CASE RemoveWrite(r)
  <2>1. links' = [q \in DOMAIN links' |-> links'[q]] /\ DOMAIN links' \subseteq InBank
    BY <1>10 DEF RemoveWrite, IInv, RowsOK
  <2> QED
    BY <1>0, <1>10, <2>1, LinksStep DEF RemoveWrite, Op, EditOps
<1>11. CASE SelectCommit(r)
  <2> DEFINE rest == Surviving(requests[r].old)
  <2>1. PICK new : /\ DOMAIN new \subseteq InBank \/ links' = links
                   /\ links' \in {links, Joined(new, rest)}
    BY <1>11 DEF SelectCommit
  <2>2. DOMAIN rest \subseteq DOMAIN links
    BY DEF Surviving
  <2>3. links' = [q \in DOMAIN links' |-> links'[q]] /\ DOMAIN links' \subseteq InBank
    <3>1. CASE links' = links
      BY <3>1 DEF IInv, RowsOK
    <3>2. CASE DOMAIN new \subseteq InBank /\ links' = Joined(new, rest)
      <4>1. /\ DOMAIN (Joined(new, rest)) = DOMAIN new \cup DOMAIN rest
            /\ Joined(new, rest) = [q \in DOMAIN (Joined(new, rest)) |-> (Joined(new, rest))[q]]
        BY DEF Joined
      <4> QED
        BY <2>2, <3>2, <4>1 DEF IInv, RowsOK
    <3> QED
      BY <2>1, <3>1, <3>2
  <2> QED
    BY <1>0, <1>11, <2>3, LinksStep DEF SelectCommit, Op, EditOps
<1> QED
  BY <1>3, <1>4, <1>5, <1>6, <1>7, <1>8, <1>9, <1>10, <1>11, <1>12 DEF Select

-----------------------------------------------------------------------------
(* The theorems.                                                           *)

LEMMA Initially == Init => IInv
<1> SUFFICES ASSUME Init PROVE IInv
  OBVIOUS
<1>1. assessment \in {Unscoped("NONE"), Unscoped("DRAFT")} /\ edits = 0 /\ gate = [seen |-> {}, changed |-> {}] /\ links = <<>> /\ setting \in Settings
  BY DEF Init
<1>2. bank \in [Questions -> QuestionRow \cup {Null}] /\ InBank \subseteq setting.present
  BY DEF Init, QuestionRow, Approved, InBank
<1>3. IsSetting(setting) /\ 0 \in Dates
  BY <1>1, AssessmentsAssumption DEF IsSetting, Dates
<1>4. assessment \in Assessment /\ ~Taken
  <2>1. PICK s \in {"NONE", "DRAFT"} : assessment = Unscoped(s)
    BY <1>1
  <2>2. s \in DOMAIN ValidTransitions
    BY TransitionFacts
  <2> QED
    BY <1>3, <2>1, <2>2 DEF Unscoped, Assessment
<1>5. links = [q \in DOMAIN links |-> links[q]] /\ DOMAIN links = {}
  BY <1>1
<1>6. RequestsOK
  BY DEF Init, RequestsOK, RequestOK
<1> QED
  BY <1>1, <1>2, <1>4, <1>5, <1>6 DEF IInv, RowsOK

LEMMA NextStep == IInv /\ [Next]_vars => IInv' /\ [FrozenStep]_vars
<1> SUFFICES ASSUME IInv, [Next]_vars PROVE IInv' /\ [FrozenStep]_vars
  OBVIOUS
<1>1. CASE UNCHANGED vars
  <2>1. RowsOK' /\ (OneClient /\ Taken => Usable)'
    BY <1>1 DEF vars, IInv, RowsOK, Assessment, InBank, Dates, OneClient, Usable
  <2>2. ASSUME NEW p \in Requests PROVE RequestOK(p)'
    BY <1>1, <2>2 DEF vars, IInv, RequestsOK, RequestOK, OneClient, Editable, Usable, InBank, IsPatch, Dates
  <2>3. requests' = [p \in Requests |-> requests'[p]]
    BY <1>1 DEF vars, IInv, RequestsOK
  <2> QED
    BY <1>1, <2>1, <2>2, <2>3 DEF IInv, RequestsOK
<1>2. ASSUME NEW q \in Questions, ReviewQuestion(q) \/ DeleteQuestion(q) PROVE Step
  BY <1>2, BankStep
<1>3. ASSUME NEW r \in Requests, Edit(r) \/ Transition(r) \/ Select(r) \/ RequestDies(r) PROVE Step
  <2>1. CASE RequestDies(r)
    BY <2>1, EndKeeps, UnchangedFrozen DEF RequestDies, Step
  <2> QED
    BY <1>3, <2>1, EditStep, TransitionStep, SelectStep
<1> QED
  BY <1>1, <1>2, <1>3 DEF Next, Step

LEMMA Invariance == Spec => []IInv
BY Initially, NextStep, PTL DEF Spec

\* An assessment students may take has passed the gate, and its questions are those the gate
\* saw, less the ones deleted since, each approved unless changed since (publishAssessment and
\* the DRAFT checks of every edit).
THEOREM GateAlwaysHolds == Spec => []GateHolds
<1>1. IInv => GateHolds
  BY DEF IInv, Usable, GateHolds
<1> QED
  BY <1>1, Invariance, PTL

\* What students may take does not change (updateAssessment, setScope, addQuestions,
\* removeQuestion, autoSelectFromPattern).
THEOREM AlwaysFrozen == Spec => FrozenOncePublished
<1>1. IInv /\ [Next]_vars => [FrozenStep]_vars
  BY NextStep
<1> QED
  BY <1>1, Invariance, PTL DEF Spec, FrozenOncePublished, FrozenStep

-----------------------------------------------------------------------------
(* What a request holds at each stage, and the numbers of the links.       *)

\* What is left of a plan's pool for rule i.
Free(s, i) ==
  {q \in s.pool : setting.type[q] = setting.rules[i].type} \ PickedBy(s.plan, 1..(i - 1))

EntryOK(s, i) ==
  /\ s.plan[i].picked \subseteq s.pool \ PickedBy(s.plan, 1..(i - 1))
  /\ IF Selectable(setting.rules[i])
     THEN Pick(setting.rules[i], Free(s, i), setting.level, s.plan[i])
     ELSE s.plan[i].picked = {}

\* A plan, as far as it has got.
PlanOK(s) ==
  /\ s.taken \subseteq Questions /\ s.pool \subseteq Questions \ s.taken
  /\ s.plan \in Seq(Picks) /\ Len(s.plan) <= Len(setting.rules)
  /\ \A i \in 1..Len(s.plan) : EntryOK(s, i)

StageOK(s) ==
  /\ IsStage(s)
  /\ s.op \in {"plan", "commit"} => PlanOK(s)
  /\ s.op = "commit" => Len(s.plan) = Len(setting.rules)
  /\ s.op = "addInsert" => s.base \in Nat

\* With one client the links are still those a transaction has read, but for those the bank
\* has deleted.
Knows(s) ==
  /\ s.op = "addInsert" => \A q \in DOMAIN links : links[q].sort <= s.base
  /\ s.op = "commit" => DOMAIN links \subseteq s.old

LinkOK(link) == link.sort \in Nat \ {0} /\ link.marks \in Nat \ {0} /\ link.section \in Labels
LinksOK == \A q \in DOMAIN links : LinkOK(links[q])

SInv ==
  /\ edits \in 0..setting.edits
  /\ LinksOK
  /\ \A r \in Requests : StageOK(requests[r]) /\ (OneClient => Knows(requests[r]))
  /\ SortOrderUnique

LEMMA SettingFacts ==
  ASSUME setting \in Settings
  PROVE  /\ Len(setting.rules) \in Nat /\ DOMAIN setting.rules = 1..Len(setting.rules)
         /\ \A i \in DOMAIN setting.rules : IsRule(setting.rules[i])
         /\ setting.present \subseteq Questions /\ IsFiniteSet(Questions)
         /\ setting.type \in [Questions -> Types] /\ setting.level \in [Questions -> Levels]
BY AssessmentsAssumption DEF IsSetting

\* What a request holds depends on nothing that changes but itself.
LEMMA StageKept ==
  ASSUME setting' = setting, NEW r \in Requests, NEW next, StageOK(next)
  PROVE  requests'[r] = next => StageOK(requests[r])'
BY DEF StageOK, IsStage, PlanOK, EntryOK, Free, Picks, Dates, Labels

\* A request goes on and the links stay.
LEMMA StagesKeep ==
  ASSUME IInv, SInv, NEW r \in Requests, NEW next, Goto(r, next), StageOK(next),
         OneClient => Knows(next), UNCHANGED <<setting, edits, links>>
  PROVE  SInv'
<1>1. requests'[r] = next /\ \A p \in Requests \ {r} : requests'[p] = requests[p]
  BY DEF IInv, RequestsOK, Goto
<1>2. ASSUME NEW p \in Requests PROVE StageOK(requests[p])' /\ (OneClient => Knows(requests[p]))'
  <2>1. PICK s : s = requests'[p]
    OBVIOUS
  <2>2. StageOK(s) /\ (OneClient => Knows(s))
    <3>1. CASE p = r
      BY <1>1, <2>1, <3>1
    <3>2. CASE p # r
      BY <1>1, <2>1, <3>2 DEF SInv
    <3> QED
      BY <3>1, <3>2
  <2>3. StageOK(requests[p])'
    BY <2>1, <2>2, StageKept
  <2>4. (OneClient => Knows(requests[p]))'
    BY <2>1, <2>2 DEF Knows, OneClient
  <2> QED
    BY <2>3, <2>4
<1>3. LinksOK' /\ SortOrderUnique'
  BY DEF SInv, LinksOK, LinkOK, Labels, SortOrderUnique, OneClient
<1> QED
  BY <1>2, <1>3 DEF SInv

\* Others take questions from the bank, and so from the links.
LEMMA FewerLinksKeep ==
  ASSUME IInv, SInv, edits' \in 0..setting'.edits,
         DOMAIN links' \subseteq DOMAIN links, \A q \in DOMAIN links' : links'[q] = links[q],
         UNCHANGED <<setting, requests>>
  PROVE  SInv'
<1>1. ASSUME NEW p \in Requests PROVE StageOK(requests[p])' /\ (OneClient => Knows(requests[p]))'
  <2>1. StageOK(requests[p]) /\ (OneClient => Knows(requests[p]))
    BY DEF SInv
  <2>2. StageOK(requests[p])'
    BY <2>1, StageKept
  <2>3. (OneClient => Knows(requests[p]))'
    BY <2>1 DEF Knows, OneClient
  <2> QED
    BY <2>2, <2>3
<1>2. LinksOK' /\ SortOrderUnique'
  BY DEF SInv, LinksOK, LinkOK, Labels, SortOrderUnique, OneClient
<1> QED
  BY <1>1, <1>2 DEF SInv

\* A client writes the links and ends: with one client no other request knows anything of them.
LEMMA LinksWritten ==
  ASSUME IInv, SInv, NEW r \in Requests, r \in setting.clients, End(r), edits' = edits, setting' = setting,
         LinksOK', SortOrderUnique'
  PROVE  SInv'
<1>1. requests'[r] = Idle /\ \A p \in Requests \ {r} : requests'[p] = requests[p]
  BY DEF IInv, RequestsOK, Goto, End
<1>2. StageOK(Idle)
  BY DEF StageOK, IsStage, Idle
<1>3. ASSUME NEW p \in Requests PROVE StageOK(requests[p])' /\ (OneClient => Knows(requests[p]))'
  <2>1. StageOK(requests[p])'
    <3>1. CASE p = r
      BY <1>1, <1>2, <3>1, StageKept
    <3>2. CASE p # r
      <4>1. StageOK(requests[p]) /\ requests'[p] = requests[p]
        BY <1>1, <3>2 DEF SInv
      <4> QED
        BY <4>1, StageKept
    <3> QED
      BY <3>1, <3>2
  <2>2. OneClient => requests'[p] = Idle
    BY <1>1, OthersIdle DEF IInv
  <2> QED
    BY <2>1, <2>2 DEF Knows, OneClient, Idle
<1> QED
  BY <1>3 DEF SInv

-----------------------------------------------------------------------------
(* The question set, step by step.                                         *)

\* The highest number is found: there are finitely many links.
LEMMA MaxSortBounds ==
  ASSUME IInv, SInv
  PROVE  MaxSort \in Nat /\ \A q \in DOMAIN links : links[q].sort <= MaxSort
<1> DEFINE D == DOMAIN links
           sorts == {links[q].sort : q \in D}
           f == [q \in D |-> links[q].sort]
<1>1. IsFiniteSet(D)
  <2>1. D \subseteq Questions
    BY DEF IInv, RowsOK, InBank
  <2> QED
    BY <2>1, SettingFacts, FS_Subset DEF IInv, RowsOK
<1>2. f \in Surjection(D, sorts)
  BY DEF Surjection
<1>3. IsFiniteSet(sorts) /\ IsFiniteSet({0})
  BY <1>1, <1>2, FS_Surjection, FS_Singleton
<1>4. sorts \subseteq Nat
  BY DEF SInv, LinksOK, LinkOK
<1> HIDE DEF sorts
<1>5. IsFiniteSet({0} \cup sorts) /\ {0} \cup sorts \subseteq Nat /\ {0} \cup sorts # {}
  <2>1. IsFiniteSet({0} \cup sorts)
    BY <1>3, FS_Union
  <2> QED
    BY <1>4, <2>1
<1>6. Max({0} \cup sorts) \in Nat /\ \A n \in sorts : n <= Max({0} \cup sorts)
  BY <1>5, MaxOfFinite
<1> QED
  BY <1>6 DEF MaxSort, sorts

LEMMA AddStep ==
  ASSUME IInv, SInv, NEW r \in Requests,
         AddMax(r) \/ AddInsert(r) \/ \E qs \in SUBSET setting.present \ {{}}, section \in Labels : AddRead(r, qs, section)
  PROVE  SInv'
<1>0. StageOK(requests[r])
  BY DEF SInv
<1>1. ASSUME NEW qs \in SUBSET setting.present, NEW section \in Labels, AddRead(r, qs, section) PROVE SInv'
  <2> DEFINE next == [op |-> "addMax", questions |-> qs, section |-> section]
  <2>1. qs \subseteq Questions
    BY SettingFacts DEF IInv, RowsOK
  <2>2. StageOK(next) /\ Knows(next)
    BY <2>1 DEF StageOK, IsStage, Knows
  <2> QED
    BY <1>1, <2>2, StagesKeep DEF AddRead
<1>2. CASE AddMax(r)
  <2> DEFINE next == [op |-> "addInsert", questions |-> requests[r].questions,
                      section |-> requests[r].section, base |-> MaxSort]
  <2>1. requests[r].questions \subseteq Questions /\ requests[r].section \in Labels
    BY <1>0, <1>2 DEF AddMax, Op, StageOK, IsStage, Idle
  <2>2. StageOK(next) /\ Knows(next)
    BY <2>1, MaxSortBounds DEF StageOK, IsStage, Knows
  <2> QED
    BY <1>2, <2>2, StagesKeep DEF AddMax
<1>3. CASE AddInsert(r)
  <2> DEFINE add == requests[r]
             order == SetToSeq(add.questions)
             place == [q \in add.questions |->
                        [sort |-> add.base + CHOOSE i \in DOMAIN order : order[i] = q,
                         marks |-> 1, section |-> add.section]]
  <2>1. /\ r \in setting.clients /\ End(r) /\ edits' = edits /\ setting' = setting
        /\ links' = IF Insertable(add.questions) THEN Joined(place, links) ELSE links
    BY <1>3 DEF AddInsert, Op
  <2>2. /\ add.questions \subseteq Questions /\ add.section \in Labels /\ add.base \in Nat
        /\ OneClient => \A q \in DOMAIN links : links[q].sort <= add.base
    BY <1>0, <1>3 DEF AddInsert, Op, StageOK, IsStage, Idle, SInv, Knows
  <2>3. IsFiniteSet(add.questions) /\ Cardinality(add.questions) \in Nat
    BY <2>2, SettingFacts, FS_Subset, FS_CardinalityType DEF IInv, RowsOK
  <2>4. order \in [1..Cardinality(add.questions) -> add.questions]
    BY <2>3, SetToSeqCounts
  <2> DEFINE at == [q \in add.questions |-> CHOOSE i \in DOMAIN order : order[i] = q]
  <2>5. \A q \in add.questions : at[q] \in 1..Cardinality(add.questions) /\ order[at[q]] = q
    <3>1. DOMAIN order = 1..Cardinality(add.questions)
      BY <2>4
    <3>2. \A q \in add.questions : \E n \in 1..Cardinality(add.questions) : order[n] = q
      BY <2>3, SetToSeqCounts
    <3> QED
      BY <3>1, <3>2
  <2>6. /\ DOMAIN place = add.questions
        /\ \A q \in add.questions :
             place[q].sort = add.base + at[q] /\ place[q].marks = 1 /\ place[q].section = add.section
    OBVIOUS
  <2> HIDE DEF at, order, place
  <2>7. \A q \in add.questions :
          /\ LinkOK(place[q]) /\ place[q].sort > add.base
          /\ place[q].sort = add.base + at[q] /\ at[q] \in Nat /\ add.base \in Nat
    <3> SUFFICES ASSUME NEW q \in add.questions
                 PROVE  /\ LinkOK(place[q]) /\ place[q].sort > add.base
                        /\ place[q].sort = add.base + at[q] /\ at[q] \in Nat /\ add.base \in Nat
      OBVIOUS
    <3>1. add.base \in Nat /\ at[q] \in Nat \ {0}
      BY <2>2, <2>3, <2>5
    <3>2. place[q].sort = add.base + at[q] /\ place[q].marks = 1 /\ place[q].section = add.section
      BY <2>6
    <3> QED
      BY <2>2, <3>1, <3>2 DEF LinkOK
  <2>8. \A p, q \in add.questions : place[p].sort = place[q].sort => p = q
    <3> SUFFICES ASSUME NEW p \in add.questions, NEW q \in add.questions, place[p].sort = place[q].sort
                 PROVE  p = q
      OBVIOUS
    <3>1. at[p] = at[q]
      <4>1. add.base + at[p] = add.base + at[q] /\ at[p] \in Nat /\ at[q] \in Nat /\ add.base \in Nat
        BY <2>7
      <4> QED
        BY <4>1
    <3> QED
      BY <3>1, <2>5
  <2>9. LinksOK' /\ SortOrderUnique'
    <3>1. CASE links' = links
      BY <2>1, <3>1 DEF SInv, LinksOK, LinkOK, Labels, SortOrderUnique, OneClient
    <3>2. CASE links' = Joined(place, links) /\ add.questions \cap DOMAIN links = {}
      <4>1. /\ DOMAIN links' = add.questions \cup DOMAIN links
            /\ \A q \in add.questions : links'[q] = place[q]
            /\ \A q \in DOMAIN links : links'[q] = links[q]
        BY <2>6, <3>2 DEF Joined
      <4>2. LinksOK'
        BY <2>1, <2>7, <4>1 DEF SInv, LinksOK, LinkOK, Labels
      <4>3. \A q \in DOMAIN links : links[q].sort \in Nat
        BY DEF SInv, LinksOK, LinkOK
      <4>4. \A q \in add.questions : place[q].sort \in Nat
        BY <2>7 DEF LinkOK
      <4>5. ASSUME OneClient, NEW p \in DOMAIN links', NEW q \in DOMAIN links', links'[p].sort = links'[q].sort
            PROVE  p = q
        <5>1. CASE p \in DOMAIN links /\ q \in DOMAIN links
          BY <4>1, <4>5, <5>1 DEF SInv, SortOrderUnique
        <5>2. CASE p \in add.questions /\ q \in add.questions
          BY <2>8, <4>1, <4>5, <5>2
        <5>3. CASE p \in DOMAIN links /\ q \in add.questions
          BY <2>2, <2>7, <4>1, <4>3, <4>4, <4>5, <5>3
        <5>4. CASE p \in add.questions /\ q \in DOMAIN links
          BY <2>2, <2>7, <4>1, <4>3, <4>4, <4>5, <5>4
        <5> QED
          BY <4>1, <5>1, <5>2, <5>3, <5>4
      <4> QED
        BY <2>1, <4>2, <4>5 DEF SortOrderUnique, OneClient
    <3> QED
      BY <2>1, <3>1, <3>2 DEF Insertable
  <2> QED
    BY <2>1, <2>9, LinksWritten
<1> QED
  BY <1>1, <1>2, <1>3

LEMMA RemoveStep ==
  ASSUME IInv, SInv, NEW r \in Requests, RemoveWrite(r) \/ \E q \in DOMAIN links : RemoveRead(r, q)
  PROVE  SInv'
<1>1. ASSUME NEW q \in DOMAIN links, RemoveRead(r, q) PROVE SInv'
  <2> DEFINE next == [op |-> "remove", question |-> q]
  <2>1. q \in Questions
    BY DEF IInv, RowsOK, InBank
  <2>2. StageOK(next) /\ Knows(next)
    BY <2>1 DEF StageOK, IsStage, Knows
  <2> QED
    BY <1>1, <2>2, StagesKeep DEF RemoveRead
<1>2. CASE RemoveWrite(r)
  <2>1. /\ r \in setting.clients /\ End(r) /\ edits' = edits /\ setting' = setting
        /\ DOMAIN links' \subseteq DOMAIN links /\ \A q \in DOMAIN links' : links'[q] = links[q]
    BY <1>2 DEF RemoveWrite, Op
  <2>2. LinksOK' /\ SortOrderUnique'
    BY <2>1 DEF SInv, LinksOK, LinkOK, Labels, SortOrderUnique, OneClient
  <2> QED
    BY <2>1, <2>2, LinksWritten
<1> QED
  BY <1>1, <1>2

-----------------------------------------------------------------------------
(* The selection, step by step.                                            *)

\* A plan's entries are finite and share no question.
LEMMA PlanApart ==
  ASSUME setting \in Settings, NEW s, PlanOK(s)
  PROVE  /\ Apart(s.plan, Len(s.plan))
         /\ PickedBy(s.plan, 1..Len(s.plan)) \subseteq s.pool
<1>1. Len(s.plan) \in Nat /\ DOMAIN s.plan = 1..Len(s.plan)
  BY DEF PlanOK
<1>2. ASSUME NEW i \in 1..Len(s.plan)
      PROVE  s.plan[i].picked \subseteq s.pool /\ IsFiniteSet(s.plan[i].picked)
  <2>1. s.plan[i].picked \subseteq s.pool /\ s.pool \subseteq Questions
    BY DEF PlanOK, EntryOK
  <2> QED
    BY <2>1, SettingFacts, FS_Subset
<1>3. ASSUME NEW i \in 1..Len(s.plan), NEW k \in 1..Len(s.plan), i < k
      PROVE  s.plan[i].picked \cap s.plan[k].picked = {}
  <2>1. i \in 1..(k - 1)
    BY <1>1, <1>3
  <2>2. s.plan[k].picked \cap PickedBy(s.plan, 1..(k - 1)) = {}
    BY DEF PlanOK, EntryOK
  <2> QED
    BY <2>1, <2>2 DEF PickedBy
<1>4. \A i, k \in 1..Len(s.plan) : i # k => s.plan[i].picked \cap s.plan[k].picked = {}
  <2> SUFFICES ASSUME NEW i \in 1..Len(s.plan), NEW k \in 1..Len(s.plan), i # k
               PROVE  s.plan[i].picked \cap s.plan[k].picked = {}
    OBVIOUS
  <2>1. i < k \/ k < i
    BY <1>1
  <2> QED
    BY <2>1, <1>3
<1> QED
  BY <1>1, <1>2, <1>4 DEF Apart, PickedBy

\* One more entry.
LEMMA PlanGrows ==
  ASSUME setting \in Settings, NEW s, PlanOK(s),
         NEW i, i = Len(s.plan) + 1, i \in DOMAIN setting.rules,
         NEW entry \in Entries(setting.rules[i], Unpicked(s), setting.type, setting.level),
         NEW next, next.pool = s.pool, next.taken = s.taken, next.plan = Append(s.plan, entry)
  PROVE  PlanOK(next)
<1> DEFINE n == Len(s.plan)
<1>1. n \in Nat /\ s.plan \in Seq(Picks) /\ DOMAIN s.plan = 1..n /\ i \in 1..Len(setting.rules)
  BY SettingFacts DEF PlanOK
<1>2. s.pool \subseteq Questions /\ IsFiniteSet(Unpicked(s)) /\ Unpicked(s) = s.pool \ PickedBy(s.plan, 1..n)
  <2>1. s.pool \subseteq Questions /\ Unpicked(s) = s.pool \ PickedBy(s.plan, 1..n)
    BY <1>1 DEF PlanOK, Unpicked
  <2> QED
    BY <2>1, SettingFacts, FS_Subset
<1>3. /\ entry \in [picked : SUBSET Unpicked(s), short : SUBSET Reports]
      /\ IF Selectable(setting.rules[i])
         THEN Pick(setting.rules[i], {q \in Unpicked(s) : setting.type[q] = setting.rules[i].type}, setting.level, entry)
         ELSE entry.picked = {}
  BY <1>1, <1>2, SettingFacts, EntriesFill
<1>4. entry \in Picks
  BY <1>2, <1>3 DEF Picks
<1>5. /\ next.plan \in Seq(Picks) /\ Len(next.plan) = n + 1
      /\ \A k \in 1..n : next.plan[k] = s.plan[k]
      /\ next.plan[n + 1] = entry
  BY <1>1, <1>4
<1>6. \A k \in 1..(n + 1) : PickedBy(next.plan, 1..(k - 1)) = PickedBy(s.plan, 1..(k - 1))
  <2> SUFFICES ASSUME NEW k \in 1..(n + 1)
               PROVE  PickedBy(next.plan, 1..(k - 1)) = PickedBy(s.plan, 1..(k - 1))
    OBVIOUS
  <2>1. \A m \in 1..(k - 1) : next.plan[m] = s.plan[m]
    BY <1>1, <1>5
  <2> QED
    BY <2>1 DEF PickedBy
<1>7. \A k \in 1..(n + 1) : Free(next, k) = Free(s, k)
  BY <1>6 DEF Free
<1>8. ASSUME NEW k \in 1..n PROVE EntryOK(next, k)
  <2>1. EntryOK(s, k) /\ k \in 1..(n + 1)
    BY <1>1 DEF PlanOK
  <2> QED
    BY <2>1, <1>5, <1>6, <1>7 DEF EntryOK
<1>9. EntryOK(next, n + 1)
  <2>1. n + 1 \in 1..(n + 1) /\ (n + 1) - 1 = n
    BY <1>1
  <2>2. Free(next, n + 1) = {q \in Unpicked(s) : setting.type[q] = setting.rules[i].type}
    <3>1. Free(s, n + 1) = {q \in s.pool : setting.type[q] = setting.rules[i].type} \ PickedBy(s.plan, 1..n)
      BY <2>1 DEF Free
    <3>2. Free(next, n + 1) = Free(s, n + 1)
      BY <2>1, <1>7
    <3> QED
      BY <3>1, <3>2, <1>2
  <2>3. entry.picked \subseteq next.pool \ PickedBy(next.plan, 1..n)
    <3>1. PickedBy(next.plan, 1..n) = PickedBy(s.plan, 1..n)
      BY <2>1, <1>6
    <3> QED
      BY <3>1, <1>2, <1>3
  <2> QED
    BY <2>1, <2>2, <2>3, <1>3, <1>5 DEF EntryOK
<1>10. \A k \in 1..(n + 1) : EntryOK(next, k)
  <2>1. \A k \in 1..(n + 1) : k \in 1..n \/ k = n + 1
    BY <1>1
  <2> QED
    BY <2>1, <1>8, <1>9
<1> QED
  BY <1>1, <1>5, <1>10 DEF PlanOK

\* What the commit leaves of the paper.
LEMMA CommitWrites ==
  ASSUME IInv, SInv, NEW r \in Requests, SelectCommit(r), links' # links
  PROVE  LET s == requests[r]
             new == Layout(setting.rules, s.plan)
             n == Len(s.plan)
         IN
         /\ PlanOK(s) /\ Apart(s.plan, n) /\ n = Len(setting.rules)
         /\ new = [q \in PickedBy(s.plan, 1..n) |-> new[q]]
         /\ \A i \in 1..n : \A q \in s.plan[i].picked :
              LinkOK(new[q]) /\ new[q].section = Label(setting.rules[i])
         /\ \A p, q \in PickedBy(s.plan, 1..n) : new[p].sort = new[q].sort => p = q
         /\ links' = Joined(new, Surviving(s.old))
         /\ OneClient => DOMAIN (Surviving(s.old)) = {}
<1> DEFINE s == requests[r]
           new == Layout(setting.rules, s.plan)
           n == Len(s.plan)
<1>1. s.op = "commit" /\ StageOK(s) /\ setting \in Settings /\ (OneClient => Knows(s))
  BY DEF SelectCommit, Op, SInv, IInv, RowsOK
<1>2. PlanOK(s) /\ n = Len(setting.rules) /\ n \in Nat
  BY <1>1 DEF StageOK, PlanOK
<1>3. Apart(s.plan, n)
  BY <1>1, <1>2, PlanApart
<1>4. /\ new = [q \in PickedBy(s.plan, 1..n) |-> new[q]]
      /\ \A i \in 1..n : \A q \in s.plan[i].picked :
           /\ new[q].sort \in Nat \ {0}
           /\ new[q].section = Label(setting.rules[i])
           /\ new[q].marks = SectionMarks(setting.rules[i])
      /\ \A p, q \in PickedBy(s.plan, 1..n) : new[p].sort = new[q].sort => p = q
  BY <1>3, LayoutPlaces
<1>5. \A i \in 1..n : SectionMarks(setting.rules[i]) \in Nat \ {0} /\ Label(setting.rules[i]) \in Labels
  BY <1>1, <1>2, SettingFacts, SectionMarksPositive DEF Labels
<1>6. links' = Joined(new, Surviving(s.old))
  BY DEF SelectCommit
<1>7. OneClient => DOMAIN (Surviving(s.old)) = {}
  BY <1>1 DEF Knows, Surviving
<1> QED
  BY <1>2, <1>3, <1>4, <1>5, <1>6, <1>7 DEF LinkOK

LEMMA SelectionStep ==
  ASSUME IInv, SInv, NEW r \in Requests,
         SelectRead(r) \/ SelectCandidates(r) \/ SelectPlan(r) \/ SelectDelete(r) \/ SelectCommit(r)
  PROVE  SInv'
<1>0. StageOK(requests[r]) /\ setting \in Settings /\ DOMAIN links \subseteq Questions
  BY DEF SInv, IInv, RowsOK, InBank
<1>1. CASE SelectRead(r)
  <2> DEFINE next == [op |-> "candidates", scope |-> assessment.scope, taken |-> DOMAIN links]
  <2>1. StageOK(next) /\ Knows(next)
    BY <1>0 DEF StageOK, IsStage, Knows
  <2> QED
    BY <1>1, <2>1, StagesKeep DEF SelectRead
<1>2. CASE SelectCandidates(r)
  <2> DEFINE s == requests[r]
             next == [op |-> "plan", pool |-> Candidates(s.scope, s.taken), taken |-> s.taken, plan |-> <<>>]
  <2>1. s.taken \subseteq Questions
    BY <1>0, <1>2 DEF SelectCandidates, Op, StageOK, IsStage, Idle
  <2>2. PlanOK(next)
    <3>1. <<>> \in Seq(Picks) /\ Len(<<>>) = 0 /\ Len(setting.rules) \in Nat
      BY <1>0, SettingFacts
    <3> QED
      BY <2>1, <3>1 DEF PlanOK, Candidates
  <2>3. StageOK(next) /\ Knows(next)
    BY <2>2 DEF StageOK, IsStage, Knows, PlanOK
  <2> QED
    BY <1>2, <2>3, StagesKeep DEF SelectCandidates
<1>3. CASE SelectPlan(r)
  <2> DEFINE s == requests[r]
             i == Len(s.plan) + 1
  <2>1. PICK entry \in Entries(setting.rules[i], Unpicked(s), setting.type, setting.level) :
          Goto(r, [op |-> "plan", pool |-> s.pool, taken |-> s.taken, plan |-> Append(s.plan, entry)])
    BY <1>3 DEF SelectPlan
  <2>2. PlanOK(s) /\ i \in DOMAIN setting.rules
    BY <1>0, <1>3 DEF SelectPlan, Op, StageOK
  <2> DEFINE next == [op |-> "plan", pool |-> s.pool, taken |-> s.taken, plan |-> Append(s.plan, entry)]
  <2>3. PlanOK(next)
    BY <1>0, <2>1, <2>2, PlanGrows
  <2>4. StageOK(next) /\ Knows(next)
    BY <2>3 DEF StageOK, IsStage, Knows, PlanOK
  <2> QED
    BY <1>3, <2>1, <2>4, StagesKeep DEF SelectPlan
<1>4. CASE SelectDelete(r)
  <2> DEFINE s == requests[r]
             next == [op |-> "commit", pool |-> s.pool, taken |-> s.taken, plan |-> s.plan, old |-> DOMAIN links]
  <2>1. PlanOK(s) /\ Len(s.plan) = Len(setting.rules)
    BY <1>0, <1>4 DEF SelectDelete, Op, StageOK
  <2>2. PlanOK(next)
    BY <2>1 DEF PlanOK, EntryOK, Free
  <2>3. StageOK(next) /\ Knows(next)
    BY <2>1, <2>2 DEF StageOK, IsStage, Knows, PlanOK
  <2> QED
    BY <1>4, <2>3, StagesKeep DEF SelectDelete
<1>5. CASE SelectCommit(r)
  <2>1. r \in setting.clients /\ End(r) /\ edits' = edits /\ setting' = setting
    BY <1>5 DEF SelectCommit, Op
  <2>2. LinksOK' /\ SortOrderUnique'
    <3>1. CASE links' = links
      BY <2>1, <3>1 DEF SInv, LinksOK, LinkOK, Labels, SortOrderUnique, OneClient
    <3>2. CASE links' # links
      <4> DEFINE s == requests[r]
                 new == Layout(setting.rules, s.plan)
                 n == Len(s.plan)
                 rest == Surviving(s.old)
      <4>1. /\ new = [q \in PickedBy(s.plan, 1..n) |-> new[q]]
            /\ \A i \in 1..n : \A q \in s.plan[i].picked : LinkOK(new[q])
            /\ \A p, q \in PickedBy(s.plan, 1..n) : new[p].sort = new[q].sort => p = q
            /\ links' = Joined(new, rest)
            /\ OneClient => DOMAIN rest = {}
        BY <1>5, <3>2, CommitWrites
      <4>2. DOMAIN rest \subseteq DOMAIN links /\ \A q \in DOMAIN rest : rest[q] = links[q]
        BY DEF Surviving
      <4> HIDE DEF new, rest, n
      <4>3. /\ DOMAIN links' = PickedBy(s.plan, 1..n) \cup DOMAIN rest
            /\ \A q \in PickedBy(s.plan, 1..n) : links'[q] = new[q]
            /\ \A q \in DOMAIN rest : q \notin PickedBy(s.plan, 1..n) => links'[q] = rest[q]
        <5>1. DOMAIN new = PickedBy(s.plan, 1..n)
          BY <4>1
        <5> QED
          BY <4>1, <5>1 DEF Joined
      <4>4. \A q \in PickedBy(s.plan, 1..n) : LinkOK(new[q])
        <5> SUFFICES ASSUME NEW q \in PickedBy(s.plan, 1..n) PROVE LinkOK(new[q])
          OBVIOUS
        <5>1. PICK i \in 1..n : q \in s.plan[i].picked
          BY DEF PickedBy
        <5> QED
          BY <4>1, <5>1
      <4>5. \A q \in DOMAIN links' : LinkOK(links'[q])
        BY <4>2, <4>3, <4>4 DEF SInv, LinksOK
      <4>6. LinksOK'
        BY <2>1, <4>5 DEF LinksOK, LinkOK, Labels
      <4>7. SortOrderUnique'
        BY <2>1, <4>1, <4>3 DEF SortOrderUnique, OneClient
      <4> QED
        BY <4>6, <4>7
    <3> QED
      BY <3>1, <3>2
  <2> QED
    BY <2>1, <2>2, LinksWritten
<1> QED
  BY <1>1, <1>2, <1>3, <1>4, <1>5
-----------------------------------------------------------------------------
(* Every other step, and the theorems that follow.                         *)

LEMMA IdleOK == StageOK(Idle) /\ Knows(Idle)
BY DEF StageOK, IsStage, Knows, Idle

\* A request ends without having written a link.
LEMMA EndStages ==
  ASSUME IInv, SInv, NEW r \in Requests, End(r), UNCHANGED <<setting, edits, links>>
  PROVE  SInv'
BY IdleOK, StagesKeep DEF End

LEMMA EditStages ==
  ASSUME IInv, SInv, NEW r \in Requests, Edit(r)
  PROVE  SInv'
<1>1. CASE CreateAssessment(r)
  BY <1>1, FewerLinksKeep DEF CreateAssessment, SInv
<1>2. CASE UpdateWrite(r)
  BY <1>2, EndStages DEF UpdateWrite
<1>3. CASE DeleteRead(r)
  <2> DEFINE next == [op |-> "delete"]
  <2>1. StageOK(next) /\ Knows(next)
    BY DEF StageOK, IsStage, Knows
  <2> QED
    BY <1>3, <2>1, StagesKeep DEF DeleteRead
<1>4. CASE DeleteWrite(r)
  <2>1. DOMAIN links' = {} /\ r \in setting.clients /\ End(r) /\ UNCHANGED <<setting, edits>>
    BY <1>4 DEF DeleteWrite, Op
  <2>2. LinksOK' /\ SortOrderUnique'
    BY <2>1 DEF LinksOK, SortOrderUnique
  <2> QED
    BY <2>1, <2>2, LinksWritten
<1>5. ASSUME NEW field \in {"configured", "starts", "ends"}, NEW v, UpdateRead(r, field, v),
             field = "configured" => v \in BOOLEAN, field # "configured" => v \in Dates
      PROVE  SInv'
  <2> DEFINE next == [op |-> "update", field |-> field, value |-> v]
  <2>1. StageOK(next) /\ Knows(next)
    BY <1>5 DEF StageOK, IsStage, Knows
  <2> QED
    BY <1>5, <2>1, StagesKeep DEF UpdateRead
<1>6. ASSUME NEW scope \in setting.scopes, ScopeRead(r, scope) PROVE SInv'
  <2> DEFINE next == [op |-> "update", field |-> "scope", value |-> scope]
  <2>1. StageOK(next) /\ Knows(next)
    BY <1>6 DEF StageOK, IsStage, Knows
  <2> QED
    BY <1>6, <2>1, StagesKeep DEF ScopeRead
<1> QED
  BY <1>1, <1>2, <1>3, <1>4, <1>5, <1>6 DEF Edit

LEMMA TransitionStages ==
  ASSUME IInv, SInv, NEW r \in Requests, Transition(r)
  PROVE  SInv'
<1>1. ASSUME NEW s, TransitionRead(r, s) PROVE SInv'
  <2> DEFINE next == [op |-> IF s = "PUBLISHED" THEN "gate" ELSE "setStatus", status |-> s, row |-> assessment]
  <2>1. StageOK(next) /\ Knows(next)
    BY <1>1 DEF TransitionRead, StageOK, IsStage, Knows
  <2> QED
    BY <1>1, <2>1, StagesKeep DEF TransitionRead
<1>2. CASE PublishGate(r)
  <2> DEFINE next == [op |-> "setStatus", status |-> requests[r].status, row |-> requests[r].row]
  <2>1. requests[r].op = "gate" /\ StageOK(requests[r])
    BY <1>2 DEF PublishGate, Op, SInv
  <2>2. requests[r].status \in ValidTransitions[requests[r].row.status]
    BY <2>1 DEF StageOK, IsStage, Idle
  <2>3. StageOK(next) /\ Knows(next)
    BY <2>2 DEF StageOK, IsStage, Knows
  <2>4. CASE End(r)
    BY <1>2, <2>4, EndStages DEF PublishGate
  <2>5. CASE Goto(r, next)
    BY <1>2, <2>3, <2>5, StagesKeep DEF PublishGate
  <2> QED
    BY <1>2, <2>4, <2>5 DEF PublishGate
<1>3. CASE SetStatus(r)
  BY <1>3, EndStages DEF SetStatus
<1> QED
  BY <1>1, <1>2, <1>3 DEF Transition

LEMMA BankStages ==
  ASSUME IInv, SInv, NEW q \in Questions, ReviewQuestion(q) \/ DeleteQuestion(q)
  PROVE  SInv'
<1>1. edits' \in 0..setting'.edits
  <2>1. edits \in 0..setting.edits /\ IsSetting(setting)
    BY AssessmentsAssumption DEF IInv, RowsOK, SInv
  <2> QED
    BY <2>1 DEF ReviewQuestion, DeleteQuestion, EditBank, IsSetting
<1>2. CASE ReviewQuestion(q)
  BY <1>1, <1>2, FewerLinksKeep DEF ReviewQuestion
<1>3. CASE DeleteQuestion(q)
  BY <1>1, <1>3, FewerLinksKeep DEF DeleteQuestion
<1> QED
  BY <1>2, <1>3

LEMMA StagesInitially == Init => SInv
<1> SUFFICES ASSUME Init PROVE SInv
  OBVIOUS
<1>1. edits \in 0..setting.edits
  <2>1. setting \in Settings /\ edits = 0
    BY DEF Init
  <2> QED
    BY <2>1, AssessmentsAssumption DEF IsSetting
<1> QED
  BY <1>1, IdleOK DEF Init, SInv, LinksOK, SortOrderUnique

LEMMA StagesStep == IInv /\ SInv /\ [Next]_vars => SInv'
<1> SUFFICES ASSUME IInv, SInv, [Next]_vars PROVE SInv'
  OBVIOUS
<1>1. CASE UNCHANGED vars
  BY <1>1, FewerLinksKeep DEF vars, SInv
<1>2. ASSUME NEW q \in Questions, ReviewQuestion(q) \/ DeleteQuestion(q) PROVE SInv'
  BY <1>2, BankStages
<1>3. ASSUME NEW r \in Requests, Edit(r) \/ Transition(r) \/ Select(r) \/ RequestDies(r) PROVE SInv'
  <2>1. CASE RequestDies(r)
    BY <2>1, EndStages DEF RequestDies
  <2>2. CASE Select(r)
    BY <2>2, AddStep, RemoveStep, SelectionStep DEF Select
  <2> QED
    BY <1>3, <2>1, <2>2, EditStages, TransitionStages
<1> QED
  BY <1>1, <1>2, <1>3 DEF Next

LEMMA StagesInvariance == Spec => [](IInv /\ SInv)
<1>1. Init => IInv /\ SInv
  BY Initially, StagesInitially
<1>2. IInv /\ SInv /\ [Next]_vars => (IInv /\ SInv)'
  BY NextStep, StagesStep
<1> QED
  BY <1>1, <1>2, PTL DEF Spec

\* The variables have their types; a request holds what its stage needs, and no more.
THEOREM TypeCorrect == Spec => []TypeOK
<1>1. IInv /\ SInv => TypeOK
  BY DEF IInv, SInv, RowsOK, RequestsOK, Assessment, InBank, LinksOK, LinkOK, StageOK, TypeOK
<1> QED
  BY <1>1, StagesInvariance, PTL

\* No two questions of an assessment have the same number (addQuestions, autoSelectFromPattern).
THEOREM NumbersUnique == Spec => []SortOrderUnique
<1>1. IInv /\ SInv => SortOrderUnique
  BY DEF SInv
<1> QED
  BY <1>1, StagesInvariance, PTL
-----------------------------------------------------------------------------
(* What a selection promises.                                              *)

\* A plan in flight, entry by entry.
LEMMA PlannedEntries ==
  ASSUME IInv, SInv, NEW r \in Requests, Planned(r), NEW i \in DOMAIN requests[r].plan
  PROVE  /\ PlanOK(requests[r]) /\ EntryOK(requests[r], i)
         /\ i \in DOMAIN setting.rules
         /\ IsRule(setting.rules[i])
         /\ Free(requests[r], i) = Available(r, i)
<1>1. PlanOK(requests[r]) /\ setting \in Settings
  BY DEF IInv, RowsOK, SInv, StageOK, Planned
<1>2. i \in 1..Len(requests[r].plan) /\ i \in 1..Len(setting.rules)
  <2>1. DOMAIN requests[r].plan = 1..Len(requests[r].plan) /\ Len(requests[r].plan) \in Nat
    BY <1>1 DEF PlanOK
  <2> QED
    BY <1>1, <2>1, SettingFacts DEF PlanOK
<1>3. i \in DOMAIN setting.rules
  BY <1>1, <1>2, SettingFacts
<1> QED
  BY <1>1, <1>2, <1>3, SettingFacts DEF PlanOK, Free, Available

\* What is left of the pool is finite.
LEMMA AvailableCounts ==
  ASSUME IInv, SInv, NEW r \in Requests, Planned(r), NEW i \in DOMAIN requests[r].plan
  PROVE  IsFiniteSet(Available(r, i)) /\ Cardinality(Available(r, i)) \in Nat
<1>1. PlanOK(requests[r])
  BY PlannedEntries
<1>2. Available(r, i) \subseteq Questions
  BY <1>1 DEF PlanOK, Available
<1> QED
  BY <1>2, SettingFacts, FS_Subset, FS_CardinalityType DEF IInv, RowsOK

\* Whatever the pattern and the bank, a plan is short of a rule only when the candidates are
\* (planAutoSelection).
THEOREM PlansFillRules == Spec => []PlanFillsRules
<1>1. IInv /\ SInv => PlanFillsRules
  <2> SUFFICES ASSUME IInv, SInv, NEW r \in Requests, Planned(r), NEW i \in DOMAIN requests[r].plan
               PROVE  LET picked == requests[r].plan[i].picked IN
                      /\ picked \cap requests[r].taken = {}
                      /\ IF Selectable(setting.rules[i])
                         THEN /\ picked \subseteq Available(r, i)
                              /\ Cardinality(picked) = Min({setting.rules[i].count, Cardinality(Available(r, i))})
                         ELSE picked = {}
    BY DEF PlanFillsRules
  <2>1. /\ PlanOK(requests[r]) /\ EntryOK(requests[r], i) /\ IsRule(setting.rules[i])
        /\ Free(requests[r], i) = Available(r, i)
    BY PlannedEntries
  <2>2. requests[r].plan[i].picked \cap requests[r].taken = {}
    BY <2>1 DEF PlanOK, EntryOK
  <2>3. CASE Selectable(setting.rules[i])
    <3>1. Pick(setting.rules[i], Available(r, i), setting.level, requests[r].plan[i])
      BY <2>1, <2>3 DEF EntryOK
    <3>2. setting.rules[i].count \in Nat /\ Cardinality(Available(r, i)) \in Nat
      BY <2>1, AvailableCounts DEF IsRule
    <3> QED
      BY <2>2, <2>3, <3>1, <3>2, MinOfTwo DEF Pick
  <2>4. CASE ~Selectable(setting.rules[i])
    BY <2>1, <2>2, <2>4 DEF EntryOK
  <2> QED
    BY <2>3, <2>4
<1> QED
  BY <1>1, StagesInvariance, PTL

\* A plan departs from a rule's weights only by what it reports, for every distribution of
\* weights, zero and unvalidated ones included (pickForSection).
THEOREM PlansKeepDifficulty == Spec => []PlanKeepsDifficulty
<1>1. IInv /\ SInv => PlanKeepsDifficulty
  <2> SUFFICES ASSUME IInv, SInv, NEW r \in Requests, Planned(r), NEW i \in DOMAIN requests[r].plan,
                      Selectable(setting.rules[i])
               PROVE  LET rule == setting.rules[i]
                          entry == requests[r].plan[i]
                      IN IF TotalWeight(rule) = 0 THEN entry.short = IF entry.picked = {} THEN {} ELSE {Unmatched}
                         ELSE IF entry.short = {} THEN FairShare(rule, [d \in Levels |-> OfLevel(entry.picked, d)])
                         ELSE \E d \in entry.short \cap Levels, a \in [Levels -> 0..rule.count] :
                                /\ \A e \in entry.short : d <= e
                                /\ FairShare(rule, a) /\ OfLevel(Available(r, i), d) < a[d]
    BY DEF PlanKeepsDifficulty
  <2> DEFINE rule == setting.rules[i]
             entry == requests[r].plan[i]
  <2>1. /\ IsRule(rule)
        /\ Pick(rule, Available(r, i), setting.level, entry)
    BY PlannedEntries DEF EntryOK
  <2> HIDE DEF rule, entry
  <2>2. TotalWeight(rule) \in Nat
    BY <2>1, WeightsAreNumbers
  <2>3. CASE TotalWeight(rule) = 0
    BY <2>1, <2>3 DEF Pick, rule, entry
  <2>4. CASE TotalWeight(rule) > 0
    <3>1. PICK a \in Allocations(rule) :
            /\ entry.short = {} => \A d \in Levels : Cardinality(OfLevelIn(entry.picked, setting.level, d)) = a[d]
            /\ entry.short # {} => FirstIsShort(entry.short, Available(r, i), setting.level, a)
      BY <2>1, <2>4 DEF Pick
    <3>2. FairShare(rule, a) /\ a = [d \in Levels |-> a[d]] /\ \A d \in Levels : a[d] \in 0..rule.count
      BY <2>1, <2>4, AllocationsAreFair, AllocationsAreNumbers
    <3>3. CASE entry.short = {}
      <4>1. \A d \in Levels : OfLevel(entry.picked, d) = a[d]
        BY <3>1, <3>3 DEF OfLevel, OfLevelIn
      <4>2. [d \in Levels |-> OfLevel(entry.picked, d)] = a
        BY <3>2, <4>1
      <4> QED
        BY <2>4, <3>2, <3>3, <4>2 DEF rule, entry
    <3>4. CASE entry.short # {}
      <4>1. a \in [Levels -> 0..rule.count]
        BY <3>2
      <4>2. PICK d \in entry.short : /\ d \in Levels /\ \A e \in entry.short : d <= e
                                     /\ Cardinality(OfLevelIn(Available(r, i), setting.level, d)) < a[d]
        BY <3>1, <3>4 DEF FirstIsShort
      <4>3. d \in entry.short \cap Levels /\ OfLevel(Available(r, i), d) < a[d]
        BY <4>2 DEF OfLevel, OfLevelIn
      <4> QED
        BY <2>4, <3>2, <3>4, <4>1, <4>2, <4>3 DEF rule, entry
    <3> QED
      BY <3>3, <3>4
  <2> QED
    BY <2>2, <2>3, <2>4
<1> QED
  BY <1>1, StagesInvariance, PTL

\* The links of one client that commits a selection are written by the commit.
LEMMA OnlyTheCommit ==
  ASSUME IInv, SInv, [Next]_vars, NEW r \in Requests, OneClient, Committed(r)
  PROVE  SelectCommit(r)
<1>0. r \in setting.clients /\ requests[r].op = "commit"
  BY DEF IInv, RequestsOK, RequestOK, Committed, Idle
<1>1. ASSUME NEW q \in Questions, ReviewQuestion(q) \/ DeleteQuestion(q) PROVE FALSE
  <2>1. CASE ReviewQuestion(q)
    BY <2>1 DEF ReviewQuestion, Committed
  <2>2. CASE DeleteQuestion(q)
    <3>1. bank[q] # Null /\ bank' = [bank EXCEPT ![q] = Null] /\ bank' = bank
      BY <2>2 DEF DeleteQuestion, EditBank, Committed
    <3>2. bank \in [Questions -> QuestionRow \cup {Null}]
      BY DEF IInv, RowsOK
    <3> QED
      BY <3>1, <3>2
  <2> QED
    BY <1>1, <2>1, <2>2
<1>2. ASSUME NEW p \in Requests, Edit(p) \/ Transition(p) \/ Select(p) \/ RequestDies(p) PROVE SelectCommit(r)
  <2>0. p \in setting.clients => p = r
    BY <1>0 DEF OneClient
  <2>1. CASE Edit(p)
    BY <1>0, <2>0, <2>1 DEF Committed, Edit, CreateAssessment, UpdateWrite, DeleteRead, DeleteWrite,
       UpdateRead, ScopeRead, Op
  <2>2. CASE Transition(p)
    BY <2>2 DEF Committed, Transition, TransitionRead, PublishGate, SetStatus
  <2>3. CASE Select(p)
    <3>1. p \in setting.clients => p = r
      BY <2>0
    <3>2. ~AddInsert(p) /\ ~RemoveWrite(p)
      BY <1>0, <3>1 DEF AddInsert, RemoveWrite, Op
    <3>3. \/ SelectCommit(p)
          \/ \E qs \in SUBSET setting.present \ {{}}, section \in Labels : AddRead(p, qs, section)
          \/ AddMax(p) \/ SelectRead(p) \/ SelectCandidates(p) \/ SelectPlan(p) \/ SelectDelete(p)
          \/ \E q \in DOMAIN links : RemoveRead(p, q)
      BY <2>3, <3>2 DEF Select
    <3>4. links' = links \/ SelectCommit(p)
      BY <3>3 DEF AddRead, AddMax, SelectRead, SelectCandidates, SelectPlan, SelectDelete, RemoveRead
    <3>5. SelectCommit(p) => p \in setting.clients
      BY DEF SelectCommit, Op
    <3> QED
      BY <3>1, <3>4, <3>5 DEF Committed
  <2>4. CASE RequestDies(p)
    BY <2>4 DEF RequestDies, Committed
  <2> QED
    BY <1>2, <2>1, <2>2, <2>3, <2>4
<1> QED
  BY <1>1, <1>2 DEF Next, vars, Committed

CoversStep ==
  \A r \in Requests :
    OneClient /\ DistinctLabels /\ Committed(r) =>
      /\ Unassigned(setting.rules, links') = {}
      /\ \A i \in DOMAIN setting.rules :
           LET rule == setting.rules[i] IN
           Selectable(rule) =>
             Coverage(rule, links', setting.type) =
               IF Cardinality(requests[r].plan[i].picked) < rule.count THEN "SHORT" ELSE "OK"

\* The paper a selection leaves agrees with the coverage shown for it, whatever the pattern
\* and the plan (autoSelectFromPattern, computePatternCoverage).
THEOREM SelectionsCover == Spec => SelectedCovers
<1>1. IInv /\ SInv /\ [Next]_vars => [CoversStep]_vars
  <2> SUFFICES ASSUME IInv, SInv, [Next]_vars, NEW r \in Requests, OneClient, DistinctLabels, Committed(r)
               PROVE  /\ Unassigned(setting.rules, links') = {}
                      /\ \A i \in DOMAIN setting.rules :
                           LET rule == setting.rules[i] IN
                           Selectable(rule) =>
                             Coverage(rule, links', setting.type) =
                               IF Cardinality(requests[r].plan[i].picked) < rule.count THEN "SHORT" ELSE "OK"
    BY DEF CoversStep
  <2> DEFINE s == requests[r]
             new == Layout(setting.rules, s.plan)
             n == Len(s.plan)
             rest == Surviving(s.old)
             left == links'
  <2>1. SelectCommit(r) /\ links' # links
    BY OnlyTheCommit DEF Committed
  <2>2. /\ PlanOK(s) /\ Apart(s.plan, n) /\ n = Len(setting.rules)
        /\ new = [q \in PickedBy(s.plan, 1..n) |-> new[q]]
        /\ \A i \in 1..n : \A q \in s.plan[i].picked : new[q].section = Label(setting.rules[i])
        /\ left = Joined(new, rest) /\ DOMAIN rest = {}
    BY <2>1, CommitWrites
  <2>3. setting \in Settings /\ DOMAIN setting.rules = 1..n /\ n \in Nat
    BY <2>2, SettingFacts DEF IInv, RowsOK
  <2> HIDE DEF new, rest, n, left
  <2>4. DOMAIN left = PickedBy(s.plan, 1..n) /\ \A q \in DOMAIN left : left[q] = new[q]
    <3>1. DOMAIN new = PickedBy(s.plan, 1..n)
      BY <2>2
    <3> QED
      BY <2>2, <3>1 DEF Joined
  <2>5. \A i \in 1..n : \A q \in s.plan[i].picked : q \in DOMAIN left /\ left[q].section = Label(setting.rules[i])
    <3> SUFFICES ASSUME NEW i \in 1..n, NEW q \in s.plan[i].picked
                 PROVE  q \in DOMAIN left /\ left[q].section = Label(setting.rules[i])
      OBVIOUS
    <3>1. q \in PickedBy(s.plan, 1..n)
      BY DEF PickedBy
    <3>2. new[q].section = Label(setting.rules[i])
      BY <2>2
    <3> QED
      BY <2>4, <3>1, <3>2
  <2>6. \A q \in DOMAIN left : \E i \in 1..n : q \in s.plan[i].picked
    BY <2>4 DEF PickedBy
  <2>7. Unassigned(setting.rules, left) = {}
    BY <2>3, <2>5, <2>6 DEF Unassigned
  <2>8. ASSUME NEW i \in 1..n, Selectable(setting.rules[i])
        PROVE  Coverage(setting.rules[i], left, setting.type) =
                 IF Cardinality(s.plan[i].picked) < setting.rules[i].count THEN "SHORT" ELSE "OK"
    <3> DEFINE rule == setting.rules[i]
               picked == s.plan[i].picked
    <3>1. {q \in DOMAIN left : left[q].section = Label(rule)} = picked
      <4>1. ASSUME NEW q \in DOMAIN left, left[q].section = Label(rule) PROVE q \in picked
        <5>1. PICK k \in 1..n : q \in s.plan[k].picked
          BY <2>6
        <5>2. Label(setting.rules[k]) = Label(rule)
          BY <2>5, <4>1, <5>1
        <5>3. k = i
          BY <2>3, <5>2 DEF DistinctLabels
        <5> QED
          BY <5>1, <5>3
      <4> QED
        BY <2>5, <4>1
    <3>2. EntryOK(s, i) /\ IsRule(rule)
      BY <2>2, <2>3, SettingFacts DEF PlanOK, n
    <3>3. Pick(rule, Free(s, i), setting.level, s.plan[i])
      BY <2>8, <3>2 DEF EntryOK
    <3>4. IsFiniteSet(Free(s, i)) /\ Cardinality(Free(s, i)) \in Nat
      <4>1. Free(s, i) \subseteq Questions
        BY <2>2 DEF PlanOK, Free
      <4> QED
        BY <2>3, <4>1, SettingFacts, FS_Subset, FS_CardinalityType
    <3>5. Cardinality(picked) \in Nat /\ Cardinality(picked) <= rule.count
      <4>1. Cardinality(picked) = Lesser(rule.count, Cardinality(Free(s, i))) /\ rule.count \in Nat
        BY <3>2, <3>3 DEF Pick, IsRule
      <4> QED
        BY <3>4, <4>1 DEF Lesser
    <3>6. rule.type # Null /\ rule.count > 0 /\ RequiredCount(rule) = rule.count
      BY <2>8 DEF Selectable, RequiredCount
    <3>7. \A q \in picked : setting.type[q] = rule.type
      BY <3>3 DEF Pick, Free
    <3>8. rule.count \in Nat
      BY <3>2 DEF IsRule
    <3> HIDE DEF rule, picked
    <3> QED
      <4>1. Coverage(rule, left, setting.type) =
              IF Cardinality(picked) < rule.count THEN "SHORT"
              ELSE IF rule.count > 0 /\ Cardinality(picked) > rule.count THEN "EXCESS"
              ELSE IF rule.type # Null /\ \E q \in picked : setting.type[q] # rule.type THEN "TYPE_MISMATCH"
              ELSE "OK"
        BY <3>1, <3>6 DEF Coverage
      <4>2. Coverage(rule, left, setting.type) = IF Cardinality(picked) < rule.count THEN "SHORT" ELSE "OK"
        BY <3>5, <3>7, <3>8, <4>1
      <4> QED
        BY <4>2 DEF rule, picked
  <2> QED
    BY <2>3, <2>7, <2>8 DEF left, n
<1> QED
  BY <1>1, StagesInvariance, PTL DEF Spec, SelectedCovers, CoversStep
==============================================================================
