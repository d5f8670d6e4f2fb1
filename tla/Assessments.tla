----------------------------- MODULE Assessments ----------------------------
(***************************************************************************)
(* One assessment of the examinations service                              *)
(* (apps/api/src/examinations/examinations.service.ts), from its creation  *)
(* to its completion or deletion, and the question bank its questions come *)
(* from (apps/api/src/questions/questions.service.ts).                     *)
(*                                                                         *)
(* Grain.  A request reads the assessment and checks it in one step and    *)
(* writes in a later one, as the code does without a lock.  Reads of one   *)
(* request that follow each other with no write between them are one step  *)
(* when they read different tables.  A transaction that reads, or deletes, *)
(* before it inserts is two steps.  The bank is edited by others at any    *)
(* time.  Who may call what is left out, and so is the clock: a start in   *)
(* the past is refused before anything is read.                            *)
(***************************************************************************)
EXTENDS PaperSelection

CONSTANTS
  Questions,    \* bound: questions of the bank
  Chapters,     \* of the one subject
  Requests,     \* concurrent API requests
  Settings      \* banks, patterns and bounds: see IsSetting

\* A setting fixes the bank's questions, their type, level and chapter, the rules of the
\* pattern the assessment is built from, and the requests that may run at once.  Its bounds
\* are how many edits others make to the bank, the sort numbers handed out to questions added
\* by hand, the dates of a schedule, and the scopes asked for.
IsSetting(s) ==
  /\ DOMAIN s = {"present", "type", "level", "chapter", "rules", "clients", "edits", "sorts", "dates", "scopes"}
  /\ s.present \subseteq Questions
  /\ s.type \in [Questions -> Types] /\ s.level \in [Questions -> Levels]
  /\ s.chapter \in [Questions -> Chapters]
  /\ Len(s.rules) \in Nat /\ DOMAIN s.rules = 1..Len(s.rules)
  /\ \A i \in DOMAIN s.rules : IsRule(s.rules[i])
  /\ s.clients \subseteq Requests /\ s.edits \in Nat /\ s.sorts \in Nat /\ s.dates \in Nat
  /\ s.scopes \subseteq Chapters \cup {"subject"}

QuestionRow == [approval : {"APPROVED", "REJECTED"}, status : {"ACTIVE", "ARCHIVED"}]

ASSUME AssessmentsAssumption ==
  /\ IsFiniteSet(Questions)
  /\ Null \notin Questions \cup Chapters \cup Types \cup QuestionRow
  /\ "subject" \notin Chapters
  /\ \A s \in Settings : IsSetting(s)

VARIABLES
  setting,      \* the setting of this behaviour
  bank,         \* questions: approval and status; Null once deleted
  edits,        \* how many edits others have made to the bank
  gate,         \* history: the questions the publish gate last passed with, and those
                \* others have changed since
  assessment,   \* assessments row
  links,        \* assessment_questions rows, by question (their unique key)
  requests      \* in-flight requests and what they have read

vars == <<setting, bank, edits, gate, assessment, links, requests>>

-----------------------------------------------------------------------------
(* The question bank.                                                      *)

Approved == [approval |-> "APPROVED", status |-> "ACTIVE"]
InBank == {q \in Questions : bank[q] # Null}

EditBank(q, row) ==
  /\ bank[q] # Null /\ bank[q] # row
  /\ edits' = edits + 1 /\ edits' <= setting.edits
  /\ gate' = [gate EXCEPT !.changed = @ \cup {q}]
  /\ bank' = [bank EXCEPT ![q] = row]

\* setApprovalStatus and batchSetApprovalStatus, setStatus; links are left alone.
ReviewQuestion(q) ==
  /\ bank[q] # Null
  /\ \/ \E v \in {"APPROVED", "REJECTED"} : EditBank(q, [bank[q] EXCEPT !.approval = v])
     \/ \E v \in {"ACTIVE", "ARCHIVED"} : EditBank(q, [bank[q] EXCEPT !.status = v])
  /\ UNCHANGED <<setting, assessment, links, requests>>

\* deleteQuestion: its links go with it, whatever the assessment's status.
DeleteQuestion(q) ==
  /\ EditBank(q, Null)
  /\ links' = [p \in DOMAIN links \ {q} |-> links[p]]
  /\ UNCHANGED <<setting, assessment, requests>>

-----------------------------------------------------------------------------
(* What a request reads and checks.                                        *)

Idle == [op |-> "idle"]
Goto(r, next) == requests' = [requests EXCEPT ![r] = next]
End(r) == Goto(r, Idle)
Op(r, op) == r \in setting.clients /\ requests[r].op = op
Starts(r) == Op(r, "idle")

Exists == assessment.status \notin {"NONE", "DELETED"}
\* The DRAFT check of every edit.  Mutation: none.
EditableAlways == Exists
Editable == assessment.status = "DRAFT"

\* scopeFilter, scopeCoversRow: the most specific stored level decides.
Covers(scope, q) == scope = "subject" \/ setting.chapter[q] = scope

\* validateSchedule, on the merged schedule; 0 is no date.
Ordered(starts, ends) == starts > 0 /\ ends > 0 => starts < ends

Dates == 0..setting.dates
Labels == {General} \cup {Label(setting.rules[i]) : i \in DOMAIN setting.rules}

-----------------------------------------------------------------------------
(* Creation, edits, deletion.                                              *)

CreateAssessment(r) ==
  /\ Starts(r) /\ assessment.status = "NONE"
  /\ \E scope \in setting.scopes, c \in BOOLEAN, starts \in Dates, ends \in Dates :
       /\ Ordered(starts, ends)
       /\ assessment' = [status |-> "DRAFT", scope |-> scope, configured |-> c,
                         starts |-> starts, ends |-> ends]
  /\ UNCHANGED <<setting, bank, edits, gate, links, requests>>

\* A patch of one field: configured stands for durationMinutes and maxMarks, both set.
Patched(field, value) == [assessment EXCEPT ![field] = value]

UpdateRead(r, field, value) ==
  /\ Starts(r) /\ Editable
  /\ assessment[field] # value
  /\ Ordered(Patched(field, value).starts, Patched(field, value).ends)
  /\ Goto(r, [op |-> "update", field |-> field, value |-> value])
  /\ UNCHANGED <<setting, bank, edits, gate, assessment, links>>

\* Only the patch's fields are written.
UpdateWrite(r) ==
  /\ Op(r, "update")
  /\ assessment' = IF Exists THEN Patched(requests[r].field, requests[r].value) ELSE assessment
  /\ End(r)
  /\ UNCHANGED <<setting, bank, edits, gate, links>>

\* setScope does not look at the questions already linked.
ScopeRead(r, scope) ==
  /\ Starts(r) /\ Editable
  /\ scope # assessment.scope
  /\ Goto(r, [op |-> "update", field |-> "scope", value |-> scope])
  /\ UNCHANGED <<setting, bank, edits, gate, assessment, links>>

DeleteRead(r) ==
  /\ Starts(r) /\ Editable
  /\ Goto(r, [op |-> "delete"])
  /\ UNCHANGED <<setting, bank, edits, gate, assessment, links>>

DeleteWrite(r) ==
  /\ Op(r, "delete")
  /\ assessment' = [assessment EXCEPT !.status = IF Exists THEN "DELETED" ELSE @]
  /\ links' = <<>>
  /\ End(r)
  /\ UNCHANGED <<setting, bank, edits, gate>>

-----------------------------------------------------------------------------
(* The state machine.                                                      *)

ValidTransitions ==
  [status \in {"NONE", "DRAFT", "PUBLISHED", "ACTIVE", "COMPLETED", "DELETED"} |->
    CASE status = "DRAFT" -> {"PUBLISHED"}
      [] status = "PUBLISHED" -> {"ACTIVE", "DRAFT"}
      [] status = "ACTIVE" -> {"COMPLETED"}
      [] OTHER -> {}]

\* activate, complete, unpublish: read and check, then setStatus; publish has the gate between.
TransitionRead(r, next) ==
  /\ Starts(r)
  /\ next \in ValidTransitions[assessment.status]
  /\ Goto(r, [op |-> IF next = "PUBLISHED" THEN "gate" ELSE "setStatus", status |-> next, row |-> assessment])
  /\ UNCHANGED <<setting, bank, edits, gate, assessment, links>>

\* The gate re-checks every linked question.  Mutation: the question is trusted since linking.
PublishableAnyhow(q) == TRUE
Publishable(q) == bank[q] = Approved

\* listQuestions; then the row read at the start of the request is checked.
PublishGate(r) ==
  LET row == requests[r].row IN
  /\ Op(r, "gate")
  /\ IF /\ DOMAIN links # {} /\ \A q \in DOMAIN links : Publishable(q)
        /\ row.scope # Null /\ row.configured /\ Ordered(row.starts, row.ends)
     THEN /\ Goto(r, [op |-> "setStatus", status |-> requests[r].status, row |-> row])
          /\ gate' = [seen |-> DOMAIN links, changed |-> {}]
     ELSE End(r) /\ gate' = gate
  /\ UNCHANGED <<setting, bank, edits, assessment, links>>

\* setStatus, whatever the status has become.
SetStatus(r) ==
  /\ Op(r, "setStatus")
  /\ assessment' = [assessment EXCEPT !.status = IF Exists THEN requests[r].status ELSE @]
  /\ End(r)
  /\ UNCHANGED <<setting, bank, edits, gate, links>>

-----------------------------------------------------------------------------
(* The question set.                                                       *)

\* addQuestions: every question must be active and in scope; approval waits for the gate.
AddRead(r, qs, section) ==
  /\ Starts(r) /\ Editable /\ assessment.scope # Null
  /\ \A q \in qs : q \in InBank /\ bank[q].status = "ACTIVE" /\ Covers(assessment.scope, q)
  /\ Goto(r, [op |-> "addMax", questions |-> qs, section |-> section])
  /\ UNCHANGED <<setting, bank, edits, gate, assessment, links>>

\* The transaction: max(sortOrder), then the inserts, which the unique key or a foreign key
\* may refuse.  Mutation: the number of links is taken for the highest number.
CountSort == Cardinality(DOMAIN links)
MaxSort == Max({0} \cup {links[q].sort : q \in DOMAIN links})

AddMax(r) ==
  /\ Op(r, "addMax")
  /\ MaxSort + Cardinality(requests[r].questions) <= setting.sorts
  /\ Goto(r, [op |-> "addInsert", questions |-> requests[r].questions, section |-> requests[r].section,
              base |-> MaxSort])
  /\ UNCHANGED <<setting, bank, edits, gate, assessment, links>>

Joined(new, old) ==
  [q \in DOMAIN new \cup DOMAIN old |-> IF q \in DOMAIN new THEN new[q] ELSE old[q]]
Insertable(qs) == Exists /\ qs \subseteq InBank \ DOMAIN links

AddInsert(r) ==
  LET add == requests[r]
      order == SetToSeq(add.questions)
      place == [q \in add.questions |->
                 [sort |-> add.base + CHOOSE i \in DOMAIN order : order[i] = q,
                  marks |-> 1, section |-> add.section]]
  IN
  /\ Op(r, "addInsert")
  /\ links' = IF Insertable(add.questions) THEN Joined(place, links) ELSE links
  /\ End(r)
  /\ UNCHANGED <<setting, bank, edits, gate, assessment>>

RemoveRead(r, q) ==
  /\ Starts(r) /\ Editable
  /\ Goto(r, [op |-> "remove", question |-> q])
  /\ UNCHANGED <<setting, bank, edits, gate, assessment, links>>

RemoveWrite(r) ==
  /\ Op(r, "remove")
  /\ links' = [q \in DOMAIN links \ {requests[r].question} |-> links[q]]
  /\ End(r)
  /\ UNCHANGED <<setting, bank, edits, gate, assessment>>

\* autoSelectFromPattern reads the row, the pattern and the linked questions, ...
SelectRead(r) ==
  /\ Starts(r) /\ Editable /\ assessment.scope # Null
  /\ setting.rules # <<>>
  /\ Goto(r, [op |-> "candidates", scope |-> assessment.scope, taken |-> DOMAIN links])
  /\ UNCHANGED <<setting, bank, edits, gate, assessment, links>>

\* ... then the candidates; questions already linked are not.  Mutation: they are.
RetakenCandidates(scope, taken) == {q \in Questions : bank[q] = Approved /\ Covers(scope, q)}
Candidates(scope, taken) == {q \in Questions \ taken : bank[q] = Approved /\ Covers(scope, q)}

SelectCandidates(r) ==
  /\ Op(r, "candidates")
  /\ Goto(r, [op |-> "plan", pool |-> Candidates(requests[r].scope, requests[r].taken),
              taken |-> requests[r].taken, plan |-> <<>>])
  /\ UNCHANGED <<setting, bank, edits, gate, assessment, links>>

\* planAutoSelection: rule after rule, from what the rules before it have left.  Mutation:
\* from the whole pool.
WholePool(select) == select.pool
Unpicked(select) == select.pool \ PickedBy(select.plan, DOMAIN select.plan)

SelectPlan(r) ==
  LET select == requests[r]
      i == Len(select.plan) + 1
  IN
  /\ Op(r, "plan") /\ i \in DOMAIN setting.rules
  /\ \E entry \in Entries(setting.rules[i], Unpicked(select), setting.type, setting.level) :
       Goto(r, [op |-> "plan", pool |-> select.pool, taken |-> select.taken,
                plan |-> Append(select.plan, entry)])
  /\ UNCHANGED <<setting, bank, edits, gate, assessment, links>>

\* The transaction deletes the rows it sees, ...
SelectDelete(r) ==
  /\ Op(r, "plan") /\ Len(requests[r].plan) = Len(setting.rules)
  /\ Goto(r, [op |-> "commit", pool |-> requests[r].pool, taken |-> requests[r].taken,
              plan |-> requests[r].plan, old |-> DOMAIN links])
  /\ UNCHANGED <<setting, bank, edits, gate, assessment, links>>

\* ... inserts the plan and commits; a key that is taken or gone rolls it back.
Surviving(old) == [q \in DOMAIN links \ old |-> links[q]]

SelectCommit(r) ==
  LET new == Layout(setting.rules, requests[r].plan)
      rest == Surviving(requests[r].old)
  IN
  /\ Op(r, "commit")
  /\ links' = IF /\ DOMAIN new \subseteq InBank \ DOMAIN rest
                 /\ DOMAIN new # {} => Exists
              THEN Joined(new, rest) ELSE links
  /\ End(r)
  /\ UNCHANGED <<setting, bank, edits, gate, assessment>>

\* The API process stops between two steps; an open transaction is rolled back.
RequestDies(r) ==
  /\ r \in setting.clients /\ requests[r] # Idle
  /\ End(r)
  /\ UNCHANGED <<setting, bank, edits, gate, assessment, links>>

-----------------------------------------------------------------------------

\* No assessment yet, or one older than scopes, which has none.
Unscoped(status) == [status |-> status, scope |-> Null, configured |-> TRUE, starts |-> 0, ends |-> 0]

Init ==
  /\ setting \in Settings
  /\ \E approved \in SUBSET setting.present :
       bank = [q \in Questions |-> IF q \in approved THEN Approved
                                  ELSE IF q \in setting.present THEN [Approved EXCEPT !.approval = "REJECTED"]
                                  ELSE Null]
  /\ edits = 0 /\ gate = [seen |-> {}, changed |-> {}]
  /\ assessment \in {Unscoped("NONE"), Unscoped("DRAFT")}
  /\ links = <<>>
  /\ requests = [r \in Requests |-> Idle]

Edit(r) ==
  \/ CreateAssessment(r) \/ UpdateWrite(r) \/ DeleteRead(r) \/ DeleteWrite(r)
  \/ \E v \in BOOLEAN : UpdateRead(r, "configured", v)
  \/ \E field \in {"starts", "ends"}, v \in Dates : UpdateRead(r, field, v)
  \/ \E scope \in setting.scopes : ScopeRead(r, scope)

Transition(r) ==
  \/ \E next \in {"DRAFT", "PUBLISHED", "ACTIVE", "COMPLETED"} : TransitionRead(r, next)
  \/ PublishGate(r) \/ SetStatus(r)

Select(r) ==
  \/ \E qs \in SUBSET setting.present \ {{}}, section \in Labels : AddRead(r, qs, section)
  \/ AddMax(r) \/ AddInsert(r)
  \/ \E q \in DOMAIN links : RemoveRead(r, q)
  \/ RemoveWrite(r)
  \/ SelectRead(r) \/ SelectCandidates(r) \/ SelectPlan(r) \/ SelectDelete(r) \/ SelectCommit(r)

Next ==
  \/ \E q \in Questions : ReviewQuestion(q) \/ DeleteQuestion(q)
  \/ \E r \in Requests : Edit(r) \/ Transition(r) \/ Select(r) \/ RequestDies(r)

Spec == Init /\ [][Next]_vars

-----------------------------------------------------------------------------
(* Properties.  Those of one client hold when its requests do not overlap  *)
(* each other; the bank is edited under it all the same.                   *)

OneClient == \A p, r \in setting.clients : p = r
Taken == assessment.status \in {"PUBLISHED", "ACTIVE", "COMPLETED"}

Picks == [picked : SUBSET Questions, short : SUBSET Reports]
IsStage(s) ==
  \/ s = Idle \/ s.op = "delete"
  \/ /\ s.op = "update" /\ s.field \in {"configured", "starts", "ends", "scope"}
     /\ IF s.field = "configured" THEN s.value \in BOOLEAN
        ELSE IF s.field = "scope" THEN s.value \in setting.scopes ELSE s.value \in Dates
  \/ /\ s.op \in {"gate", "setStatus"}
     /\ s.status \in ValidTransitions[s.row.status]
  \/ /\ s.op \in {"addMax", "addInsert"}
     /\ s.questions \subseteq Questions /\ s.section \in Labels
  \/ /\ s.op = "remove" /\ s.question \in Questions
  \/ /\ s.op = "candidates" /\ s.taken \subseteq Questions
  \/ /\ s.op \in {"plan", "commit"}
     /\ s.plan \in Seq(Picks) /\ Len(s.plan) <= Len(setting.rules)

\* Types of the variables; a link's number is within the numbers handed out.
TypeOK ==
  /\ setting \in Settings
  /\ bank \in [Questions -> QuestionRow \cup {Null}]
  /\ edits \in 0..setting.edits
  /\ gate \in [seen : SUBSET Questions, changed : SUBSET Questions]
  /\ assessment \in [status : DOMAIN ValidTransitions, scope : {Null} \cup setting.scopes,
                     configured : BOOLEAN, starts : Dates, ends : Dates]
  /\ DOMAIN links \subseteq Questions
  /\ \A q \in DOMAIN links : links[q].sort \in Nat \ {0} /\ links[q].marks \in Nat \ {0} /\ links[q].section \in Labels
  /\ DOMAIN requests = Requests /\ \A r \in Requests : IsStage(requests[r])

\* An assessment students may take has passed the publish gate, and is still what the gate
\* saw: it has a scope, a duration and marks and an ordered schedule; its questions are the
\* ones the gate saw, of which there were some, less those the bank has deleted; and each is
\* approved and active unless others have changed it since the gate (publishAssessment; edits
\* and removals check DRAFT before they write).
GateHolds ==
  OneClient /\ Taken =>
    /\ assessment.scope # Null /\ assessment.configured
    /\ Ordered(assessment.starts, assessment.ends)
    /\ gate.seen # {} /\ DOMAIN links = gate.seen \cap InBank
    /\ \A q \in DOMAIN links \ gate.changed : bank[q] = Approved

\* No two questions of an assessment have the same number: appending after removals, and
\* replacing the whole set, both keep the printed order total (addQuestions, autoSelectFromPattern).
SortOrderUnique == OneClient => \A p, q \in DOMAIN links : links[p].sort = links[q].sort => p = q

Planned(r) == requests[r].op \in {"plan", "commit"}
\* What is left of the pool for rule i: the questions of its type no earlier rule took.
Available(r, i) ==
  {q \in requests[r].pool : setting.type[q] = setting.rules[i].type}
    \ PickedBy(requests[r].plan, 1..(i - 1))

\* A plan is short of a rule's count only when the candidates are: each rule gets questions of
\* its type, as many as it asks for or all that are left of the candidates, none of which
\* another rule gets or the paper already has (planAutoSelection).  The paper's own questions
\* are no candidates, so that a repeated selection may be short where the bank is not.
PlanFillsRules ==
  \A r \in Requests : Planned(r) => \A i \in DOMAIN requests[r].plan :
    LET picked == requests[r].plan[i].picked IN
    /\ picked \cap requests[r].taken = {}
    /\ IF Selectable(setting.rules[i])
       THEN /\ picked \subseteq Available(r, i)
            /\ Cardinality(picked) = Min({setting.rules[i].count, Cardinality(Available(r, i))})
       ELSE picked = {}

\* The number of questions of level d among qs.
OfLevel(qs, d) == Cardinality({q \in qs : setting.level[q] = d})
\* A plan departs from the rule's weights only by what it reports: a rule with nothing
\* reported has a fair share of each level, so that a level of weight zero has none; of the
\* levels reported the first is really short of its fair share; and a rule whose weights are
\* all zero reports each question it gets (pickForSection).  Nothing is said of the further
\* levels reported, whose questions the first one's replacements may have used up.
PlanKeepsDifficulty ==
  \A r \in Requests : Planned(r) => \A i \in DOMAIN requests[r].plan :
    LET rule == setting.rules[i]
        entry == requests[r].plan[i]
    IN Selectable(rule) =>
         IF TotalWeight(rule) = 0 THEN entry.short = IF entry.picked = {} THEN {} ELSE {Unmatched}
         ELSE IF entry.short = {} THEN FairShare(rule, [d \in Levels |-> OfLevel(entry.picked, d)])
         ELSE \E d \in entry.short \cap Levels, a \in [Levels -> 0..rule.count] :
                /\ \A e \in entry.short : d <= e
                /\ FairShare(rule, a) /\ OfLevel(Available(r, i), d) < a[d]

\* What students may take does not change: while an assessment stays out of DRAFT its
\* configuration is fixed and its questions go only with the bank's
\* (updateAssessment, setScope, addQuestions, removeQuestion, autoSelectFromPattern).
FrozenOncePublished ==
  [][OneClient /\ Taken /\ Taken' =>
       /\ assessment' = [assessment EXCEPT !.status = assessment'.status]
       /\ links' = [q \in {p \in DOMAIN links : bank'[p] # Null} |-> links[q]]]_vars

DistinctLabels ==
  \A i, k \in DOMAIN setting.rules : Label(setting.rules[i]) = Label(setting.rules[k]) => i = k

Committed(r) == requests[r].op = "commit" /\ links' # links /\ bank' = bank

\* The paper a selection leaves agrees with the coverage shown for it: when no two rules share
\* a label, each rule the selection fills is SHORT exactly when the plan was short of it, is
\* never in EXCESS or mismatched, and no question is unassigned (autoSelectFromPattern, which
\* replaces the whole selection, and computePatternCoverage).
SelectedCovers ==
  [][\A r \in Requests :
       OneClient /\ DistinctLabels /\ Committed(r) =>
         /\ Unassigned(setting.rules, links') = {}
         /\ \A i \in DOMAIN setting.rules :
              LET rule == setting.rules[i] IN
              Selectable(rule) =>
                Coverage(rule, links', setting.type) =
                  IF Cardinality(requests[r].plan[i].picked) < rule.count THEN "SHORT" ELSE "OK"]_vars

\* docs/api/assessments.md:288-292, "for each blueprint section that is not yet satisfied, the
\* service draws" questions and "writes the missing sections' questions": a selection leaves
\* the questions of a section alone that has all it asks for (autoSelectFromPattern).
SatisfiedKept ==
  [][\A r \in Requests : OneClient /\ DistinctLabels /\ Committed(r) =>
       \A i \in DOMAIN setting.rules :
         Coverage(setting.rules[i], links, setting.type) = "OK" =>
           \A q \in DOMAIN links :
             links[q].section = Label(setting.rules[i]) => q \in DOMAIN links' \/ bank[q] = Null]_vars
=============================================================================
