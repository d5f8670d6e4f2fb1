--------------------------- MODULE PaperSelection ---------------------------
(***************************************************************************)
(* Choosing the questions of a paper from its pattern, and comparing a     *)
(* paper with its pattern (apps/api/src/examinations/paper-selection.ts,   *)
(* flattenPatternRules of packages/contracts, paper-patterns.validation).  *)
(*                                                                         *)
(* The rows the selection reads come in no order, so that it picks is a    *)
(* choice of subsets, and an operator here is the set of what it may       *)
(* return.  Null is an absent value; an absent number is 0, since the      *)
(* schemas admit none below 1.                                             *)
(***************************************************************************)
EXTENDS Integers, FiniteSets, Sequences, FiniteSetsExt, SequencesExt

CONSTANTS Types, Null

Levels == 1..3      \* EASY, MEDIUM, HARD

\* A rule of a stored pattern, flattened.  Each weight is a per cent, but nothing more is
\* known of them: a pattern unlocked and edited after its approval is stored unvalidated and
\* stays approved (setLocked, updatePattern), and only its status is checked before use.
IsRule(rule) ==
  /\ DOMAIN rule = {"section", "type", "count", "marks", "total", "compulsory", "attempt", "weights"}
  /\ rule.type \in Types \cup {Null}
  /\ rule.count \in Nat /\ rule.marks \in Nat /\ rule.total \in Nat /\ rule.attempt \in Nat
  /\ rule.compulsory \in BOOLEAN
  /\ rule.weights = Null \/ rule.weights \in [Levels -> 0..100]

Attempted(rule) == IF ~rule.compulsory /\ rule.attempt > 0 THEN rule.attempt ELSE rule.count

Sum3(f) == f[1] + f[2] + f[3]

\* The label under which a rule's questions are stored and counted: "Section - TYPE", so
\* that two rules of one section with the same type share it.
Label(rule) == <<rule.section, rule.type>>
General == <<"General", Null>>

\* Mutation: rounded down.
FloorDiv(a, b) == a \div b
CeilDiv(a, b) == (a + b - 1) \div b

SectionMarks(rule) ==
  IF rule.marks > 0 THEN rule.marks
  ELSE IF rule.total > 0 /\ Attempted(rule) > 0 THEN CeilDiv(rule.total, Attempted(rule))
  ELSE 1

-----------------------------------------------------------------------------
(* pickForSection.                                                         *)

Weights(rule) == IF rule.weights = Null THEN <<0, 100, 0>> ELSE rule.weights
TotalWeight(rule) == Sum3(Weights(rule))

Whole(rule, d) == (rule.count * Weights(rule)[d]) \div TotalWeight(rule)
Fraction(rule, d) == (rule.count * Weights(rule)[d]) % TotalWeight(rule)
Leftover(rule) == rule.count - (Whole(rule, 1) + Whole(rule, 2) + Whole(rule, 3))

\* The largest remainders get the leftover slots.  The sort is stable, but equal remainders
\* of unequal weights are floating-point numbers, which may differ either way.
Precedes(rule, d, e) ==
  \/ Fraction(rule, d) > Fraction(rule, e)
  \/ Fraction(rule, d) = Fraction(rule, e) /\ (Weights(rule)[d] # Weights(rule)[e] \/ d < e)

\* Mutation: every remainder is rounded up.
RoundedUp(rule) == {{d \in Levels : Fraction(rule, d) > 0}}
Favoured(rule) ==
  {up \in SUBSET Levels : /\ Cardinality(up) = Leftover(rule)
                          /\ \A d \in up, e \in Levels \ up : Precedes(rule, d, e)}
\* Weights that are all zero allocate nothing.
Allocations(rule) ==
  IF TotalWeight(rule) = 0 THEN {[d \in Levels |-> 0]}
  ELSE {[d \in Levels |-> Whole(rule, d) + IF d \in up THEN 1 ELSE 0] : up \in Favoured(rule)}

\* One bucket: its own level first, then whatever is left of the pool.  A state of the
\* selection is the pool, what was picked, and the buckets that fell short.
FillBucket(state, level, d, limit) ==
  LET own == {q \in state.pool : level[q] = d}
      k == Min({limit, Cardinality(own)})
      others(mine) == kSubset(Min({limit - k, Cardinality(state.pool \ mine)}), state.pool \ mine)
  IN UNION {{[pool |-> state.pool \ (mine \cup other), picked |-> state.picked \cup mine \cup other,
              short |-> IF k < limit THEN state.short \cup {d} ELSE state.short] :
               other \in others(mine)} : mine \in kSubset(k, own)}

\* Slots no bucket accounts for: those of a rule whose weights are all zero.
Unmatched == 0      \* "no matching difficulty available"
Reports == Levels \cup {Unmatched}
FillRest(state, needed) ==
  LET limit == Max({0, needed - Cardinality(state.picked)}) IN
  {[pool |-> state.pool \ rest, picked |-> state.picked \cup rest,
    short |-> IF rest = {} THEN state.short ELSE state.short \cup {Unmatched}] :
     rest \in kSubset(Min({limit, Cardinality(state.pool)}), state.pool)}

Buckets(pool, level, a) ==
  LET Then(states, d) == UNION {FillBucket(state, level, d, a[d]) : state \in states}
  IN Then(Then(Then({[pool |-> pool, picked |-> {}, short |-> {}]}, 1), 2), 3)

PickForSection(rule, pool, level) ==
  UNION {UNION {FillRest(state, rule.count) : state \in Buckets(pool, level, a)} : a \in Allocations(rule)}

-----------------------------------------------------------------------------
(* planAutoSelection and computePatternCoverage.                           *)

Selectable(rule) == rule.type # Null /\ rule.count > 0

\* A plan is a sequence of entries, one per rule.  The entries a rule may get, from the
\* questions no earlier rule took.
Entries(rule, pool, type, level) ==
  IF Selectable(rule)
  THEN {[picked |-> state.picked, short |-> state.short] :
          state \in PickForSection(rule, {q \in pool : type[q] = rule.type}, level)}
  ELSE {[picked |-> {}, short |-> {}]}

PickedBy(plan, rules) == UNION {plan[i].picked : i \in rules}

\* The links a plan becomes: sections in order, marks and label of the rule.
Layout(rules, plan) ==
  LET RuleOf(q) == CHOOSE i \in DOMAIN plan : q \in plan[i].picked
      Before(i) == Cardinality(PickedBy(plan, 1..(i - 1)))
      Place(q) == LET i == RuleOf(q) IN
        [sort |-> Before(i) + CHOOSE n \in 1..Cardinality(plan[i].picked) : SetToSeq(plan[i].picked)[n] = q,
         marks |-> SectionMarks(rules[i]), section |-> Label(rules[i])]
  IN [q \in PickedBy(plan, DOMAIN plan) |-> Place(q)]

RequiredCount(rule) == IF rule.count > 0 THEN rule.count ELSE rule.attempt

Coverage(rule, links, type) ==
  LET present == {q \in DOMAIN links : links[q].section = Label(rule)} IN
  IF Cardinality(present) < RequiredCount(rule) THEN "SHORT"
  ELSE IF rule.count > 0 /\ Cardinality(present) > rule.count THEN "EXCESS"
  ELSE IF rule.type # Null /\ \E q \in present : type[q] # rule.type THEN "TYPE_MISMATCH"
  ELSE "OK"

Unassigned(rules, links) == {q \in DOMAIN links : \A i \in DOMAIN rules : links[q].section # Label(rules[i])}

\* A fair share of a rule's count: whole numbers that make up the count, each less than one
\* question away from its proportion of the weights.
FairShare(rule, a) ==
  LET t == TotalWeight(rule) IN
  /\ Sum3(a) = rule.count
  /\ \A d \in Levels : t * a[d] - rule.count * Weights(rule)[d] \in (1 - t)..(t - 1)
=============================================================================
